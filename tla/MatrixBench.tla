----------------------------- MODULE MatrixBench -----------------------------
(***************************************************************************)
(* The bench tools for the button matrix: remote_gpio_controller.py, and   *)
(* probe_matrix.py which runs it on the Pi between a stop and a start of   *)
(* the motor service.                                                      *)
(*                                                                         *)
(* First `identify-rows' finds out how the harness is wired: every wire is *)
(* profiled, every pair is ordered as (row, column), every wire is pulled  *)
(* low to see which others follow, and the map is rewritten to use one     *)
(* wire of each net.  Then probes gate pairs of that map, or pairs an      *)
(* operator names, against the scanning remote (as in MatrixGate, where    *)
(* `fresh' is explained; here each PAIR remembers whether it sinks its     *)
(* column, and two pairs may share one).  Their loop asks for no real-time  *)
(* scheduling, so it may sleep through a gap of the scan, or through whole  *)
(* windows; `overslept' tells.  The oldest tools of the script, pulse,      *)
(* drive and sequence, know nothing of the scan: they ground the wires of   *)
(* buttons, of a map given on the command line, for a while.                *)
(***************************************************************************)
EXTENDS ScannedRemote, FiniteSetsExt, SequencesExt

CONSTANTS
    Harness,          \* the wires (BCM numbers), in the order main lists them
    NetOf,            \* wire -> the electrical net it is soldered to
    CANDIDATE_PAIRS,  \* button -> its two wires, in no particular order
    EXPECTED,         \* scan windows in one profile, seconds / NOMINAL_SCAN_PERIOD_S
    REQUESTS,         \* sequences of buttons an operator may ask for
    INTERSECTIONS,    \* sequences of <<row, column>> wires
    PIN_MAPS          \* button -> wire, as the --*-pin options may say

Wires == Range(Harness)
Buttons == DOMAIN CANDIDATE_PAIRS
BUTTON_NAMES == <<"left-forward", "left-reverse", "right-forward", "right-reverse">>
ScanNets == Range(Frame)

\* Both wires of a pair touch the same button: one its scan line, one its
\* direction line.  How often a net reaches the Pi does not matter.  A profile is
\* long enough for two windows to be less than half of what a row shows.
ASSUME HarnessAssumption ==
    /\ Harness \in Seq(Nat) /\ Buttons = Range(BUTTON_NAMES)
    /\ \A b \in Buttons :
         /\ CANDIDATE_PAIRS[b] \in Wires \X Wires
         /\ NetOf[CANDIDATE_PAIRS[b][1]] \in ScanNets
              <=> NetOf[CANDIDATE_PAIRS[b][2]] \notin ScanNets
    /\ EXPECTED \in Nat /\ EXPECTED > 4

\* What is asked of an operator, and checked by nobody: "row:column", the scan
\* line first, and to ground the wire of a button, not a scan line.
ASSUME OperatorAssumption ==
    /\ REQUESTS \subseteq Seq(Buttons) \ {<<>>}
    /\ INTERSECTIONS \subseteq Seq(Nat \X Nat)
    /\ \A ps \in INTERSECTIONS : \A i \in DOMAIN ps :
         NetOf[ps[i][1]] \in ScanNets /\ NetOf[ps[i][2]] \notin ScanNets
    /\ PIN_MAPS \subseteq [Buttons -> Int]
    /\ \A map \in PIN_MAPS : \A b \in Buttons : NetOf[map[b]] \notin ScanNets

VARIABLES
    stage,      \* "profile", "nets": identify-rows; "idle"; "stopped", "read",
                \* "apply", "head", "finally", "exit": a probe on the Pi;
                \* "press", "hold", "close": a tool that grounds buttons
    resolved,   \* identify_matrix_rows: button -> <<row, column>>
    unread,     \* buttons not profiled, then wires not pulled low, yet
    nets,       \* detect_shared_nets: wire -> the wires that followed
    fooled,     \* history: a scan window swallowed all samples of one reading
    pins,       \* the map the operator deploys: MATRIX_PINS
    service,    \* is the motor service running?
    pairs,      \* the pairs of the probe
    tool,       \* the wires the tool sets up and, at its end, releases
    queue,      \* wire sets, of the buttons still to be pressed
    at, saw,    \* the pair the loop is at, and the level it read
    sink,       \* pair -> does it believe it holds its column low?
    late,       \* has the deadline passed?
    low,        \* the wires that are outputs driven low
    strayed,    \* history: wires a killed tool left low and no service owns
    overslept   \* history: the gap before this window held no whole round of
                \* the loop

identify == <<resolved, unread, nets, fooled, pins>>
gate == <<pairs, tool, queue, at, saw, sink, late>>
scan == <<remote, fresh, overslept>>
benchVars == <<stage, identify, service, gate, low, strayed, scan>>

BenchInit ==
    /\ stage = "profile"
    /\ resolved = <<>> /\ unread = Buttons /\ nets = <<>> /\ pins = <<>>
    /\ fooled = FALSE
    /\ service = FALSE
    /\ pairs = <<>> /\ tool = {} /\ queue = <<>> /\ at = 1 /\ saw = FALSE
    /\ sink = <<>> /\ late = FALSE
    /\ low = {} /\ strayed = {}
    /\ RemoteInit /\ overslept = FALSE

-----------------------------------------------------------------------------
(* identify-rows. *)

\* An entry of a dict is set.
With(f, x, y) == [z \in DOMAIN f \union {x} |-> IF z = x THEN y ELSE f[z]]

\* What profile_scan_pin may return: how many low windows it saw, and whether
\* their median width and period are in range (a preempted busy loop stretches
\* both).  A direction line can show a few clean windows while somebody
\* touches a button; it never shows as many as a row.
Profiles(w) ==
    IF NetOf[w] \in ScanNets
    THEN [windows : {2, EXPECTED}, inRange : BOOLEAN]
    ELSE [windows : {0, 2}, inRange : BOOLEAN]

\* classify_scan_pin.  Two windows are needed for one period.
Verdict(p) ==
    IF p.windows < 2 \/ 2 * p.windows < EXPECTED THEN "column"
    ELSE IF p.inRange THEN "row" ELSE "unclear"

\* One pair of identify_matrix_rows.  Whatever is not a row is the column, an
\* unclear wire included; no row, or two, leaves the button unresolved.
Resolve(b) ==
    /\ stage = "profile" /\ b \in unread
    /\ LET wire == CANDIDATE_PAIRS[b]
       IN  \E first \in Profiles(wire[1]), second \in Profiles(wire[2]) :
             LET row1 == Verdict(first) = "row"
                 row2 == Verdict(second) = "row"
             IN  resolved' =
                   IF row1 = row2 THEN resolved
                   ELSE With(resolved, b, IF row1 THEN wire ELSE <<wire[2], wire[1]>>)
    /\ unread' = IF unread = {b} THEN Wires ELSE unread \ {b}
    /\ stage' = IF unread = {b} THEN "nets" ELSE stage
    /\ UNCHANGED <<nets, fooled, pins, service, gate, low, strayed, scan>>

\* The wires that read low while w is held low.  A reading asks for 38 of 40
\* samples, so a bad contact can hide a wire of the same net (in one of the
\* two directions); the samples are taken back to back, so a row whose whole
\* window they fall into is taken for a follower (at most once: a bound).
Followers(w) ==
    LET same == {v \in Wires \ {w} : NetOf[v] = NetOf[w]}
        rows == {v \in Wires \ {w} : NetOf[v] \in ScanNets}
    IN  {[of |-> f, fooled |-> FALSE] :
           f \in {g \in SUBSET same :
                    \A v \in same : v \in DOMAIN nets /\ w \notin nets[v]
                                      => v \in g}}
          \union {[of |-> same \union {v}, fooled |-> TRUE] :
                    v \in {u \in rows \ same : ~fooled}}

\* One wire of detect_shared_nets, in the order of the harness.
PullLow(w) ==
    /\ stage = "nets" /\ w \in unread
    /\ \A v \in unread : w <= v
    /\ \E f \in Followers(w) :
         /\ nets' = With(nets, w, f.of)
         /\ fooled' = (fooled \/ f.fooled)
    /\ unread' = unread \ {w}
    /\ UNCHANGED <<stage, resolved, pins, service, gate, low, strayed, scan>>

\* Mutant of Joined: every wire opens a group of its own.
JoinedNever(groups, members) == Append(groups, members)

\* net_groups: the members join the first group they touch.
Joined(groups, members) ==
    LET touching == {i \in DOMAIN groups : groups[i] \cap members # {}}
    IN  IF touching = {} THEN Append(groups, members)
        ELSE [groups EXCEPT ![Min(touching)] = @ \union members]

GroupsUpTo[i \in 0..Len(Harness)] ==
    IF i = 0 THEN <<>>
    ELSE Joined(GroupsUpTo[i - 1], {Harness[i]} \union nets[Harness[i]])

Groups == GroupsUpTo[Len(Harness)]

\* matrix_pins_from_nets: later groups overwrite what earlier ones said.
Canonical(w) ==
    Max({Min(Groups[i]) : i \in {j \in DOMAIN Groups : w \in Groups[j]}})

\* The end of identify-rows.  A complete map is deployed and the service
\* started with it; after anything less the operator identifies again.
Deploy ==
    /\ stage = "nets" /\ unread = {}
    /\ \/ /\ DOMAIN resolved = Buttons
          /\ stage' = "idle" /\ service' = TRUE
          /\ pins' = [b \in Buttons |->
                        <<Canonical(resolved[b][1]), Canonical(resolved[b][2])>>]
          /\ UNCHANGED fooled
          /\ unread' = {}
       \/ /\ DOMAIN resolved # Buttons
          /\ stage' = "profile" /\ fooled' = FALSE
          /\ unread' = Buttons
          /\ UNCHANGED <<service, pins>>
    /\ resolved' = <<>> /\ nets' = <<>>
    /\ UNCHANGED <<gate, low, strayed, scan>>

-----------------------------------------------------------------------------
(* The remote. *)

Gating == stage \in {"head", "read", "apply"}

\* The remote waits for nobody.
ScanRises ==
    /\ stage \notin {"profile", "nets"}
    /\ RowRises
    /\ UNCHANGED <<stage, identify, service, gate, low, strayed, overslept>>

ScanFalls ==
    /\ stage \notin {"profile", "nets"}
    /\ RowFalls
    /\ overslept' = (Gating /\ fresh # "done")
    /\ UNCHANGED <<stage, identify, service, gate, low, strayed>>

\* A net is low because the remote scans it or because the Pi pulls at it.
NetLow(n) == (lineLow /\ Frame[slot] = n) \/ \E w \in low : NetOf[w] = n

-----------------------------------------------------------------------------
(* run_on_pi: stop the service; gate; start the service. *)

OwnedWires == UNION {Range(pins[b]) : b \in DOMAIN pins}

StopService ==
    /\ stage = "idle" /\ service
    /\ stage' = "stopped" /\ service' = FALSE
    /\ UNCHANGED <<identify, gate, low, strayed, scan>>

WiresOf(ps) == UNION {Range(ps[i]) : i \in DOMAIN ps}

\* validate_matrix_actions: no wheel both ways.
ValidActions(names) ==
    \A wheel \in {{"left-forward", "left-reverse"}, {"right-forward", "right-reverse"}} :
        ~(wheel \subseteq Range(names))

\* parse_intersections.
ValidPairs(ps) == ps # <<>> /\ \A i \in DOMAIN ps : ps[i][1] # ps[i][2]

\* The tool begins: every wire of its set an input, no pair sinking.
Begin(ps, wires) ==
    /\ stage = "stopped"
    /\ stage' = "head"
    /\ pairs' = ps /\ tool' = wires
    /\ sink' = [i \in DOMAIN ps |-> FALSE]
    /\ at' = 1 /\ saw' = FALSE /\ late' = FALSE
    /\ low' = low \ wires /\ strayed' = strayed \ wires
    /\ fresh' = "none" /\ overslept' = FALSE
    /\ UNCHANGED <<identify, service, queue, remote>>

\* gated_matrix_actions sets up the wires of the whole map.
BeginActions(names) ==
    /\ ValidActions(names)
    /\ Begin([i \in DOMAIN names |-> pins[names[i]]], OwnedWires)

\* gate_intersections: the wires that are named.
BeginPairs(ps) == ValidPairs(ps) /\ Begin(ps, WiresOf(ps))

\* gated_matrix_pulse: one pair of them.
BeginPulse(pair) == pair[1] # pair[2] /\ Begin(<<pair>>, Range(pair))

\* parser.error: the tool ends before it touches a wire.
Reject ==
    /\ stage = "stopped"
    /\ \/ \E a \in REQUESTS : ~ValidActions(a)
       \/ \E ps \in INTERSECTIONS : ~ValidPairs(ps)
    /\ stage' = "exit"
    /\ UNCHANGED <<identify, service, gate, low, strayed, scan>>

\* main: matrix-pulse, gate-pairs, matrix-drive.
Dispatch ==
    \/ \E a \in REQUESTS : BeginActions(a)
    \/ \E ps \in INTERSECTIONS : BeginPairs(ps)
    \/ \E ps \in INTERSECTIONS : ps # <<>> /\ BeginPulse(ps[1])
    \/ Reject

DeadlinePasses ==
    /\ Gating /\ ~late
    /\ late' = TRUE
    /\ UNCHANGED <<stage, identify, service, pairs, tool, queue, at, saw, sink, low,
                   strayed, scan>>

\* `while time.perf_counter_ns() < deadline'.
CheckDeadline ==
    /\ stage = "head"
    /\ stage' = IF late THEN "finally" ELSE "read"
    /\ fresh' = IF fresh = "none" /\ ~late THEN "started" ELSE fresh
    /\ UNCHANGED <<identify, service, gate, low, strayed, remote, overslept>>

ReadRow ==
    /\ stage = "read"
    /\ saw' = NetLow(NetOf[pairs[at][1]])
    /\ stage' = "apply"
    /\ UNCHANGED <<identify, service, pairs, tool, queue, at, sink, late, low, strayed,
                   scan>>

\* Mutant of Unchanged: every pair applies its level, whether it sinks or not.
NeverUnchanged == FALSE

\* apply_matrix_row_level's early return: a pair that does not sink its
\* column does not release it either.
Unchanged == saw = sink[at]

Apply ==
    /\ stage = "apply"
    /\ low' = IF Unchanged THEN low
              ELSE IF saw THEN low \union {pairs[at][2]}
              ELSE low \ {pairs[at][2]}
    /\ sink' = [sink EXCEPT ![at] = saw]
    /\ at' = (at % Len(pairs)) + 1
    /\ stage' = IF at = Len(pairs) THEN "head" ELSE "read"
    /\ fresh' = IF at = Len(pairs) /\ fresh = "started" THEN "done" ELSE fresh
    /\ UNCHANGED <<identify, service, pairs, tool, queue, saw, late, strayed, remote,
                   overslept>>

\* KeyboardInterrupt, or an exception of the GPIO library, in the try block.
Interrupt ==
    /\ Gating
    /\ stage' = "finally"
    /\ UNCHANGED <<identify, service, gate, low, strayed, scan>>

\* Nothing of the tool outlives its process, but for the levels of its wires.
Gone ==
    /\ pairs' = <<>> /\ sink' = <<>> /\ at' = 1 /\ saw' = FALSE
    /\ tool' = {} /\ queue' = <<>>

\* The finally clause: every pin an input, and cleanup.
Finally ==
    /\ stage = "finally"
    /\ stage' = "exit"
    /\ low' = low \ tool
    /\ Gone
    /\ UNCHANGED <<identify, service, late, strayed, scan>>

\* A bound: what one killed tool left is set up again before the next is killed.
OneKillAtATime == strayed = {}

\* The tool is killed: no finally clause, the shell goes on with the next word.
KillGating ==
    /\ Gating /\ OneKillAtATime
    /\ stage' = "exit"
    /\ strayed' = strayed \union (low \ OwnedWires)
    /\ Gone
    /\ UNCHANGED <<identify, service, late, low, scan>>

\* Mutant of ShellGoesOn: the words are joined by &&, so that a tool that left
\* something low (killed) ends the line.
ShellNeedsSuccess == low = {}

ShellGoesOn == TRUE

\* MatrixMotorRuntime.__init__ releases the wires of its own map.
StartedPins == low \ OwnedWires

StartService ==
    /\ stage = "exit"
    /\ ShellGoesOn
    /\ stage' = "idle" /\ service' = TRUE
    /\ low' = StartedPins
    /\ strayed' = strayed \ OwnedWires
    /\ late' = FALSE
    /\ UNCHANGED <<identify, pairs, tool, queue, at, saw, sink, scan>>

-----------------------------------------------------------------------------
(* pulse, drive and sequence: an operator on the Pi, service or no service. *)

MOTIONS ==
    {{"left-forward", "right-forward"}, {"left-reverse", "right-reverse"},
     {"left-reverse", "right-forward"}, {"left-forward", "right-reverse"}}

\* What each of the three presses, set by set.
Presses ==
    {<<{b}>> : b \in Buttons}
      \union {<<motion>> : motion \in MOTIONS}
      \union {[i \in DOMAIN BUTTON_NAMES |-> {BUTTON_NAMES[i]}]}

\* gpio_pin, in the parser of every --*-pin option.
GpioPin(pin) == pin \in 0..27

\* validate_pin_map: two buttons on one wire are refused.
DistinctPins(map) == IsInjective(map)

\* pin_map_from_args.
ValidMap(map) == DistinctPins(map) /\ \A pin \in Range(map) : GpioPin(pin)

\* RpiOpenDrainButtons.__init__: the wires of the map it was given, inputs.
Take(map, presses) ==
    /\ stage = "idle" /\ ValidMap(map)
    /\ stage' = "press"
    /\ queue' = [i \in DOMAIN presses |-> {map[b] : b \in presses[i]}]
    /\ tool' = Range(map)
    /\ low' = low \ tool' /\ strayed' = strayed \ tool'
    /\ UNCHANGED <<identify, service, pairs, at, saw, sink, late, scan>>

\* press: the whole map is released, then the wires are grounded.
Press ==
    /\ stage = "press"
    /\ stage' = "hold"
    /\ low' = (low \ tool) \union Head(queue)
    /\ UNCHANGED <<identify, service, gate, strayed, scan>>

\* The duration is over, or sleep raised: release_all; then the pause and the
\* next press of a sequence.
Release ==
    /\ stage = "hold"
    /\ low' = low \ tool
    /\ queue' = Tail(queue)
    /\ stage' = IF Len(queue) > 1 THEN "press" ELSE "close"
    /\ UNCHANGED <<identify, service, pairs, tool, at, saw, sink, late, strayed,
                   scan>>

\* KeyboardInterrupt before a press, in the middle of one, or in the pause.
BreakOff ==
    /\ stage \in {"press", "hold"}
    /\ stage' = "close"
    /\ UNCHANGED <<identify, service, gate, low, strayed, scan>>

\* close releases the map once more, whatever the command did.
Closed == low \ tool

CloseButtons ==
    /\ stage = "close"
    /\ stage' = "idle"
    /\ low' = Closed
    /\ Gone
    /\ UNCHANGED <<identify, service, late, strayed, scan>>

KillPress ==
    /\ stage \in {"press", "hold", "close"} /\ OneKillAtATime
    /\ stage' = "idle"
    /\ strayed' = strayed \union (low \intersect tool)
    /\ Gone
    /\ UNCHANGED <<identify, service, late, low, scan>>

Tool == CheckDeadline \/ ReadRow \/ Apply

BenchNext ==
    \/ \E b \in Buttons : Resolve(b)
    \/ \E w \in Wires : PullLow(w)
    \/ Deploy
    \/ ScanRises \/ ScanFalls
    \/ StopService
    \/ Dispatch
    \/ DeadlinePasses
    \/ Tool
    \/ Interrupt \/ Finally \/ KillGating
    \/ StartService
    \/ \E map \in PIN_MAPS, presses \in Presses : Take(map, presses)
    \/ Press \/ Release \/ BreakOff \/ CloseButtons \/ KillPress

BenchSpec == BenchInit /\ [][BenchNext]_benchVars

\* The shell and the tool run on, and the clock reaches the deadline.
BenchFairSpec ==
    /\ BenchSpec
    /\ WF_benchVars(DeadlinePasses) /\ WF_benchVars(Tool) /\ WF_benchVars(Finally)
    /\ WF_benchVars(StartService)
    /\ WF_benchVars(Dispatch)
    /\ WF_benchVars(Press) /\ WF_benchVars(Release) /\ WF_benchVars(CloseButtons)

-----------------------------------------------------------------------------
(* Properties. *)

\* The map that is deployed puts every button at its own intersection, row
\* first, and speaks of every net through one wire only ("Only one pin per net
\* may be used"), although profiles are spoiled and contacts missed in one
\* direction -- unless a scan window was mistaken for a shared net.
ResolvedIsTrue ==
    fooled \/ \A b \in DOMAIN pins :
        /\ {NetOf[pins[b][i]] : i \in 1..2}
             = {NetOf[CANDIDATE_PAIRS[b][i]] : i \in 1..2}
        /\ NetOf[pins[b][1]] \in ScanNets
        /\ \A v, w \in OwnedWires : NetOf[v] = NetOf[w] => v = w

\* Two pairs may share a column and each keeps a flag of its own; still the
\* press of one, once made, is not cut short by the poll of the other -- in a
\* window before which the loop has been round once.  After a gap it slept
\* through, a pair of the line before may let go late, and does cut the press.
PressIsWhole ==
    [][\A i \in DOMAIN pairs :
         LET row == NetOf[pairs[i][1]]
             pressed == NetLow(row) /\ sink[i] /\ pairs[i][2] \in low
         IN  pressed /\ ~fooled /\ ~overslept /\ Gating /\ Gating' /\ NetLow(row)'
               => pairs'[i][2] \in low']_benchVars

\* However a tool ends -- deadline, Ctrl-C, SIGKILL, a refused command -- the
\* service runs again and nothing is held low, but for the wires that a killed
\* tool left and nobody has set up since.
ProbeRestores ==
    stage \notin {"profile", "nets", "idle"}
      ~> stage = "idle" /\ service /\ low \subseteq strayed
=============================================================================
