----------------------------- MODULE MatrixGate -----------------------------
(***************************************************************************)
(* The gating loop of scripts/pi_motor_service.py: MatrixMotorRuntime      *)
(* presses buttons of a scanned remote by pulling a direction line (a      *)
(* COLUMN pin) low exactly while the remote pulls the scan line of that    *)
(* button (a ROW pin) low.                                                 *)
(*                                                                         *)
(* Two processes run side by side.  The remote walks its scan frame on its *)
(* own clock.  The Pi loops: serve the network (SetWheels), then poll: read*)
(* the row of each commanded action, release the columns nobody wants,     *)
(* assert the wanted ones.  Every GPIO read, the release pass and the      *)
(* assert pass are steps of their own, so the scan can move between them.  *)
(*                                                                         *)
(* The one timing assumption is the comment of request_realtime_scheduling:*)
(* "the loop has to notice a scan line rise and release a column before    *)
(* the next channel is scanned".  `fresh' says how far the Pi has got with *)
(* a whole poll inside the present scan phase, and while a REALTIME service*)
(* runs a phase does not end before one such poll has.                     *)
(***************************************************************************)
EXTENDS ScannedRemote

CONSTANTS
    MATRIX_PINS,     \* action -> <<row pin, column pin>>
    INVERT_LEFT, INVERT_RIGHT, SWAP_SIDES,  \* the service's three flags
    REALTIME         \* did request_realtime_scheduling succeed?

Actions == {"left-forward", "left-reverse", "right-forward", "right-reverse"}

Side == [a \in Actions |->
           IF a \in {"left-forward", "left-reverse"} THEN "left" ELSE "right"]

Direction == [a \in Actions |->
                IF a \in {"left-forward", "right-forward"} THEN 1 ELSE -1]

\* A wheel command after require_binary_wheels: each magnitude is 0 or 1.
Wheels == [{"left", "right"} -> {-1, 0, 1}]

Row(a) == MATRIX_PINS[a][1]
Column(a) == MATRIX_PINS[a][2]
Columns == {Column(a) : a \in Actions}

\* A tread's two directions share its channel's scan row and use different
\* direction lines, and no pin is both (test_remote_gpio_controller.py,
\* test_each_wheel_direction_sits_at_its_own_intersection and its neighbour).
ASSUME PinsAssumption ==
    /\ MATRIX_PINS \in [Actions -> Nat \X Nat]
    /\ \A a, b \in Actions :
         /\ Side[a] = Side[b] <=> Row(a) = Row(b)
         /\ Side[a] = Side[b] /\ a # b => Column(a) # Column(b)
         /\ Row(a) # Column(b)

ASSUME FlagsAssumption ==
    {INVERT_LEFT, INVERT_RIGHT, SWAP_SIDES, REALTIME} \subseteq BOOLEAN

-----------------------------------------------------------------------------
VARIABLES
    pc,              \* where the loop is
    actions,         \* the commanded actions
    driven,          \* column -> is the pin an output driven low?
    sink_active,     \* column -> the runtime's own record of `driven'
    row_was_low,     \* action -> its row at the last poll that read it
    todo, wanted,    \* the poll under way: rows to read, columns to assert
    counted,         \* history: what window_counts gained since the row fell
                     \* or, if that is later, since the action was commanded
    polled           \* history: the actions the last release pass served

loop == <<pc, actions, driven, sink_active, row_was_low, todo, wanted>>
vars == <<remote, loop, fresh, counted, polled>>

Alive == pc \in {"loop", "read", "assert"}

\* gpio.input(row) = 0
RowLow(a) == lineLow /\ Row(a) = Frame[slot]

\* The buttons the remote senses as pressed at this instant, by column.
Contacts == IF lineLow THEN {c \in Columns : driven[c]} ELSE {}

\* The column map of a runtime that holds nothing low.
Released == [c \in Columns |-> FALSE]

\* MatrixMotorRuntime.__init__ : every pin an input, nothing commanded.
Init ==
    /\ RemoteInit
    /\ pc = "loop" /\ todo = {} /\ wanted = {}
    /\ actions = {}
    /\ driven = Released /\ sink_active = Released
    /\ row_was_low = [a \in Actions |-> FALSE]
    /\ counted = [a \in Actions |-> 0]
    /\ polled = {}

-----------------------------------------------------------------------------
(* The remote. *)

\* What SCHED_FIFO buys.  Without it a phase may end at any moment.
PhaseMayEnd == Alive /\ REALTIME => fresh = "done"

LineRises ==
    /\ PhaseMayEnd
    /\ RowRises
    /\ UNCHANGED <<loop, counted, polled>>

LineFalls ==
    /\ PhaseMayEnd
    /\ RowFalls
    /\ counted' = [a \in Actions |-> 0]
    /\ UNCHANGED <<loop, polled>>

-----------------------------------------------------------------------------
(* The service. *)

\* The flags of the command line, in the order set_wheels applies them.
Oriented(w) ==
    LET l == IF SWAP_SIDES THEN w["right"] ELSE w["left"]
        r == IF SWAP_SIDES THEN w["left"] ELSE w["right"]
    IN  [s \in {"left", "right"} |->
            IF s = "left" THEN IF INVERT_LEFT THEN -l ELSE l
                          ELSE IF INVERT_RIGHT THEN -r ELSE r]

ActionsForWheels(w) == {a \in Actions : w[Side[a]] = Direction[a]}

\* Mutant of ReleasedColumns: keep is ignored.
ReleasedIgnoringKeep(dropped, keep) == {Column(a) : a \in dropped}

\* The columns release_action(name, keep) lets go for the dropped actions.
ReleasedColumns(dropped, keep) ==
    {Column(a) : a \in dropped} \ {Column(a) : a \in keep}

RememberedRows(dropped) ==
    [a \in Actions |-> row_was_low[a] /\ a \notin dropped]

\* set_wheels: called from the network part of the loop and by the watchdog.
SetWheels(w) ==
    /\ pc = "loop"
    /\ LET new == ActionsForWheels(Oriented(w))
           dropped == actions \ new
           released == ReleasedColumns(dropped, new)
       IN  /\ actions' = new
           /\ driven' = [c \in Columns |-> driven[c] /\ c \notin released]
           /\ sink_active' =
                [c \in Columns |-> sink_active[c] /\ c \notin released]
           /\ row_was_low' = RememberedRows(dropped)
           /\ counted' =
                [a \in Actions |->
                   IF a \in new \ actions THEN 0 ELSE counted[a]]
    /\ UNCHANGED <<remote, pc, todo, wanted, fresh, polled>>

\* poll() begins: wanted = {pin: False ...}.
PollStart ==
    /\ pc = "loop"
    /\ pc' = "read"
    /\ todo' = actions
    /\ wanted' = {}
    /\ fresh' = IF fresh = "none" THEN "started" ELSE fresh
    /\ UNCHANGED <<remote, actions, driven, sink_active, row_was_low,
                   counted, polled>>

\* Mutants of WantedAfter: an action whose row is high cancels the press of
\* another on the same column; a row is taken as low for one poll too long.
WantedCancelling(a) ==
    IF RowLow(a) THEN wanted \union {Column(a)} ELSE wanted \ {Column(a)}
WantedLingering(a) ==
    IF RowLow(a) \/ row_was_low[a] THEN wanted \union {Column(a)} ELSE wanted

WantedAfter(a) == IF RowLow(a) THEN wanted \union {Column(a)} ELSE wanted

\* One iteration of `for name in self.actions' (the tuple is left first).
PollRead(a) ==
    /\ pc = "read"
    /\ a \in todo
    /\ Side[a] = "right" => \A b \in todo : Side[b] = "right"
    /\ todo' = todo \ {a}
    /\ row_was_low' = [row_was_low EXCEPT ![a] = RowLow(a)]
    /\ wanted' = WantedAfter(a)
    /\ counted' =
         IF RowLow(a) /\ ~row_was_low[a]
         THEN [counted EXCEPT ![a] = @ + 1] ELSE counted
    /\ UNCHANGED <<remote, pc, actions, driven, sink_active, fresh, polled>>

AfterReleases ==
    [c \in Columns |-> driven[c] /\ ~(c \notin wanted /\ sink_active[c])]

\* The pass over the columns not wanted (apply_matrix_row_level with False).
PollRelease ==
    /\ pc = "read" /\ todo = {}
    /\ pc' = "assert"
    /\ driven' = AfterReleases
    /\ sink_active' = [c \in Columns |-> sink_active[c] /\ c \in wanted]
    /\ polled' = actions
    /\ UNCHANGED <<remote, actions, row_was_low, todo, wanted, fresh,
                   counted>>

\* Mutant of SunkAfterAsserts: the caller drops apply_matrix_row_level's result.
UnrecordedAsserts == sink_active

SunkAfterAsserts == [c \in Columns |-> sink_active[c] \/ c \in wanted]

\* The pass over the wanted columns (apply_matrix_row_level with True).
PollAssert ==
    /\ pc = "assert"
    /\ pc' = "loop"
    /\ driven' = [c \in Columns |->
                    driven[c] \/ (c \in wanted /\ ~sink_active[c])]
    /\ sink_active' = SunkAfterAsserts
    /\ wanted' = {}
    /\ fresh' = IF fresh = "started" THEN "done" ELSE fresh
    /\ UNCHANGED <<remote, actions, row_was_low, todo, counted, polled>>

\* SIGTERM is noticed at the head of the loop, and an exception comes out of
\* its network part; either way the finally clause runs close().
Close ==
    /\ pc = "loop"
    /\ pc' = "stopped"
    /\ actions' = {}
    /\ driven' = Released /\ sink_active' = Released
    /\ UNCHANGED <<remote, row_was_low, todo, wanted, fresh, counted, polled>>

\* SIGKILL: no finally clause; the pins keep the mode they were left in.
Kill ==
    /\ Alive
    /\ pc' = "dead"
    /\ todo' = {} /\ wanted' = {}
    /\ UNCHANGED <<remote, actions, driven, sink_active, row_was_low, fresh,
                   counted, polled>>

\* Mutant of RestartedPins: the constructor trusts the pins to be inputs.
LeftoverPins == driven

RestartedPins == Released

\* systemd starts the service again (Restart=on-failure), or somebody does.
Restart ==
    /\ pc \in {"stopped", "dead"}
    /\ pc' = "loop"
    /\ actions' = {}
    /\ driven' = RestartedPins /\ sink_active' = Released
    /\ row_was_low' = [a \in Actions |-> FALSE]
    /\ counted' = [a \in Actions |-> 0]
    /\ fresh' = "none"
    /\ polled' = {}
    /\ UNCHANGED <<remote, todo, wanted>>

Poll ==
    \/ PollStart
    \/ \E a \in Actions : PollRead(a)
    \/ PollRelease
    \/ PollAssert

Next ==
    \/ LineRises
    \/ LineFalls
    \/ \E w \in Wheels : SetWheels(w)
    \/ Poll
    \/ Close
    \/ Kill
    \/ Restart

Spec == Init /\ [][Next]_vars

\* The loop never sleeps and the remote scans while it is awake; systemd
\* starts a killed service again.
FairSpec == Spec /\ WF_vars(Poll) /\ WF_vars(LineRises \/ LineFalls)
                 /\ WF_vars(Restart)

-----------------------------------------------------------------------------
(* Properties. *)

TypeOK ==
    /\ slot \in 1..Len(Frame) /\ lineLow \in BOOLEAN
    /\ pc \in {"loop", "read", "assert", "stopped", "dead"}
    /\ actions \in SUBSET Actions
    /\ driven \in [Columns -> BOOLEAN]
    /\ sink_active \in [Columns -> BOOLEAN]
    /\ row_was_low \in [Actions -> BOOLEAN]
    /\ todo \in SUBSET actions
    /\ wanted \in SUBSET Columns
    /\ fresh \in {"none", "started", "done"}
    /\ counted \in [Actions -> Nat]
    /\ polled \in SUBSET Actions
    /\ pc # "read" => todo = {}
    /\ pc \notin {"read", "assert"} => wanted = {}

\* sink_active, the record that lets apply_matrix_row_level skip a setup()
\* call, never disagrees with the pin it stands for: a stale TRUE would leave
\* a column unpressed for good, a stale FALSE would leave it held low.
SinkMirrorsPin == Alive => sink_active = driven

\* "Two buttons on one channel must never appear pressed together"
\* (test_no_frame_ever_has_two_columns_low_at_once), at every instant, not
\* only after whole polls of four fixed motions.
OneColumnLow == \A c, d \in Columns : driven[c] /\ driven[d] => c = d

\* A column is low only while a commanded action owns it, so a stop, whether
\* from a client or from the watchdog, releases everything in the same call,
\* however the columns were shared by the commands before it.
LowIsOwned ==
    Alive => \A c \in Columns :
        driven[c] => \E a \in actions : Column(a) = c

\* No ghost press: whatever row is being scanned, wired or not, a low column
\* presses a button that was commanded when the columns were last served.
NoGhostPress ==
    Alive => \A c \in Contacts :
        \E a \in polled : Column(a) = c /\ Row(a) = Frame[slot]

\* A scan window is counted once for an action commanded throughout it, also
\* when the other tread's slots are dropped and restored in the meantime.
WindowCountedOnce == \A a \in Actions : counted[a] <= 1

\* The pins, the runtime's record of them and the commanded actions agree.
PinsAgree == SinkMirrorsPin /\ OneColumnLow /\ LowIsOwned /\ WindowCountedOnce

\* A press is never cut short: while its row stays low and its action stays
\* commanded, nothing the loop does lets the column go.
NoTruncatedPress ==
    [][\A a \in Actions :
         (Alive /\ Alive' /\ RowLow(a) /\ RowLow(a)' /\ driven[Column(a)]
            /\ a \in actions /\ a \in actions')
         => driven'[Column(a)]]_vars

\* An action that stays commanded is pressed again and again, whatever the
\* other tread is told in the meantime.
CommandedIsPressed ==
    \A a \in Actions :
        <>[](Alive /\ a \in actions) => []<>(RowLow(a) /\ driven[Column(a)])

\* No column is held low for good, not even by a service that was killed.
ColumnsAreReleased == \A c \in Columns : []<>(~driven[c])
=============================================================================
