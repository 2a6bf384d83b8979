---------------------------- MODULE MatrixProof ----------------------------
(***************************************************************************)
(* The two programs that gate the scanned remote.                          *)
(*                                                                         *)
(* First the gating loop of the service, for every pin map of the shape    *)
(* the tests demand and every scan frame, however long and whatever rows   *)
(* it visits: its record of the pins, that no press is of a button nobody  *)
(* commanded, and that none is cut short.  Then the bench tools, for every *)
(* harness and every request of an operator: the map that is deployed is   *)
(* the true one, and pairs that share a column do not cut each other's     *)
(* presses short.                                                          *)
(***************************************************************************)
EXTENDS MatrixGate, MatrixBench, WellFoundedInduction, TLAPS

-----------------------------------------------------------------------------
(* The gating loop of the service (MatrixGate). *)

\* Both inputs of the network part leave at most one action per side.
LEMMA OneActionPerRow ==
    ASSUME NEW w \in Wheels
    PROVE  \A a, b \in ActionsForWheels(Oriented(w)) : Row(a) = Row(b) => a = b
  BY PinsAssumption DEF ActionsForWheels, Actions, Side, Direction

\* A frame has at least one slot.
LEMMA FrameLength == Len(Frame) \in Nat \ {0}
  BY FrameAssumption

\* What a pin map says of each action.
LEMMA PinsOfActions ==
    ASSUME NEW a \in Actions
    PROVE  Column(a) \in Columns /\ Row(a) \in Nat
  BY PinsAssumption DEF Column, Columns, Row

\* Every variable keeps its type: in particular a poll never reads the row
\* of an action that set_wheels has dropped (todo \subseteq actions), and
\* wants only pins that are columns.
THEOREM TypeCorrect == Spec => []TypeOK
<1>1. Init => TypeOK
  <2> SUFFICES ASSUME Init PROVE TypeOK
    OBVIOUS
  <2>1. slot \in 1..Len(Frame)
    <3>1. slot = 1
      BY DEF Init, RemoteInit
    <3> QED
      BY <3>1, FrameLength
  <2>2. driven \in [Columns -> BOOLEAN] /\ sink_active \in [Columns -> BOOLEAN]
    BY DEF Init, RemoteInit, Released
  <2>3. row_was_low \in [Actions -> BOOLEAN] /\ counted \in [Actions -> Nat]
    BY DEF Init, RemoteInit
  <2> QED
    BY <2>1, <2>2, <2>3 DEF Init, RemoteInit, TypeOK
<1>2. TypeOK /\ [Next]_vars => TypeOK'
  <2> SUFFICES ASSUME TypeOK, [Next]_vars PROVE TypeOK'
    OBVIOUS
  <2> USE DEF TypeOK
  <2>1. CASE LineRises
    BY <2>1 DEF LineRises, RowRises, loop
  <2>2. CASE LineFalls
    BY <2>2, FrameLength DEF LineFalls, RowFalls, loop
  <2>3. ASSUME NEW w \in Wheels, SetWheels(w) PROVE TypeOK'
    BY <2>3 DEF SetWheels, remote, ActionsForWheels, RememberedRows
  <2>4. CASE PollStart
    BY <2>4 DEF PollStart, remote
  <2>5. ASSUME NEW a \in Actions, PollRead(a) PROVE TypeOK'
    BY <2>5, PinsOfActions DEF PollRead, remote, WantedAfter, RowLow
  <2>6. CASE PollRelease
    BY <2>6 DEF PollRelease, AfterReleases, remote
  <2>7. CASE PollAssert
    BY <2>7 DEF PollAssert, SunkAfterAsserts, remote
  <2>8. CASE Close
    BY <2>8 DEF Close, Released, remote
  <2>9. CASE Kill
    BY <2>9 DEF Kill, remote
  <2>10. CASE Restart
    BY <2>10 DEF Restart, RestartedPins, Released, remote
  <2>11. CASE UNCHANGED vars
    BY <2>11 DEF vars, remote, loop
  <2> QED
    BY <2>1, <2>2, <2>3, <2>4, <2>5, <2>6, <2>7, <2>8, <2>9, <2>10, <2>11
       DEF Next, Poll
<1> QED
  BY <1>1, <1>2, PTL DEF Spec

-----------------------------------------------------------------------------
(***************************************************************************)
(* The inductive invariant.  SinkMirrorsPin and LowIsOwned hold however    *)
(* blind the loop is; the rest needs the timing assumption, and its core is*)
(* that a poll wants columns of the present slot only, and nothing at all  *)
(* once it began inside a gap.                                             *)
(***************************************************************************)

OnePerRow(S) == \A a, b \in S : Row(a) = Row(b) => a = b

\* The column of some action of S.
Owned(c, S) == \E a \in S : Column(a) = c

\* The column of some action of S on the row the scan is at.
OnSlot(c, S) == \E a \in S : Column(a) = c /\ Row(a) = Frame[slot]

\* What holds without REALTIME.
RecordInv ==
    /\ Alive => \A c \in Columns : sink_active[c] = driven[c]
    /\ Alive => \A c \in Columns : driven[c] => Owned(c, actions)
    /\ \A c \in wanted : Owned(c, actions)

\* What the release pass has just achieved.
AssertInv ==
    pc = "assert" => /\ polled = actions
                     /\ \A c \in Columns : driven[c] => c \in wanted

\* What the timing assumption adds.
ScanInv ==
    /\ OnePerRow(actions) /\ OnePerRow(polled)
    /\ Alive => \A c \in Columns : driven[c] => OnSlot(c, polled)
    /\ \A c \in wanted : OnSlot(c, actions)
    /\ Alive /\ ~lineLow /\ fresh # "none" => wanted = {}
    /\ Alive /\ ~lineLow /\ fresh = "done" => \A c \in Columns : ~driven[c]
    /\ OneColumnLow

\* The invariants hold of a freshly started runtime.
LEMMA InitInv == Init => RecordInv /\ AssertInv /\ ScanInv
<1> SUFFICES ASSUME Init PROVE RecordInv /\ AssertInv /\ ScanInv
  OBVIOUS
<1>1. /\ actions = {} /\ polled = {} /\ wanted = {} /\ pc = "loop"
      /\ driven = sink_active
      /\ \A c \in Columns : ~driven[c]
  BY DEF Init, RemoteInit, Released
<1> QED
  BY <1>1 DEF RecordInv, AssertInv, ScanInv, OnePerRow, OneColumnLow

\* A dropped action's column survives set_wheels only if a kept action owns
\* it: this is the whole of release_action's `keep'.
LEMMA ReleaseKeepsOwned ==
    ASSUME NEW new \in SUBSET Actions, NEW c,
           Owned(c, actions),
           c \notin ReleasedColumns(actions \ new, new)
    PROVE  Owned(c, new)
  BY DEF Owned, ReleasedColumns

\* No step breaks RecordInv or AssertInv: the record follows every pin change.
LEMMA RecordStep ==
    ASSUME TypeOK, RecordInv, AssertInv, [Next]_vars
    PROVE  RecordInv' /\ AssertInv'
<1> USE DEF RecordInv, AssertInv
<1>1. CASE LineRises \/ LineFalls
  BY <1>1 DEF LineRises, RowRises, LineFalls, RowFalls, loop, Alive, Owned
<1>2. ASSUME NEW w \in Wheels, SetWheels(w) PROVE RecordInv' /\ AssertInv'
  <2> DEFINE new == ActionsForWheels(Oriented(w))
             released == ReleasedColumns(actions \ new, new)
  <2>1. /\ actions' = new /\ pc = "loop" /\ pc' = "loop" /\ wanted' = wanted
        /\ driven' = [c \in Columns |-> driven[c] /\ c \notin released]
        /\ sink_active' = [c \in Columns |-> sink_active[c] /\ c \notin released]
    BY <1>2 DEF SetWheels
  <2>2. new \in SUBSET Actions
    BY DEF ActionsForWheels
  <2>3. wanted' = {}
    BY <2>1 DEF TypeOK
  <2>4. ASSUME NEW c \in Columns
        PROVE  /\ sink_active'[c] = driven'[c]
               /\ driven'[c] => Owned(c, actions')
    <3> HIDE DEF new, released
    <3>1. sink_active[c] = driven[c] /\ (driven[c] => Owned(c, actions))
      BY <2>1 DEF Alive
    <3>2. sink_active'[c] = driven'[c]
      BY <2>1, <3>1
    <3>3. driven'[c] => driven[c] /\ c \notin released
      BY <2>1
    <3>4. Owned(c, actions) /\ c \notin released => Owned(c, new)
      BY <2>2, ReleaseKeepsOwned DEF released
    <3>5. Owned(c, new) => Owned(c, actions')
      BY <2>1
    <3> QED
      BY <3>1, <3>2, <3>3, <3>4, <3>5
  <2> QED
    BY <2>1, <2>3, <2>4 DEF Owned
<1>3. CASE PollStart
  BY <1>3 DEF PollStart, Alive, Owned
<1>4. ASSUME NEW a \in Actions, PollRead(a) PROVE RecordInv' /\ AssertInv'
  BY <1>4 DEF PollRead, WantedAfter, Alive, Owned, TypeOK
<1>5. CASE PollRelease
  <2>1. /\ pc = "read" /\ wanted' = wanted /\ actions' = actions
        /\ polled' = actions
    BY <1>5 DEF PollRelease
  <2>2. ASSUME NEW c \in Columns
        PROVE  /\ sink_active'[c] = driven'[c]
               /\ driven'[c] => driven[c] /\ c \in wanted
    <3>1. sink_active[c] = driven[c]
      BY <2>1 DEF Alive
    <3>2. driven'[c] = (driven[c] /\ ~(c \notin wanted /\ sink_active[c]))
      BY <1>5 DEF PollRelease, AfterReleases
    <3>3. sink_active'[c] = (sink_active[c] /\ c \in wanted)
      BY <1>5 DEF PollRelease
    <3> QED
      BY <3>1, <3>2, <3>3, Zenon
  <2> QED
    BY <2>1, <2>2 DEF Alive, Owned
<1>6. CASE PollAssert
  <2>1. /\ pc = "assert" /\ pc' = "loop" /\ wanted' = {} /\ actions' = actions
    BY <1>6 DEF PollAssert
  <2>2. ASSUME NEW c \in Columns
        PROVE  /\ sink_active'[c] = driven'[c]
               /\ driven'[c] => driven[c] \/ c \in wanted
    <3>1. sink_active[c] = driven[c]
      BY <2>1 DEF Alive
    <3>2. driven'[c] = (driven[c] \/ (c \in wanted /\ ~sink_active[c]))
      BY <1>6 DEF PollAssert
    <3>3. sink_active'[c] = (sink_active[c] \/ c \in wanted)
      BY <1>6 DEF PollAssert, SunkAfterAsserts
    <3> QED
      BY <3>1, <3>2, <3>3, Zenon
  <2> QED
    BY <2>1, <2>2 DEF Alive, Owned
<1>7. CASE Close \/ Kill
  BY <1>7 DEF Close, Kill, Alive, TypeOK, Owned
<1>8. CASE Restart
  <2>1. /\ pc' = "loop" /\ wanted' = {} /\ driven' = sink_active'
        /\ \A c \in Columns : ~driven'[c]
    BY <1>8 DEF Restart, RestartedPins, Released, TypeOK
  <2> QED
    BY <2>1
<1>9. CASE UNCHANGED vars
  BY <1>9 DEF vars, loop, Alive, Owned
<1> QED
  BY <1>1, <1>2, <1>3, <1>4, <1>5, <1>6, <1>7, <1>8, <1>9 DEF Next, Poll

\* The record invariants hold throughout, with any scheduling.
LEMMA RecordInvariant == Spec => [](TypeOK /\ RecordInv /\ AssertInv)
<1>1. Init => RecordInv /\ AssertInv
  BY InitInv
<1>2. TypeOK /\ RecordInv /\ AssertInv /\ [Next]_vars => RecordInv' /\ AssertInv'
  BY RecordStep
<1> QED
  BY <1>1, <1>2, TypeCorrect, PTL DEF Spec

\* However blind the loop is between polls, the record the polls trust is the
\* state of the pins.
THEOREM RecordIsTrue == Spec => []SinkMirrorsPin
<1>1. TypeOK /\ RecordInv => SinkMirrorsPin
  BY DEF TypeOK, RecordInv, SinkMirrorsPin
<1> QED
  BY <1>1, RecordInvariant, PTL

\* However blind the loop is, a column is low only while a commanded action
\* owns it; so a stop releases everything in the call that makes it.
THEOREM StopReleases == Spec => []LowIsOwned
<1>1. RecordInv => LowIsOwned
  BY DEF RecordInv, LowIsOwned, Owned
<1> QED
  BY <1>1, RecordInvariant, PTL

-----------------------------------------------------------------------------
\* Two columns of one slot are one column: only one commanded action sits on
\* the row being scanned.
LEMMA SlotHasOneColumn ==
    ASSUME NEW S, OnePerRow(S), NEW c, NEW d, OnSlot(c, S), OnSlot(d, S)
    PROVE  c = d
  BY DEF OnePerRow, OnSlot

\* With timely polls, no step breaks ScanInv.
LEMMA ScanStep ==
    ASSUME REALTIME, TypeOK, RecordInv, AssertInv, ScanInv, [Next]_vars
    PROVE  ScanInv'
<1> USE DEF ScanInv
<1>1. CASE LineRises
  BY <1>1 DEF LineRises, RowRises, loop, Alive, OnePerRow, OnSlot, OneColumnLow
<1>2. CASE LineFalls
  <2>1. /\ pc' = pc /\ actions' = actions /\ driven' = driven
        /\ wanted' = wanted /\ polled' = polled /\ lineLow' = TRUE
        /\ ~lineLow /\ PhaseMayEnd
    BY <1>2 DEF LineFalls, RowFalls, loop
  <2>2. Alive => wanted = {} /\ \A c \in Columns : ~driven[c]
    BY <2>1 DEF PhaseMayEnd
  <2>3. ~Alive => wanted = {}
    BY DEF Alive, TypeOK
  <2> QED
    BY <2>1, <2>2, <2>3 DEF Alive, OnePerRow, OneColumnLow
<1>3. ASSUME NEW w \in Wheels, SetWheels(w) PROVE ScanInv'
  <2>1. /\ pc = "loop" /\ pc' = pc /\ slot' = slot /\ lineLow' = lineLow
        /\ fresh' = fresh /\ polled' = polled /\ wanted' = wanted
        /\ actions' = ActionsForWheels(Oriented(w))
    BY <1>3 DEF SetWheels, remote
  <2>2. \A c \in Columns : driven'[c] => driven[c]
    BY <1>3 DEF SetWheels
  <2>3. OnePerRow(actions')
    BY <2>1, OneActionPerRow DEF OnePerRow
  <2>4. wanted = {}
    BY <2>1 DEF TypeOK
  <2> QED
    BY <2>1, <2>2, <2>3, <2>4 DEF Alive, OnePerRow, OnSlot, OneColumnLow
<1>4. CASE PollStart
  BY <1>4 DEF PollStart, remote, Alive, OnePerRow, OnSlot, OneColumnLow, TypeOK
<1>5. ASSUME NEW a \in Actions, PollRead(a) PROVE ScanInv'
  <2>1. /\ pc = "read" /\ pc' = pc /\ a \in actions
        /\ slot' = slot /\ lineLow' = lineLow /\ actions' = actions
        /\ driven' = driven /\ fresh' = fresh /\ polled' = polled
    BY <1>5 DEF PollRead, remote, TypeOK
  <2>2. CASE RowLow(a)
    <3>1. wanted' = wanted \union {Column(a)} /\ lineLow /\ Row(a) = Frame[slot]
      BY <1>5, <2>2 DEF PollRead, WantedAfter, RowLow
    <3> QED
      BY <2>1, <3>1 DEF Alive, OnePerRow, OnSlot, OneColumnLow
  <2>3. CASE ~RowLow(a)
    <3>1. wanted' = wanted
      BY <1>5, <2>3 DEF PollRead, WantedAfter
    <3> QED
      BY <2>1, <3>1 DEF Alive, OnePerRow, OnSlot, OneColumnLow
  <2> QED
    BY <2>2, <2>3
<1>6. CASE PollRelease
  <2>1. /\ pc = "read" /\ pc' = "assert" /\ slot' = slot /\ lineLow' = lineLow
        /\ actions' = actions /\ wanted' = wanted /\ fresh' = fresh
        /\ polled' = actions
    BY <1>6 DEF PollRelease, remote
  <2>2. ASSUME NEW c \in Columns PROVE driven'[c] => driven[c] /\ c \in wanted
    <3>1. sink_active[c] = driven[c]
      BY <2>1 DEF RecordInv, Alive
    <3>2. driven'[c] = (driven[c] /\ ~(c \notin wanted /\ sink_active[c]))
      BY <1>6 DEF PollRelease, AfterReleases
    <3> QED
      BY <3>1, <3>2, Zenon
  <2> QED
    BY <2>1, <2>2 DEF Alive, OnePerRow, OnSlot, OneColumnLow
<1>7. CASE PollAssert
  <2>1. /\ pc = "assert" /\ pc' = "loop" /\ slot' = slot /\ lineLow' = lineLow
        /\ actions' = actions /\ wanted' = {} /\ polled' = polled
        /\ fresh' = "done" => fresh # "none"
        /\ fresh' # "none" => fresh # "none"
    BY <1>7 DEF PollAssert, remote
  <2>2. polled = actions /\ \A c \in Columns : driven[c] => c \in wanted
    BY <2>1 DEF AssertInv
  <2>3. ASSUME NEW c \in Columns PROVE driven'[c] => c \in wanted
    <3>1. driven'[c] = (driven[c] \/ (c \in wanted /\ ~sink_active[c]))
      BY <1>7 DEF PollAssert
    <3> QED
      BY <2>2, <3>1, Zenon
  <2>4. \A c \in Columns : driven'[c] => OnSlot(c, actions)
    BY <2>3
  <2>5. OneColumnLow'
    BY <2>4, SlotHasOneColumn DEF OneColumnLow
  <2>6. ~lineLow /\ fresh # "none" => \A c \in Columns : ~driven'[c]
    BY <2>1, <2>3 DEF Alive
  <2> QED
    BY <2>1, <2>2, <2>4, <2>5, <2>6 DEF OnePerRow, OnSlot
<1>8. CASE Close
  <2>1. /\ pc' = "stopped" /\ actions' = {} /\ wanted' = {} /\ polled' = polled
        /\ \A c \in Columns : ~driven'[c]
    BY <1>8 DEF Close, Released, TypeOK
  <2> QED
    BY <2>1 DEF Alive, OnePerRow, OneColumnLow
<1>9. CASE Kill
  BY <1>9 DEF Kill, Alive, OnePerRow, OneColumnLow
<1>10. CASE Restart
  <2>1. /\ actions' = {} /\ wanted' = {} /\ polled' = {}
        /\ \A c \in Columns : ~driven'[c]
    BY <1>10 DEF Restart, RestartedPins, Released, TypeOK
  <2> QED
    BY <2>1 DEF OnePerRow, OneColumnLow
<1>11. CASE UNCHANGED vars
  BY <1>11 DEF vars, remote, loop, Alive, OnePerRow, OnSlot, OneColumnLow
<1> QED
  BY <1>1, <1>2, <1>3, <1>4, <1>5, <1>6, <1>7, <1>8, <1>9, <1>10, <1>11
     DEF Next, Poll

\* With timely polls, ScanInv holds throughout.
LEMMA ScanInvariant ==
    ASSUME REALTIME
    PROVE  Spec => []ScanInv
<1>1. Init => ScanInv
  BY InitInv
<1>2. TypeOK /\ RecordInv /\ AssertInv /\ ScanInv /\ [Next]_vars => ScanInv'
  BY ScanStep
<1> QED
  BY <1>1, <1>2, RecordInvariant, PTL DEF Spec

\* With the timing the service asks the scheduler for, a remote never sees
\* both direction lines low at once, whatever the commands and the frame.
THEOREM NeverTwoColumns ==
    ASSUME REALTIME
    PROVE  Spec => []OneColumnLow
<1>1. ScanInv => OneColumnLow
  BY DEF ScanInv
<1> QED
  BY <1>1, ScanInvariant, PTL

\* With that timing no button is pressed that was not commanded, also on the
\* rows of the frame that no wire reaches.
THEOREM GhostFree ==
    ASSUME REALTIME
    PROVE  Spec => []NoGhostPress
<1>1. ScanInv => NoGhostPress
  BY DEF ScanInv, NoGhostPress, Contacts, OnSlot
<1> QED
  BY <1>1, ScanInvariant, PTL

\* A window that has been counted is the one being scanned, and the loop
\* remembers its row as low while its action stays commanded.
WindowInv ==
    \A a \in Actions :
        /\ counted[a] \in {0, 1}
        /\ counted[a] = 1 /\ lineLow => RowLow(a)
        /\ counted[a] = 1 /\ lineLow /\ a \in actions => row_was_low[a]

\* No step breaks WindowInv: commands that leave an action alone leave its
\* remembered row alone too.
LEMMA WindowStep ==
    ASSUME TypeOK, WindowInv, [Next]_vars
    PROVE  WindowInv'
<1> USE DEF WindowInv, RowLow
<1>1. CASE LineRises
  BY <1>1 DEF LineRises, RowRises, loop
<1>2. CASE LineFalls
  BY <1>2 DEF LineFalls, RowFalls, loop
<1>3. ASSUME NEW w \in Wheels, SetWheels(w) PROVE WindowInv'
  <2> DEFINE new == ActionsForWheels(Oriented(w))
  <2>1. /\ lineLow' = lineLow /\ slot' = slot
        /\ \A a \in Actions : counted'[a] \in {0, counted[a]}
        /\ \A a \in Actions :
             a \in actions' /\ counted'[a] = 1 => a \in actions
    BY <1>3 DEF SetWheels, remote, TypeOK
  <2>2. \A a \in Actions :
            a \in actions /\ a \in actions' => row_was_low'[a] = row_was_low[a]
    BY <1>3 DEF SetWheels, RememberedRows, TypeOK
  <2> QED
    BY <2>1, <2>2
<1>4. CASE PollStart
  BY <1>4 DEF PollStart, remote
<1>5. ASSUME NEW b \in Actions, PollRead(b) PROVE WindowInv'
  <2>1. /\ lineLow' = lineLow /\ slot' = slot /\ actions' = actions
        /\ b \in actions
        /\ row_was_low' = [row_was_low EXCEPT ![b] = RowLow(b)]
        /\ counted' = IF RowLow(b) /\ ~row_was_low[b]
                      THEN [counted EXCEPT ![b] = @ + 1] ELSE counted
    BY <1>5 DEF PollRead, remote, TypeOK
  <2>2. \A a \in Actions \ {b} :
            counted'[a] = counted[a] /\ row_was_low'[a] = row_was_low[a]
    BY <2>1 DEF TypeOK
  <2>3. row_was_low'[b] = RowLow(b)
    BY <2>1 DEF TypeOK
  <2>4. CASE RowLow(b) /\ ~row_was_low[b]
    <3>1. counted[b] = 0 /\ counted'[b] = 1
      BY <2>1, <2>4 DEF TypeOK
    <3> QED
      BY <2>1, <2>2, <2>3, <2>4, <3>1
  <2>5. CASE ~(RowLow(b) /\ ~row_was_low[b])
    BY <2>1, <2>2, <2>3, <2>5
  <2> QED
    BY <2>4, <2>5
<1>6. CASE PollRelease
  BY <1>6 DEF PollRelease, remote
<1>7. CASE PollAssert
  BY <1>7 DEF PollAssert, remote
<1>8. CASE Close
  BY <1>8 DEF Close, remote
<1>9. CASE Kill
  BY <1>9 DEF Kill, remote
<1>10. CASE Restart
  BY <1>10 DEF Restart, remote
<1>11. CASE UNCHANGED vars
  BY <1>11 DEF vars, remote, loop
<1> QED
  BY <1>1, <1>2, <1>3, <1>4, <1>5, <1>6, <1>7, <1>8, <1>9, <1>10, <1>11
     DEF Next, Poll

\* Each scan window is counted once, without any assumption on timing.
THEOREM CountedOnce == Spec => []WindowCountedOnce
<1>1. Init => WindowInv
  BY DEF Init, RemoteInit, WindowInv
<1>2. TypeOK /\ WindowInv /\ [Next]_vars => WindowInv'
  BY WindowStep
<1>3. WindowInv => WindowCountedOnce
  BY DEF WindowInv, WindowCountedOnce
<1> QED
  BY <1>1, <1>2, <1>3, TypeCorrect, PTL DEF Spec

\* With timely polls the pins, the record of them, the commanded actions and
\* the counts agree, for every pin map, frame and choice of the flags.
THEOREM PinsAlwaysAgree ==
    ASSUME REALTIME
    PROVE  Spec => []PinsAgree
<1>1. SinkMirrorsPin /\ OneColumnLow /\ LowIsOwned /\ WindowCountedOnce => PinsAgree
  BY DEF PinsAgree
<1> QED
  BY <1>1, RecordIsTrue, NeverTwoColumns, StopReleases, CountedOnce, PTL

-----------------------------------------------------------------------------
\* A row that fell while a poll was under way found every column released, so
\* what is low now is wanted by each action of it that the poll has read.
ReadInv ==
    pc = "read" =>
        \A a \in actions \ todo :
            RowLow(a) /\ driven[Column(a)] => Column(a) \in wanted

\* With timely polls, no step breaks ReadInv.
LEMMA ReadStep ==
    ASSUME REALTIME, TypeOK, ScanInv, ReadInv, [Next]_vars
    PROVE  ReadInv'
<1> USE DEF ReadInv, RowLow
<1>1. CASE LineRises
  BY <1>1 DEF LineRises, RowRises, loop
<1>2. CASE LineFalls
  <2>1. /\ pc' = pc /\ actions' = actions /\ driven' = driven
        /\ ~lineLow /\ (Alive => fresh = "done")
    BY <1>2 DEF LineFalls, RowFalls, loop, PhaseMayEnd
  <2>2. Alive => \A c \in Columns : ~driven'[c]
    BY <2>1 DEF ScanInv
  <2>3. actions' \subseteq Actions
    BY <2>1 DEF TypeOK
  <2> QED
    BY <2>1, <2>2, <2>3, PinsOfActions DEF Alive
<1>3. ASSUME NEW w \in Wheels, SetWheels(w) PROVE ReadInv'
  BY <1>3 DEF SetWheels
<1>4. CASE PollStart
  BY <1>4 DEF PollStart
<1>5. ASSUME NEW b \in Actions, PollRead(b) PROVE ReadInv'
  <2>1. /\ pc = "read" /\ actions' = actions /\ driven' = driven
        /\ lineLow' = lineLow /\ slot' = slot /\ todo' = todo \ {b}
        /\ wanted' = WantedAfter(b)
    BY <1>5 DEF PollRead, remote
  <2>2. wanted \subseteq wanted' /\ (RowLow(b) => Column(b) \in wanted')
    BY <2>1 DEF WantedAfter
  <2> QED
    BY <2>1, <2>2
<1>6. CASE PollRelease
  BY <1>6 DEF PollRelease
<1>7. CASE PollAssert
  BY <1>7 DEF PollAssert
<1>8. CASE Close
  BY <1>8 DEF Close
<1>9. CASE Kill
  BY <1>9 DEF Kill
<1>10. CASE Restart
  BY <1>10 DEF Restart
<1>11. CASE UNCHANGED vars
  BY <1>11 DEF vars, remote, loop
<1> QED
  BY <1>1, <1>2, <1>3, <1>4, <1>5, <1>6, <1>7, <1>8, <1>9, <1>10, <1>11
     DEF Next, Poll

\* What no step does to the press of an action.
PressGoesOn(a) ==
    (Alive /\ Alive' /\ RowLow(a) /\ RowLow(a)' /\ driven[Column(a)]
       /\ a \in actions /\ a \in actions')
    => driven'[Column(a)]

\* Commands spare the columns of what they keep, and the release pass those of
\* the row that is low.
LEMMA PressStep ==
    ASSUME TypeOK, ReadInv, [Next]_vars, NEW a \in Actions
    PROVE  PressGoesOn(a)
<1>0. Column(a) \in Columns
  BY PinsOfActions
<1>1. CASE LineRises \/ LineFalls \/ PollStart \/ Kill \/ UNCHANGED vars
  BY <1>1 DEF LineRises, RowRises, LineFalls, RowFalls, PollStart, Kill, loop, vars, PressGoesOn
<1>2. ASSUME NEW w \in Wheels, SetWheels(w) PROVE PressGoesOn(a)
  <2> DEFINE new == ActionsForWheels(Oriented(w))
  <2>1. /\ actions' = new
        /\ driven'[Column(a)] =
             (driven[Column(a)] /\ Column(a) \notin ReleasedColumns(actions \ new, new))
    BY <1>0, <1>2 DEF SetWheels
  <2>2. a \in new => Column(a) \notin ReleasedColumns(actions \ new, new)
    BY DEF ReleasedColumns
  <2> HIDE DEF new
  <2> QED
    BY <2>1, <2>2 DEF PressGoesOn
<1>3. ASSUME NEW b \in Actions, PollRead(b) PROVE PressGoesOn(a)
  BY <1>3 DEF PollRead, PressGoesOn
<1>4. CASE PollRelease
  <2>1. /\ pc = "read" /\ todo = {}
        /\ driven'[Column(a)] =
             (driven[Column(a)] /\ ~(Column(a) \notin wanted /\ sink_active[Column(a)]))
    BY <1>0, <1>4 DEF PollRelease, AfterReleases
  <2>2. RowLow(a) /\ driven[Column(a)] /\ a \in actions => Column(a) \in wanted
    BY <2>1 DEF ReadInv
  <2> QED
    BY <2>1, <2>2 DEF PressGoesOn
<1>5. CASE PollAssert
  BY <1>0, <1>5 DEF PollAssert, PressGoesOn
<1>6. CASE Close
  BY <1>6 DEF Close, PressGoesOn, Alive
<1>7. CASE Restart
  BY <1>7 DEF Restart, PressGoesOn, Alive
<1> QED
  BY <1>1, <1>2, <1>3, <1>4, <1>5, <1>6, <1>7 DEF Next, Poll

\* With timely polls a press is never cut short: while its row stays low and its
\* action commanded the column stays low, whatever the other tread is told.
THEOREM PressesAreWhole ==
    ASSUME REALTIME
    PROVE  Spec => NoTruncatedPress
<1>1. Init => ReadInv
  BY DEF Init, RemoteInit, ReadInv
<1>2. TypeOK /\ ScanInv /\ ReadInv /\ [Next]_vars => ReadInv'
  BY ReadStep
<1>3. TypeOK /\ ReadInv /\ [Next]_vars =>
        [\A a \in Actions :
           (Alive /\ Alive' /\ RowLow(a) /\ RowLow(a)' /\ driven[Column(a)]
              /\ a \in actions /\ a \in actions')
           => driven'[Column(a)]]_vars
  BY PressStep DEF PressGoesOn
<1> QED
  BY <1>1, <1>2, <1>3, TypeCorrect, ScanInvariant, PTL DEF Spec, NoTruncatedPress

-----------------------------------------------------------------------------
(* The bench tools (MatrixBench).  Numbers first. *)

\* The order of the numbers, as a relation: WFMin asks for one.
Less == {ss \in Nat \X Nat : ss[1] < ss[2]}

LEMMA LessIsWellFounded == IsWellFoundedOn(Less, Nat)
<1>1. OpToRel(<, Nat) = Less
  BY DEF OpToRel, Less
<1> QED
  BY <1>1, NatLessThanWellFounded

\* The least of a set of numbers.
LEMMA MinIsLeast ==
    ASSUME NEW S \in SUBSET Nat, S # {}
    PROVE  Min(S) \in S /\ \A n \in S : Min(S) <= n
<1>1. PICK x \in S : \A y \in S : <<y, x>> \notin Less
  BY LessIsWellFounded, WFMin, Zenon
<1>2. ASSUME NEW y \in S PROVE x <= y
  <2>1. x \in Nat /\ y \in Nat /\ <<y, x>> \notin Less
    BY <1>1
  <2>2. ~(y < x)
    BY <2>1 DEF Less
  <2> QED
    BY <2>1, <2>2
<1> QED
  BY <1>2 DEF Min

\* Induction, over a set instead of a predicate.
LEMMA NatSetInduction ==
    ASSUME NEW S \in SUBSET Nat, 0 \in S, \A n \in S : n + 1 \in S
    PROVE  S = Nat
<1> DEFINE T == Nat \ S
<1>1. SUFFICES ASSUME T # {} PROVE FALSE
  OBVIOUS
<1>2. Min(T) \in T /\ \A n \in T : Min(T) <= n
  <2>1. T \in SUBSET Nat
    OBVIOUS
  <2> HIDE DEF T
  <2> QED
    BY <1>1, <2>1, MinIsLeast
<1>3. Min(T) \in Nat /\ Min(T) # 0
  BY <1>2
<1>4. Min(T) - 1 \in S
  BY <1>2, <1>3
<1>5. (Min(T) - 1) + 1 = Min(T)
  BY <1>3
<1> QED
  BY <1>2, <1>4, <1>5

-----------------------------------------------------------------------------
(* The groups of net_groups. *)

Members(w) == {w} \union nets[w]

\* GroupsUpTo is what its definition says.
LEMMA GroupsUnfold ==
    GroupsUpTo = [i \in 0..Len(Harness) |->
                    IF i = 0 THEN <<>>
                    ELSE Joined(GroupsUpTo[i - 1], Members(Harness[i]))]
<1> DEFINE Part(g, n) ==
             g = [i \in 0..n |-> IF i = 0 THEN <<>>
                                 ELSE Joined(g[i - 1], Members(Harness[i]))]
           S == {n \in Nat : \E g : Part(g, n)}
<1>1. 0 \in S
  <2>1. Part([i \in 0..0 |-> <<>>], 0)
    OBVIOUS
  <2> QED
    BY <2>1
<1>2. ASSUME NEW n \in S PROVE n + 1 \in S
  <2>1. PICK g : Part(g, n)
    OBVIOUS
  <2> DEFINE h == [i \in 0..(n + 1) |->
                     IF i = n + 1 THEN Joined(g[n], Members(Harness[n + 1])) ELSE g[i]]
  <2>2. Part(h, n + 1)
    <3>1. ASSUME NEW i \in 0..(n + 1)
          PROVE  h[i] = IF i = 0 THEN <<>> ELSE Joined(h[i - 1], Members(Harness[i]))
      <4>1. CASE i = n + 1
        BY <4>1
      <4>2. CASE i # n + 1
        <5>1. i \in 0..n /\ h[i] = g[i]
          BY <4>2
        <5>2. i # 0 => i - 1 \in 0..n /\ i - 1 \in 0..(n + 1) /\ h[i - 1] = g[i - 1]
          BY <5>1
        <5>3. g[i] = IF i = 0 THEN <<>> ELSE Joined(g[i - 1], Members(Harness[i]))
          BY <2>1, <5>1
        <5> QED
          BY <5>1, <5>2, <5>3
      <4> QED
        BY <4>1, <4>2
    <3> QED
      BY <3>1
  <2> HIDE DEF Part, h
  <2> QED
    BY <2>2
<1>3. S = Nat
  <2> HIDE DEF S
  <2>1. S \in SUBSET Nat
    BY DEF S
  <2> QED
    BY <1>1, <1>2, <2>1, NatSetInduction
<1>4. \E g : Part(g, Len(Harness))
  BY <1>3, HarnessAssumption
<1> QED
  BY <1>4 DEF GroupsUpTo, Members

SameNet(v, w) == NetOf[v] = NetOf[w]

\* What the wires that were pulled low have told, when no reading was fooled: no
\* follower of another net, and of two wires of one net one follows the other.
NetsTrue ==
    /\ \A w \in DOMAIN nets : nets[w] \subseteq {v \in Wires : SameNet(v, w)}
    /\ \A v, w \in DOMAIN nets : SameNet(v, w) /\ v # w => v \in nets[w] \/ w \in nets[v]

\* A list of groups that is right as far as the wires in P have been looked at.
Sorted(groups, P) ==
    /\ groups \in Seq(SUBSET Wires)
    /\ \A i \in 1..Len(groups) : \E p \in P : p \in groups[i]
    /\ \A i, j \in 1..Len(groups) : \A u \in groups[i], v \in groups[j] :
         SameNet(u, v) <=> i = j
    /\ \A p \in P : \E i \in 1..Len(groups) : Members(p) \subseteq groups[i]

\* One more wire: its net has one group, whether it opened it or joined it.
LEMMA JoinedKeeps ==
    ASSUME NetsTrue, DOMAIN nets = Wires, NEW P \in SUBSET Wires, NEW groups,
           Sorted(groups, P), NEW w \in Wires
    PROVE  Sorted(Joined(groups, Members(w)), P \union {w})
<1> DEFINE n == Len(groups)
           touching == {i \in DOMAIN groups : groups[i] \cap Members(w) # {}}
<1>1. /\ groups \in Seq(SUBSET Wires) /\ n \in Nat /\ DOMAIN groups = 1..n
      /\ \A i \in 1..n : groups[i] \in SUBSET Wires
  BY DEF Sorted
<1>2. /\ w \in Members(w) /\ Members(w) \in SUBSET Wires
      /\ \A v \in Members(w) : SameNet(v, w)
  BY DEF Members, NetsTrue, SameNet
<1>3. \A p \in P : p \in Members(p)
  BY DEF Members
\* A group of the net of w shares a wire with its members.
<1>4. ASSUME NEW i \in 1..n, NEW u \in groups[i], SameNet(u, w) PROVE i \in touching
  <2>1. PICK p \in P : p \in groups[i]
    BY DEF Sorted
  <2>2. SameNet(p, w)
    <3>1. SameNet(p, u)
      BY <2>1 DEF Sorted
    <3> QED
      BY <1>4, <3>1 DEF SameNet
  <2>3. p = w \/ p \in nets[w] \/ w \in nets[p]
    BY <2>2 DEF NetsTrue
  <2>4. CASE p = w \/ p \in nets[w]
    BY <1>1, <2>1, <2>4 DEF Members
  <2>5. CASE w \in nets[p]
    <3>1. PICK j \in 1..n : Members(p) \subseteq groups[j]
      BY DEF Sorted
    <3>2. p \in groups[j] /\ w \in groups[j]
      BY <2>5, <3>1 DEF Members
    <3>3. i = j
      BY <2>1, <3>2 DEF Sorted, SameNet
    <3> QED
      BY <1>1, <1>2, <3>2, <3>3
  <2> QED
    BY <2>3, <2>4, <2>5
<1>5. CASE touching = {}
  <2> DEFINE new == Append(groups, Members(w))
  <2>1. Joined(groups, Members(w)) = new
    BY <1>5 DEF Joined
  <2>2. /\ new \in Seq(SUBSET Wires) /\ Len(new) = n + 1 /\ new[n + 1] = Members(w)
        /\ \A i \in 1..n : new[i] = groups[i]
    BY <1>1, <1>2
  <2>3. \A i \in 1..Len(new) : \/ i \in 1..n /\ new[i] = groups[i]
                               \/ i = n + 1 /\ new[i] = Members(w)
    BY <1>1, <2>2
  <2> HIDE DEF new, n
  <2>4. \A i \in 1..Len(new) : \E p \in P \union {w} : p \in new[i]
    BY <1>2, <2>3 DEF Sorted, n
  <2>5. ASSUME NEW i \in 1..Len(new), NEW j \in 1..Len(new), NEW u \in new[i], NEW v \in new[j]
        PROVE  SameNet(u, v) <=> i = j
    <3>1. CASE i \in 1..n /\ j \in 1..n
      BY <2>2, <3>1 DEF Sorted, n
    <3>2. CASE i = n + 1 /\ j = n + 1
      BY <1>2, <2>2, <3>2 DEF SameNet
    <3>3. CASE i \in 1..n /\ j = n + 1
      <4>1. ~SameNet(u, w) /\ SameNet(v, w) /\ i # j
        BY <1>1, <1>2, <1>4, <1>5, <2>2, <3>3
      <4> QED
        BY <4>1 DEF SameNet
    <3>4. CASE i = n + 1 /\ j \in 1..n
      <4>1. SameNet(u, w) /\ ~SameNet(v, w) /\ i # j
        BY <1>1, <1>2, <1>4, <1>5, <2>2, <3>4
      <4> QED
        BY <4>1 DEF SameNet
    <3> QED
      BY <2>3, <3>1, <3>2, <3>3, <3>4
  <2>6. ASSUME NEW p \in P \union {w} PROVE \E i \in 1..Len(new) : Members(p) \subseteq new[i]
    <3>1. CASE p = w
      <4>1. n + 1 \in 1..Len(new)
        BY <1>1, <2>2
      <4> QED
        BY <2>2, <3>1, <4>1
    <3>2. CASE p \in P
      <4>1. PICK i \in 1..n : Members(p) \subseteq groups[i]
        BY <3>2 DEF Sorted, n
      <4>2. i \in 1..Len(new)
        BY <1>1, <2>2
      <4> QED
        BY <2>2, <4>1, <4>2
    <3> QED
      BY <3>1, <3>2
  <2> QED
    BY <2>1, <2>2, <2>4, <2>5, <2>6 DEF Sorted
<1>6. CASE touching # {}
  <2> DEFINE m == Min(touching)
             new == [groups EXCEPT ![m] = @ \union Members(w)]
  <2>1. Joined(groups, Members(w)) = new
    BY <1>6 DEF Joined
  <2>2. m \in touching
    <3>1. touching \in SUBSET Nat
      BY <1>1
    <3> HIDE DEF touching
    <3> QED
      BY <1>6, <3>1, MinIsLeast
  <2> HIDE DEF m
  <2>3. /\ m \in 1..n /\ new \in Seq(SUBSET Wires) /\ Len(new) = n
        /\ \A i \in 1..n : new[i] = IF i = m THEN groups[i] \union Members(w) ELSE groups[i]
    <3>1. m \in 1..n
      BY <1>1, <2>2
    <3>2. groups[m] \union Members(w) \in SUBSET Wires
      BY <1>1, <1>2, <3>1
    <3> HIDE DEF touching
    <3>3. /\ DOMAIN new = 1..n
          /\ \A i \in 1..n : new[i] = IF i = m THEN groups[i] \union Members(w) ELSE groups[i]
      BY <1>1, <3>1
    <3>4. new \in [1..n -> SUBSET Wires]
      <4>1. \A i \in 1..n : new[i] \in SUBSET Wires
        <5> HIDE DEF new
        <5> QED BY <1>1, <3>2, <3>3
      <4>2. new = [i \in 1..n |-> new[i]]
        BY <1>1, <3>3
      <4> HIDE DEF new
      <4> QED
        BY <4>1, <4>2
    <3> HIDE DEF new, n
    <3>5. new \in Seq(SUBSET Wires) /\ Len(new) = n
      BY <1>1, <3>4
    <3> QED
      BY <3>1, <3>3, <3>5
  <2>4. PICK x : x \in groups[m] /\ SameNet(x, w)
    BY <1>2, <2>2
  <2> HIDE DEF new, n, touching
  <2>5. \A i \in 1..n : \A u \in new[i] : u \in groups[i] \/ (i = m /\ SameNet(u, w))
    BY <1>2, <2>3
  <2>6. \A i \in 1..n : \A u \in new[i] :
          (SameNet(u, w) <=> i = m) /\ (u \in groups[i] \/ i = m)
    <3> TAKE i \in 1..n
    <3> TAKE u \in new[i]
    <3>1. CASE u \in groups[i]
      <4>1. SameNet(u, x) <=> i = m
        BY <2>3, <2>4, <3>1 DEF Sorted, n
      <4> QED
        BY <2>4, <3>1, <4>1 DEF SameNet
    <3>2. CASE u \notin groups[i]
      BY <2>5, <3>2
    <3> QED
      BY <3>1, <3>2
  <2>7. ASSUME NEW i \in 1..n, NEW j \in 1..n, NEW u \in new[i], NEW v \in new[j]
        PROVE  SameNet(u, v) <=> i = j
    <3>1. CASE i = m \/ j = m
      BY <2>6, <3>1 DEF SameNet
    <3>2. CASE i # m /\ j # m
      BY <2>6, <3>2 DEF Sorted, n
    <3> QED
      BY <3>1, <3>2
  <2>8. \A i \in 1..n : groups[i] \subseteq new[i]
    BY <2>3
  <2>9. \A i \in 1..n : \E p \in P \union {w} : p \in new[i]
    BY <2>8 DEF Sorted, n
  <2>10. ASSUME NEW p \in P \union {w} PROVE \E i \in 1..n : Members(p) \subseteq new[i]
    <3>1. CASE p = w
      BY <2>3, <3>1
    <3>2. CASE p \in P
      BY <2>8, <3>2 DEF Sorted, n
    <3> QED
      BY <3>1, <3>2
  <2> QED
    BY <2>1, <2>3, <2>7, <2>9, <2>10 DEF Sorted
<1> QED
  BY <1>5, <1>6

\* Looking at every wire of the harness puts each net into a group of its own.
LEMMA GroupsAreSorted ==
    ASSUME NetsTrue, DOMAIN nets = Wires
    PROVE  Sorted(Groups, Wires)
<1> DEFINE Seen(k) == {Harness[i] : i \in 1..k}
           S == {k \in Nat : k <= Len(Harness) => Sorted(GroupsUpTo[k], Seen(k))}
<1>0. /\ Len(Harness) \in Nat /\ Wires = Seen(Len(Harness))
      /\ \A i \in 1..Len(Harness) : Harness[i] \in Wires
  BY HarnessAssumption DEF Wires, Range
<1>1. 0 \in S
  <2>1. GroupsUpTo[0] = <<>> /\ Seen(0) = {}
    BY <1>0, GroupsUnfold
  <2>2. Sorted(<<>>, {})
    BY DEF Sorted
  <2> QED
    BY <2>1, <2>2
<1>2. ASSUME NEW k \in S PROVE k + 1 \in S
  <2>1. SUFFICES ASSUME k + 1 <= Len(Harness) PROVE Sorted(GroupsUpTo[k + 1], Seen(k + 1))
    OBVIOUS
  <2>2. k \in Nat /\ Sorted(GroupsUpTo[k], Seen(k))
    BY <1>0, <2>1
  <2>3. GroupsUpTo[k + 1] = Joined(GroupsUpTo[k], Members(Harness[k + 1]))
    BY <1>0, <2>1, <2>2, GroupsUnfold
  <2>4. /\ Seen(k + 1) = Seen(k) \union {Harness[k + 1]}
        /\ Harness[k + 1] \in Wires /\ Seen(k) \in SUBSET Wires
    BY <1>0, <2>1, <2>2
  <2> HIDE DEF Seen, S
  <2> QED
    BY <2>2, <2>3, <2>4, JoinedKeeps
<1>3. S = Nat
  <2> HIDE DEF S
  <2>1. S \in SUBSET Nat
    BY DEF S
  <2> QED
    BY <1>1, <1>2, <2>1, NatSetInduction
<1>4. Len(Harness) \in S
  <2> HIDE DEF S
  <2> QED BY <1>0, <1>3
<1> QED
  BY <1>0, <1>4 DEF Groups

\* matrix_pins_from_nets speaks of a net through one of its wires.
LEMMA CanonicalOfNet ==
    ASSUME NetsTrue, DOMAIN nets = Wires, NEW w \in Wires
    PROVE  /\ Canonical(w) \in Wires /\ SameNet(Canonical(w), w)
           /\ \A v \in Wires : SameNet(v, w) => Canonical(v) = Canonical(w)
<1>1. /\ Sorted(Groups, Wires) /\ DOMAIN Groups = 1..Len(Groups)
      /\ \A i \in 1..Len(Groups) : Groups[i] \in SUBSET Wires
  BY GroupsAreSorted DEF Sorted
<1>2. PICK j \in 1..Len(Groups) : w \in Groups[j]
  BY <1>1 DEF Sorted, Members
<1>3. ASSUME NEW v \in Wires, SameNet(v, w)
      PROVE  Canonical(v) = Min(Groups[j])
  <2>1. PICK i \in 1..Len(Groups) : v \in Groups[i]
    BY <1>1 DEF Sorted, Members
  <2>2. {k \in DOMAIN Groups : v \in Groups[k]} = {j}
    <3>1. i = j
      BY <1>1, <1>2, <1>3, <2>1 DEF Sorted
    <3>2. \A k \in 1..Len(Groups) : v \in Groups[k] => k = j
      BY <1>1, <2>1, <3>1 DEF Sorted, SameNet
    <3> QED
      BY <1>1, <2>1, <3>1, <3>2
  <2>3. {Min(Groups[k]) : k \in {l \in DOMAIN Groups : v \in Groups[l]}} = {Min(Groups[j])}
    BY <2>2
  <2>4. Min(Groups[j]) \in Nat
    <3>1. Groups[j] \in SUBSET Nat /\ Groups[j] # {}
      BY <1>1, <1>2, HarnessAssumption DEF Wires, Range
    <3> QED
      BY <3>1, MinIsLeast
  <2>5. Max({Min(Groups[j])}) = Min(Groups[j])
    BY <2>4 DEF Max
  <2> QED
    BY <2>3, <2>5 DEF Canonical
<1>4. Min(Groups[j]) \in Groups[j]
  <2>1. Groups[j] \in SUBSET Nat /\ Groups[j] # {}
    BY <1>1, <1>2, HarnessAssumption DEF Wires, Range
  <2> QED
    BY <2>1, MinIsLeast
<1>5. SameNet(w, w)
  BY DEF SameNet
<1>6. SameNet(Min(Groups[j]), w)
  BY <1>1, <1>2, <1>4 DEF Sorted
<1> QED
  BY <1>1, <1>3, <1>4, <1>5, <1>6

-----------------------------------------------------------------------------
(* The map that is deployed. *)

\* A button of the map is at its own intersection, row first.
AtIntersection(pair, b) ==
    /\ pair \in Wires \X Wires
    /\ {NetOf[pair[i]] : i \in 1..2} = {NetOf[CANDIDATE_PAIRS[b][i]] : i \in 1..2}
    /\ NetOf[pair[1]] \in ScanNets

MapTrue ==
    /\ \A b \in DOMAIN pins : AtIntersection(pins[b], b)
    /\ \A v, w \in OwnedWires : NetOf[v] = NetOf[w] => v = w

MapInv ==
    /\ fooled \in BOOLEAN
    /\ stage = "profile" => nets = <<>>
    /\ stage = "nets" => unread \in SUBSET Wires /\ DOMAIN nets = Wires \ unread
    /\ \A b \in DOMAIN resolved : b \in Buttons /\ AtIntersection(resolved[b], b)
    /\ fooled \/ NetsTrue
    /\ IF stage \in {"profile", "nets"} THEN pins = <<>> ELSE DOMAIN pins = Buttons
    /\ fooled \/ MapTrue

\* Nothing is known yet, and nothing deployed.
LEMMA MapInit == BenchInit => MapInv
<1> SUFFICES ASSUME BenchInit PROVE MapInv
  OBVIOUS
<1>1. /\ stage = "profile" /\ fooled = FALSE /\ nets = <<>> /\ pins = <<>> /\ resolved = <<>>
  BY DEF BenchInit
<1>2. DOMAIN nets = {} /\ DOMAIN pins = {} /\ DOMAIN resolved = {}
  BY <1>1
<1>3. OwnedWires = {}
  BY <1>2 DEF OwnedWires
<1> QED
  BY <1>1, <1>2, <1>3 DEF MapInv, MapTrue, NetsTrue

\* Only a scan line looks like a row.
LEMMA RowsAreScanned ==
    ASSUME NEW w, NEW p \in Profiles(w), Verdict(p) = "row"
    PROVE  NetOf[w] \in ScanNets
<1> SUFFICES ASSUME NetOf[w] \notin ScanNets PROVE FALSE
  OBVIOUS
<1>1. p.windows \in {0, 2}
  BY DEF Profiles
<1> QED
  BY <1>1, HarnessAssumption DEF Verdict

\* A pair of wires is ordered by the one that looked like a row.
LEMMA ResolveKeeps ==
    ASSUME MapInv, NEW b \in Buttons, Resolve(b)
    PROVE  MapInv'
<1> DEFINE wire == CANDIDATE_PAIRS[b]
<1>1. wire \in Wires \X Wires
  BY HarnessAssumption
<1>2. PICK first \in Profiles(wire[1]), second \in Profiles(wire[2]) :
        LET row1 == Verdict(first) = "row"
            row2 == Verdict(second) = "row"
        IN  resolved' = IF row1 = row2 THEN resolved
                        ELSE With(resolved, b, IF row1 THEN wire ELSE <<wire[2], wire[1]>>)
  BY DEF Resolve
<1>3. AtIntersection(wire, b) \/ Verdict(first) # "row"
  BY <1>1, RowsAreScanned DEF AtIntersection
<1>4. AtIntersection(<<wire[2], wire[1]>>, b) \/ Verdict(second) # "row"
  <2>1. {NetOf[<<wire[2], wire[1]>>[i]] : i \in 1..2} = {NetOf[wire[i]] : i \in 1..2}
    OBVIOUS
  <2> QED
    BY <1>1, <2>1, RowsAreScanned DEF AtIntersection
<1>5. \/ resolved' = resolved
      \/ \E pair : AtIntersection(pair, b) /\ resolved' = With(resolved, b, pair)
  <2> HIDE DEF wire
  <2> QED BY <1>2, <1>3, <1>4
<1>6. \A c \in DOMAIN resolved' : c \in Buttons /\ AtIntersection(resolved'[c], c)
  <2>1. CASE resolved' = resolved
    BY <2>1 DEF MapInv
  <2>2. CASE \E pair : AtIntersection(pair, b) /\ resolved' = With(resolved, b, pair)
    <3>1. PICK pair : AtIntersection(pair, b) /\ resolved' = With(resolved, b, pair)
      BY <2>2
    <3>2. /\ DOMAIN resolved' = DOMAIN resolved \union {b}
          /\ \A c \in DOMAIN resolved' : resolved'[c] = IF c = b THEN pair ELSE resolved[c]
      BY <3>1 DEF With
    <3> QED
      BY <3>1, <3>2 DEF MapInv
  <2> QED
    BY <1>5, <2>1, <2>2
<1>7. /\ UNCHANGED <<nets, fooled, pins>> /\ stage = "profile" /\ stage' \in {"profile", "nets"}
      /\ stage' = "nets" => unread' = Wires
  BY DEF Resolve
<1>8. nets = <<>> /\ DOMAIN nets = {}
  BY <1>7 DEF MapInv
<1> QED
  BY <1>6, <1>7, <1>8 DEF MapInv, MapTrue, NetsTrue, OwnedWires

\* What a reading that was not fooled says.
LEMMA FollowersAre ==
    ASSUME NEW w, NEW f \in Followers(w)
    PROVE  LET same == {v \in Wires \ {w} : NetOf[v] = NetOf[w]}
           IN  /\ f.fooled \in BOOLEAN
               /\ ~f.fooled => /\ f.of \subseteq same
                              /\ \A v \in same : v \in DOMAIN nets /\ w \notin nets[v]
                                                => v \in f.of
<1> DEFINE same == {v \in Wires \ {w} : NetOf[v] = NetOf[w]}
           Whole(g) == \A v \in same : v \in DOMAIN nets /\ w \notin nets[v] => v \in g
<1>1. \/ \E g \in SUBSET same : Whole(g) /\ f = [of |-> g, fooled |-> FALSE]
      \/ \E v \in Wires : f = [of |-> same \union {v}, fooled |-> TRUE]
  BY DEF Followers
<1> HIDE DEF same, Whole
<1>2. f.fooled \in BOOLEAN /\ (~f.fooled => f.of \subseteq same /\ Whole(f.of))
  <2>1. ASSUME NEW g \in SUBSET same, Whole(g), f = [of |-> g, fooled |-> FALSE]
        PROVE  f.fooled = FALSE /\ f.of = g
    BY <2>1
  <2>2. ASSUME NEW v, f = [of |-> same \union {v}, fooled |-> TRUE]
        PROVE  f.fooled = TRUE
    BY <2>2
  <2> QED
    BY <1>1, <2>1, <2>2
<1> QED
  BY <1>2 DEF same, Whole

\* One wire is pulled low and its followers noted.
LEMMA PullLowKeeps ==
    ASSUME MapInv, NEW w \in Wires, PullLow(w)
    PROVE  MapInv'
<1>1. PICK f \in Followers(w) : nets' = With(nets, w, f.of) /\ fooled' = (fooled \/ f.fooled)
  BY DEF PullLow
<1>2. /\ UNCHANGED <<stage, resolved, pins>> /\ stage = "nets"
      /\ w \in unread /\ unread' = unread \ {w}
  BY DEF PullLow
<1>3. /\ DOMAIN nets' = DOMAIN nets \union {w}
      /\ \A v \in DOMAIN nets' : nets'[v] = IF v = w THEN f.of ELSE nets[v]
  BY <1>1 DEF With
<1>4. f.fooled \in BOOLEAN
  BY FollowersAre
<1>5. ASSUME ~fooled' PROVE NetsTrue'
  <2> DEFINE same == {v \in Wires \ {w} : NetOf[v] = NetOf[w]}
  <2>1. ~fooled /\ ~f.fooled /\ NetsTrue
    BY <1>1, <1>4, <1>5 DEF MapInv
  <2>2. /\ f.of \subseteq same
        /\ \A v \in same : v \in DOMAIN nets /\ w \notin nets[v] => v \in f.of
    BY <2>1, FollowersAre
  <2>3. \A v \in DOMAIN nets' : nets'[v] \subseteq {u \in Wires : SameNet(u, v)}
    BY <1>3, <2>1, <2>2 DEF NetsTrue, SameNet
  <2>4. ASSUME NEW u \in DOMAIN nets', NEW v \in DOMAIN nets', SameNet(u, v), u # v
        PROVE  u \in nets'[v] \/ v \in nets'[u]
    <3>0. DOMAIN nets \subseteq Wires
      BY <1>2 DEF MapInv
    <3>1. CASE u # w /\ v # w
      BY <1>3, <2>1, <2>4, <3>1 DEF NetsTrue
    <3>2. CASE v = w
      BY <1>3, <2>2, <2>4, <3>0, <3>2 DEF SameNet
    <3>3. CASE u = w
      BY <1>3, <2>2, <2>4, <3>0, <3>3 DEF SameNet
    <3> QED
      BY <3>1, <3>2, <3>3
  <2> QED
    BY <2>3, <2>4 DEF NetsTrue
<1>6. unread' \in SUBSET Wires /\ DOMAIN nets' = Wires \ unread'
  BY <1>2, <1>3 DEF MapInv
<1>7. fooled' \in BOOLEAN /\ (fooled => fooled')
  BY <1>1, <1>4 DEF MapInv
<1> QED
  BY <1>2, <1>5, <1>6, <1>7 DEF MapInv, MapTrue, OwnedWires

\* The map that is rewritten to one wire per net stays at the intersections.
LEMMA DeployKeeps ==
    ASSUME MapInv, Deploy
    PROVE  MapInv'
<1>1. CASE DOMAIN resolved # Buttons
  <2>1. /\ stage' = "profile" /\ fooled' = FALSE /\ pins' = pins
        /\ resolved' = <<>> /\ nets' = <<>>
    BY <1>1 DEF Deploy
  <2>2. DOMAIN resolved' = {} /\ DOMAIN nets' = {}
    BY <2>1
  <2>3. pins' = <<>> /\ DOMAIN pins' = {}
    BY <2>1 DEF MapInv, Deploy
  <2> QED
    BY <2>1, <2>2, <2>3 DEF MapInv, MapTrue, NetsTrue, OwnedWires
<1>2. CASE DOMAIN resolved = Buttons
  <2>1. /\ stage' = "idle" /\ fooled' = fooled /\ unread = {} /\ stage = "nets"
        /\ resolved' = <<>> /\ nets' = <<>>
        /\ pins' = [b \in Buttons |-> <<Canonical(resolved[b][1]), Canonical(resolved[b][2])>>]
    BY <1>2 DEF Deploy
  <2>2. DOMAIN resolved' = {} /\ DOMAIN nets' = {} /\ DOMAIN nets = Wires
    BY <2>1 DEF MapInv
  <2>3. ASSUME ~fooled
        PROVE  /\ \A b \in Buttons : AtIntersection(pins'[b], b)
               /\ \A v, w \in OwnedWires' : NetOf[v] = NetOf[w] => v = w
    <3>1. NetsTrue
      BY <2>3 DEF MapInv
    <3>2. \A b \in Buttons : AtIntersection(resolved[b], b)
      BY <1>2 DEF MapInv
    <3>3. ASSUME NEW b \in Buttons PROVE AtIntersection(pins'[b], b)
      <4> DEFINE pair == resolved[b]
      <4>1. pair[1] \in Wires /\ pair[2] \in Wires
        BY <3>2 DEF AtIntersection
      <4>2. pins'[b] = <<Canonical(pair[1]), Canonical(pair[2])>>
        BY <2>1
      <4>3. /\ Canonical(pair[1]) \in Wires /\ NetOf[Canonical(pair[1])] = NetOf[pair[1]]
            /\ Canonical(pair[2]) \in Wires /\ NetOf[Canonical(pair[2])] = NetOf[pair[2]]
        BY <2>2, <3>1, <4>1, CanonicalOfNet DEF SameNet
      <4>4. {NetOf[pins'[b][i]] : i \in 1..2} = {NetOf[pair[i]] : i \in 1..2}
        BY <4>2, <4>3
      <4> QED
        BY <3>2, <4>2, <4>3, <4>4 DEF AtIntersection
    <3>4. ASSUME NEW v \in OwnedWires' PROVE \E x \in Wires : v = Canonical(x)
      <4>1. PICK b \in Buttons : v \in Range(pins'[b])
        BY <2>1 DEF OwnedWires
      <4>2. pins'[b] = <<Canonical(resolved[b][1]), Canonical(resolved[b][2])>>
        BY <2>1
      <4>3. v = Canonical(resolved[b][1]) \/ v = Canonical(resolved[b][2])
        BY <4>1, <4>2 DEF Range
      <4> QED
        BY <3>2, <4>3 DEF AtIntersection
    <3>5. ASSUME NEW v \in OwnedWires', NEW w \in OwnedWires', NetOf[v] = NetOf[w]
          PROVE  v = w
      <4>1. PICK x \in Wires : v = Canonical(x)
        BY <3>4
      <4>2. PICK y \in Wires : w = Canonical(y)
        BY <3>4
      <4>3. SameNet(x, y)
        BY <2>2, <3>1, <3>5, <4>1, <4>2, CanonicalOfNet DEF SameNet
      <4> QED
        BY <2>2, <3>1, <4>1, <4>2, <4>3, CanonicalOfNet
    <3> QED
      BY <3>3, <3>5
  <2>4. DOMAIN pins' = Buttons
    BY <2>1
  <2>5. fooled \in BOOLEAN
    BY DEF MapInv
  <2>6. NetsTrue'
    BY <2>2 DEF NetsTrue
  <2> HIDE DEF MapInv
  <2>7. fooled' \/ MapTrue'
    BY <2>1, <2>3, <2>4 DEF MapTrue
  <2> QED
    BY <2>1, <2>2, <2>4, <2>5, <2>6, <2>7 DEF MapInv
<1> QED
  BY <1>1, <1>2

\* What happens once the map is deployed.
Later ==
    \/ ScanRises \/ ScanFalls
    \/ StopService
    \/ Dispatch
    \/ DeadlinePasses
    \/ Tool
    \/ Interrupt \/ Finally \/ KillGating
    \/ StartService
    \/ \E map \in PIN_MAPS, presses \in Presses : Take(map, presses)
    \/ Press \/ Release \/ BreakOff \/ CloseButtons \/ KillPress

\* Nothing after identify-rows touches the map.
LEMMA LaterKeepsMap ==
    ASSUME Later
    PROVE  UNCHANGED identify /\ {stage, stage'} \cap {"profile", "nets"} = {}
<1>1. CASE ScanRises \/ ScanFalls
  BY <1>1 DEF ScanRises, ScanFalls
<1>2. CASE StopService \/ StartService
  BY <1>2 DEF StopService, StartService
<1>3. CASE Dispatch
  BY <1>3 DEF Dispatch, BeginActions, BeginPairs, BeginPulse, Begin, Reject
<1>4. CASE DeadlinePasses
  BY <1>4 DEF DeadlinePasses, Gating
<1>5. CASE Tool
  BY <1>5 DEF Tool, CheckDeadline, ReadRow, Apply
<1>6. CASE Interrupt \/ Finally \/ KillGating
  BY <1>6 DEF Interrupt, Finally, KillGating, Gating
<1>7. CASE \E map \in PIN_MAPS, presses \in Presses : Take(map, presses)
  BY <1>7 DEF Take
<1>8. CASE Press \/ Release \/ BreakOff \/ CloseButtons \/ KillPress
  BY <1>8 DEF Press, Release, BreakOff, CloseButtons, KillPress
<1> QED
  BY <1>1, <1>2, <1>3, <1>4, <1>5, <1>6, <1>7, <1>8 DEF Later

\* The inductive step.
LEMMA MapStep == MapInv /\ [BenchNext]_benchVars => MapInv'
<1> SUFFICES ASSUME MapInv, [BenchNext]_benchVars PROVE MapInv'
  OBVIOUS
<1>1. CASE Later
  <2>1. /\ UNCHANGED <<resolved, unread, nets, fooled, pins>>
        /\ {stage, stage'} \cap {"profile", "nets"} = {}
    BY <1>1, LaterKeepsMap DEF identify
  <2>2. /\ stage \notin {"profile", "nets"} /\ stage' \notin {"profile", "nets"}
        /\ stage' # "profile" /\ stage' # "nets"
    BY <2>1
  <2>3. (MapTrue => MapTrue') /\ (NetsTrue => NetsTrue')
    BY <2>1 DEF MapTrue, NetsTrue, OwnedWires
  <2> QED
    BY <2>1, <2>2, <2>3 DEF MapInv
<1>2. CASE UNCHANGED benchVars
  BY <1>2 DEF MapInv, MapTrue, NetsTrue, OwnedWires, identify, benchVars
<1> QED
  BY <1>1, <1>2, ResolveKeeps, PullLowKeeps, DeployKeeps DEF BenchNext, Later

\* identify-rows (identify_matrix_rows, detect_shared_nets, net_groups and
\* matrix_pins_from_nets) deploys a true map for every harness, however often a net
\* reaches the Pi: each button is at its own intersection, row first, and no two
\* wires of the map are of one net, unless a reading was fooled.
THEOREM MapIsTrue == BenchSpec => []ResolvedIsTrue
<1>1. MapInv => ResolvedIsTrue
  BY DEF MapInv, MapTrue, ResolvedIsTrue, AtIntersection
<1> QED
  BY <1>1, MapInit, MapStep, PTL DEF BenchSpec

-----------------------------------------------------------------------------
(* The loop that gates pairs. *)

NetIn(i) == NetOf[pairs[i][1]]

\* Scan lines in, direction lines out.
RowsFirst(ps) ==
    \A i \in 1..Len(ps) : NetOf[ps[i][1]] \in ScanNets /\ NetOf[ps[i][2]] \notin ScanNets

LoopShape ==
    /\ pairs \in Seq(Range(pairs)) /\ Len(pairs) > 0 /\ at \in 1..Len(pairs)
    /\ sink \in [1..Len(pairs) -> BOOLEAN] /\ saw \in BOOLEAN
    /\ fresh \in {"none", "started", "done"}
    /\ stage = "head" => at = 1 /\ fresh # "started"

\* While a line is scanned and the gap before it was not overslept, only pairs of
\* that line believe they sink, and a level that has been read is not older.
Scanned ==
    lineLow /\ ~overslept =>
      /\ \A i \in 1..Len(pairs) : sink[i] => NetIn(i) = Frame[slot]
      /\ stage = "apply" => IF saw THEN NetIn(at) = Frame[slot] ELSE ~sink[at]

\* Between two lines a whole round lets every pair go.
Between ==
    ~lineLow =>
      /\ stage = "apply" /\ fresh # "none" => ~saw
      /\ fresh = "started" => \A i \in 1..Len(pairs) : i < at => ~sink[i]
      /\ fresh = "done" => \A i \in 1..Len(pairs) : ~sink[i]

\* The Pi pulls at no scan line.
Apart(wires) == \A w \in wires : NetOf[w] \notin ScanNets

GateInv ==
    /\ Gating => LoopShape
    /\ Gating /\ ~fooled => RowsFirst(pairs) /\ Scanned /\ Between
    /\ ~fooled => Apart(low)
    /\ stage \in {"profile", "nets"} => low = {}
    /\ stage \in {"press", "hold"} =>
         queue \in Seq(Range(queue)) /\ queue # <<>> /\ \A wires \in Range(queue) : Apart(wires)

\* No probe runs yet.
LEMMA GateInit == BenchInit => GateInv
  BY DEF BenchInit, GateInv, Gating, Apart

\* A scan line is low in the eyes of the loop only while it is scanned.
LEMMA RowIsScanned ==
    ASSUME GateInv, ~fooled, NEW n \in ScanNets
    PROVE  NetLow(n) <=> lineLow /\ Frame[slot] = n
  BY DEF GateInv, Apart, NetLow

\* A step that ends outside the loop.
LEMMA OutsideKeeps ==
    ASSUME GateInv, stage' \notin {"head", "read", "apply", "profile", "nets", "press", "hold"},
           fooled' = fooled, low' \subseteq low
    PROVE  GateInv'
  BY DEF GateInv, Gating, Apart

\* No probe runs while the harness is identified.
LEMMA IdentifyKeeps ==
    ASSUME GateInv,
           \/ \E b \in Buttons : Resolve(b)
           \/ \E w \in Wires : PullLow(w)
           \/ Deploy
    PROVE  GateInv'
<1>1. /\ stage \in {"profile", "nets"} /\ stage' \in {"profile", "nets", "idle"}
      /\ low' = low
  BY DEF Resolve, PullLow, Deploy
<1>2. low' = {}
  BY <1>1 DEF GateInv
<1> QED
  BY <1>1, <1>2 DEF GateInv, Gating, Apart

\* A probe begins with no pair sinking.
LEMMA BeginKeeps ==
    ASSUME GateInv, NEW ps, NEW wires, Begin(ps, wires), ps \in Seq(Range(ps)), ps # <<>>,
           ~fooled => RowsFirst(ps)
    PROVE  GateInv'
<1>1. /\ stage' = "head" /\ pairs' = ps /\ at' = 1 /\ saw' = FALSE /\ fresh' = "none"
      /\ sink' = [i \in DOMAIN ps |-> FALSE] /\ low' \subseteq low /\ fooled' = fooled
  BY DEF Begin, identify
<1>2. Len(ps) \in Nat /\ Len(ps) > 0 /\ DOMAIN ps = 1..Len(ps)
  OBVIOUS
<1>3. LoopShape'
  <2>1. pairs' \in Seq(Range(pairs')) /\ Len(pairs') > 0 /\ at' \in 1..Len(pairs')
    BY <1>1, <1>2
  <2>2. sink' \in [1..Len(pairs') -> BOOLEAN]
    BY <1>1, <1>2
  <2> QED
    BY <1>1, <2>1, <2>2 DEF LoopShape
<1>4. Scanned' /\ Between'
  BY <1>1, <1>2 DEF Scanned, Between
<1>5. ~fooled' => RowsFirst(pairs')
  BY <1>1
<1> QED
  BY <1>1, <1>3, <1>4, <1>5 DEF GateInv, Apart

\* The pairs of a probe, of the map or named, have their scan line first.
LEMMA DispatchKeeps ==
    ASSUME MapInv, GateInv, Dispatch
    PROVE  GateInv'
<1>1. ASSUME NEW a \in REQUESTS, BeginActions(a) PROVE GateInv'
  <2> DEFINE ps == [i \in DOMAIN a |-> pins[a[i]]]
  <2>1. /\ a \in Seq(Buttons) /\ a # <<>> /\ stage = "stopped" /\ Begin(ps, OwnedWires)
        /\ Len(a) \in Nat /\ Len(a) > 0 /\ DOMAIN a = 1..Len(a)
    BY <1>1, OperatorAssumption DEF BeginActions, Begin
  <2>2. ps \in Seq(Range(ps)) /\ ps # <<>> /\ Len(ps) = Len(a)
    <3>1. ps \in [1..Len(a) -> Range(ps)]
      BY <2>1 DEF Range
    <3> HIDE DEF ps
    <3> QED
      BY <2>1, <3>1
  <2>3. ASSUME ~fooled, NEW i \in 1..Len(ps)
        PROVE  NetOf[ps[i][1]] \in ScanNets /\ NetOf[ps[i][2]] \notin ScanNets
    <3> DEFINE b == a[i]
               wire == CANDIDATE_PAIRS[b]
    <3>1. b \in Buttons /\ ps[i] = pins[b]
      BY <2>1, <2>2
    <3>2. AtIntersection(pins[b], b)
      BY <2>1, <2>3, <3>1 DEF MapInv, MapTrue
    <3>3. NetOf[wire[1]] \in ScanNets <=> NetOf[wire[2]] \notin ScanNets
      BY <3>1, HarnessAssumption
    <3> HIDE DEF b, wire, ps
    <3>4. {NetOf[pins[b][1]], NetOf[pins[b][2]]} = {NetOf[wire[1]], NetOf[wire[2]]}
      <4>1. \A pair : {NetOf[pair[k]] : k \in 1..2} = {NetOf[pair[1]], NetOf[pair[2]]}
        OBVIOUS
      <4> QED
        BY <3>2, <4>1 DEF AtIntersection, wire
    <3> QED
      BY <3>1, <3>2, <3>3, <3>4 DEF AtIntersection
  <2> HIDE DEF ps
  <2> QED
    BY <2>1, <2>2, <2>3, BeginKeeps DEF RowsFirst
<1>2. ASSUME NEW ps \in INTERSECTIONS, BeginPairs(ps) PROVE GateInv'
  <2>1. ps \in Seq(Nat \X Nat) /\ ps # <<>> /\ Begin(ps, WiresOf(ps)) /\ DOMAIN ps = 1..Len(ps)
    BY <1>2, OperatorAssumption DEF BeginPairs, ValidPairs
  <2>2. ps \in Seq(Range(ps))
    BY <2>1 DEF Range
  <2>3. RowsFirst(ps)
    BY <2>1, OperatorAssumption DEF RowsFirst
  <2> QED
    BY <2>1, <2>2, <2>3, BeginKeeps
<1>3. ASSUME NEW ps \in INTERSECTIONS, ps # <<>>, BeginPulse(ps[1]) PROVE GateInv'
  <2> DEFINE one == <<ps[1]>>
  <2>1. ps \in Seq(Nat \X Nat) /\ 1 \in DOMAIN ps /\ Begin(one, Range(ps[1]))
    BY <1>3, OperatorAssumption DEF BeginPulse
  <2>2. one \in Seq(Range(one)) /\ one # <<>> /\ Len(one) = 1 /\ one[1] = ps[1]
    BY DEF Range
  <2>3. RowsFirst(one)
    BY <2>1, <2>2, OperatorAssumption DEF RowsFirst
  <2> HIDE DEF one
  <2> QED
    BY <2>1, <2>2, <2>3, BeginKeeps
<1>4. CASE Reject
  BY <1>4, OutsideKeeps DEF Reject, identify
<1> QED
  BY <1>1, <1>2, <1>3, <1>4 DEF Dispatch

\* Steps of the remote.
LEMMA ScanKeeps ==
    ASSUME GateInv, ScanRises \/ ScanFalls
    PROVE  GateInv'
<1>1. /\ UNCHANGED <<stage, fooled, pairs, at, saw, sink, queue, low>> /\ fresh' = "none"
      /\ stage \notin {"profile", "nets"}
      /\ lineLow' = ~lineLow
      /\ Gating /\ ~lineLow /\ ~overslept' => fresh = "done"
  BY DEF ScanRises, ScanFalls, RowRises, RowFalls, identify, gate
<1>2. Gating' = Gating /\ (Gating => LoopShape')
  BY <1>1 DEF GateInv, Gating, LoopShape
<1>3. ASSUME Gating, ~fooled PROVE RowsFirst(pairs') /\ Scanned' /\ Between'
  <2>1. RowsFirst(pairs) /\ Scanned /\ Between
    BY <1>1, <1>3 DEF GateInv
  <2>2. CASE lineLow
    BY <1>1, <1>3, <2>1, <2>2 DEF Scanned, Between
  <2>3. CASE ~lineLow
    <3>1. ~overslept' =>
            /\ \A i \in 1..Len(pairs) : ~sink[i]
            /\ stage = "apply" => ~saw
      BY <1>1, <1>3, <2>1, <2>3 DEF Between
    <3>2. at \in 1..Len(pairs)
      BY <1>3 DEF GateInv, LoopShape
    <3>3. lineLow'
      BY <1>1, <2>3
    <3> QED
      BY <1>1, <2>1, <3>1, <3>2, <3>3 DEF Scanned, Between
  <2> QED
    BY <2>2, <2>3
<1> QED
  BY <1>1, <1>2, <1>3 DEF GateInv, Gating, Apart

\* A round begins at the first pair.
LEMMA HeadKeeps ==
    ASSUME GateInv, CheckDeadline
    PROVE  GateInv'
<1>1. /\ UNCHANGED <<fooled, pairs, at, saw, sink, queue, low, slot, lineLow, overslept>>
      /\ stage = "head" /\ stage' = IF late THEN "finally" ELSE "read"
      /\ fresh' = IF fresh = "none" /\ ~late THEN "started" ELSE fresh
  BY DEF CheckDeadline, identify, gate, remote
<1>2. CASE late
  BY <1>1, <1>2, OutsideKeeps
<1>3. CASE ~late
  <2>1. LoopShape /\ at = 1 /\ fresh # "started" /\ Gating
    BY <1>1 DEF GateInv, Gating, LoopShape
  <2>2. LoopShape'
    BY <1>1, <1>3, <2>1 DEF LoopShape
  <2>3. ASSUME ~fooled PROVE RowsFirst(pairs') /\ Scanned' /\ Between'
    <3>1. RowsFirst(pairs) /\ Scanned /\ Between
      BY <2>1, <2>3 DEF GateInv
    <3>2. \A i \in 1..Len(pairs) : ~(i < at)
      BY <2>1 DEF LoopShape
    <3> QED
      BY <1>1, <1>3, <3>1, <3>2 DEF Scanned, Between, NetIn
  <2> QED
    BY <1>1, <1>3, <2>2, <2>3 DEF GateInv, Apart
<1> QED
  BY <1>2, <1>3

\* The Pi pulls at no scan line, so a row that reads low is the scanned one.
LEMMA ReadKeeps ==
    ASSUME GateInv, ReadRow
    PROVE  GateInv'
<1>1. /\ UNCHANGED <<fooled, pairs, at, sink, queue, low, slot, lineLow, fresh, overslept>>
      /\ stage = "read" /\ stage' = "apply" /\ saw' = NetLow(NetIn(at))
  BY DEF ReadRow, identify, scan, remote, NetIn
<1>2. LoopShape /\ Gating
  BY <1>1 DEF GateInv, Gating
<1>3. saw' \in BOOLEAN
  BY <1>1 DEF NetLow
<1>4. LoopShape'
  BY <1>1, <1>2, <1>3 DEF LoopShape
<1>5. ASSUME ~fooled PROVE RowsFirst(pairs') /\ Scanned' /\ Between'
  <2>1. RowsFirst(pairs) /\ Scanned /\ Between
    BY <1>2, <1>5 DEF GateInv
  <2>2. at \in 1..Len(pairs) /\ NetIn(at) \in ScanNets
    BY <1>2, <2>1 DEF LoopShape, RowsFirst, NetIn
  <2>3. saw' <=> lineLow /\ Frame[slot] = NetIn(at)
    BY <1>1, <1>5, <2>2, RowIsScanned
  <2>4. NetIn(at)' = NetIn(at) /\ \A i \in 1..Len(pairs) : NetIn(i)' = NetIn(i)
    BY <1>1 DEF NetIn
  <2>5. Scanned'
    BY <1>1, <2>1, <2>2, <2>3, <2>4 DEF Scanned
  <2>6. Between'
    BY <1>1, <2>1, <2>3 DEF Between
  <2> QED
    BY <1>1, <2>1, <2>5, <2>6
<1> QED
  BY <1>1, <1>4, <1>5 DEF GateInv, Apart

\* A pair takes over the level it read.
LEMMA ApplyKeeps ==
    ASSUME GateInv, Apply
    PROVE  GateInv'
<1>1. /\ UNCHANGED <<fooled, pairs, saw, queue, slot, lineLow, overslept>> /\ stage = "apply"
      /\ sink' = [sink EXCEPT ![at] = saw]
      /\ at' = (at % Len(pairs)) + 1
      /\ stage' = IF at = Len(pairs) THEN "head" ELSE "read"
      /\ fresh' = IF at = Len(pairs) /\ fresh = "started" THEN "done" ELSE fresh
      /\ low' \subseteq low \union {pairs[at][2]}
  BY DEF Apply, identify, remote
<1>2. /\ LoopShape /\ Gating /\ at \in 1..Len(pairs) /\ Len(pairs) \in Nat /\ Len(pairs) > 0
      /\ saw \in BOOLEAN
  BY <1>1 DEF GateInv, Gating, LoopShape
<1>3. /\ at = Len(pairs) => at' = 1
      /\ at # Len(pairs) => at' = at + 1
      /\ at' \in 1..Len(pairs)
  BY <1>1, <1>2
<1>4. /\ sink' \in [1..Len(pairs) -> BOOLEAN]
      /\ \A i \in 1..Len(pairs) : sink'[i] = IF i = at THEN saw ELSE sink[i]
  BY <1>1, <1>2 DEF LoopShape
<1>5. LoopShape'
  BY <1>1, <1>2, <1>3, <1>4 DEF LoopShape
<1>6. ASSUME ~fooled PROVE RowsFirst(pairs') /\ Scanned' /\ Between' /\ Apart(low')
  <2>1. RowsFirst(pairs) /\ Scanned /\ Between /\ Apart(low)
    BY <1>2, <1>6 DEF GateInv
  <2>2. \A i \in 1..Len(pairs) : NetIn(i)' = NetIn(i)
    BY <1>1 DEF NetIn
  <2>3. Scanned'
    BY <1>1, <1>2, <1>4, <2>1, <2>2 DEF Scanned
  <2>4. Between'
    <3>1. SUFFICES ASSUME ~lineLow
                   PROVE  /\ fresh' = "started" => \A i \in 1..Len(pairs) : i < at' => ~sink'[i]
                          /\ fresh' = "done" => \A i \in 1..Len(pairs) : ~sink'[i]
      BY <1>1 DEF Between
    <3>2. fresh # "none" => ~saw
      BY <1>1, <2>1, <3>1 DEF Between
    <3>3. ASSUME fresh' = "started", NEW i \in 1..Len(pairs), i < at' PROVE ~sink'[i]
      <4>1. fresh = "started" /\ at # Len(pairs) /\ at' = at + 1
        BY <1>1, <1>3, <3>3
      <4>2. i = at \/ i < at
        BY <1>2, <3>3, <4>1
      <4> QED
        BY <1>4, <2>1, <3>1, <3>2, <4>1, <4>2 DEF Between
    <3>4. ASSUME fresh' = "done", NEW i \in 1..Len(pairs) PROVE ~sink'[i]
      <4>1. CASE fresh = "done"
        BY <1>4, <2>1, <3>1, <3>2, <4>1 DEF Between
      <4>2. CASE fresh # "done"
        <5>1. fresh = "started" /\ at = Len(pairs)
          BY <1>1, <3>4, <4>2
        <5>2. i = at \/ i < at
          BY <1>2, <5>1
        <5> QED
          BY <1>4, <2>1, <3>1, <3>2, <5>1, <5>2 DEF Between
      <4> QED
        BY <4>1, <4>2
    <3> QED
      BY <3>3, <3>4
  <2>5. NetOf[pairs[at][2]] \notin ScanNets
    BY <1>2, <2>1 DEF RowsFirst
  <2>6. Apart(low')
    BY <1>1, <2>1, <2>5 DEF Apart
  <2> QED
    BY <1>1, <2>1, <2>3, <2>4, <2>6
<1> QED
  BY <1>1, <1>5, <1>6 DEF GateInv

\* The tools that ground buttons.
LEMMA ButtonsKeep ==
    ASSUME GateInv,
           \/ \E map \in PIN_MAPS, presses \in Presses : Take(map, presses)
           \/ Press \/ Release \/ BreakOff \/ CloseButtons \/ KillPress
    PROVE  GateInv'
<1>1. ASSUME NEW map \in PIN_MAPS, NEW presses \in Presses, Take(map, presses)
      PROVE  GateInv'
  <2>1. /\ stage' = "press" /\ low' \subseteq low /\ fooled' = fooled
        /\ queue' = [i \in DOMAIN presses |-> {map[b] : b \in presses[i]}]
    BY <1>1 DEF Take, identify
  <2>2. /\ presses \in Seq(SUBSET Buttons) /\ presses # <<>>
    <3>1. Buttons = {"left-forward", "left-reverse", "right-forward", "right-reverse"}
      <4>1. DOMAIN BUTTON_NAMES = 1..4
        BY DEF BUTTON_NAMES
      <4> QED
        BY <4>1, HarnessAssumption DEF BUTTON_NAMES, Range
    <3>2. \A S \in SUBSET Buttons : <<S>> \in Seq(SUBSET Buttons) /\ <<S>> # <<>>
      OBVIOUS
    <3>3. \A motion \in MOTIONS : motion \in SUBSET Buttons
      BY <3>1 DEF MOTIONS
    <3>4. /\ [i \in DOMAIN BUTTON_NAMES |-> {BUTTON_NAMES[i]}] \in Seq(SUBSET Buttons)
          /\ [i \in DOMAIN BUTTON_NAMES |-> {BUTTON_NAMES[i]}] # <<>>
      <4> DEFINE names == [i \in DOMAIN BUTTON_NAMES |-> {BUTTON_NAMES[i]}]
      <4>1. DOMAIN BUTTON_NAMES = 1..4 /\ \A i \in 1..4 : BUTTON_NAMES[i] \in Buttons
        BY <3>1 DEF BUTTON_NAMES
      <4>2. names \in [1..4 -> SUBSET Buttons]
        BY <4>1
      <4>3. \A n \in Nat : [1..n -> SUBSET Buttons] \subseteq Seq(SUBSET Buttons)
        OBVIOUS
      <4>4. names \in Seq(SUBSET Buttons)
        <5> HIDE DEF names
        <5> QED
          BY <4>2, <4>3
      <4>5. names # <<>>
        <5>1. 1 \in DOMAIN names
          BY <4>1
        <5> HIDE DEF names
        <5> QED
          BY <5>1
      <4> QED
        BY <4>4, <4>5
    <3> QED
      BY <3>2, <3>3, <3>4 DEF Presses
  <2>3. /\ Len(presses) \in Nat /\ Len(presses) > 0 /\ DOMAIN presses = 1..Len(presses)
        /\ \A i \in 1..Len(presses) : presses[i] \in SUBSET Buttons
    BY <2>2
  <2>4. queue' \in Seq(Range(queue')) /\ queue' # <<>>
    <3>1. queue' \in [1..Len(presses) -> Range(queue')]
      BY <2>1, <2>3 DEF Range
    <3>2. queue' \in Seq(Range(queue')) /\ Len(queue') = Len(presses)
      BY <2>3, <3>1
    <3> QED
      BY <2>3, <3>2
  <2>5. ASSUME NEW wires \in Range(queue') PROVE Apart(wires)
    <3>1. PICK i \in 1..Len(presses) : wires = {map[b] : b \in presses[i]}
      BY <2>1, <2>3, <2>5 DEF Range
    <3> QED
      BY <2>3, <3>1, OperatorAssumption DEF Apart
  <2>6. ~fooled' => Apart(low')
    BY <2>1 DEF GateInv, Apart
  <2> QED
    BY <2>1, <2>4, <2>5, <2>6 DEF GateInv, Gating
<1>2. CASE Press
  <2>1. /\ stage = "press" /\ stage' = "hold" /\ queue' = queue /\ fooled' = fooled
        /\ low' \subseteq low \union Head(queue)
    BY <1>2 DEF Press, identify, gate
  <2>2. /\ queue \in Seq(Range(queue)) /\ queue # <<>>
        /\ \A wires \in Range(queue) : Apart(wires)
    BY <2>1 DEF GateInv
  <2>3. Apart(Head(queue))
    BY <2>2
  <2>4. ~fooled' => Apart(low')
    BY <2>1, <2>3 DEF GateInv, Apart
  <2> QED
    BY <2>1, <2>2, <2>4 DEF GateInv, Gating
<1>3. CASE Release
  <2>1. /\ stage = "hold" /\ queue' = Tail(queue) /\ fooled' = fooled /\ low' \subseteq low
        /\ stage' = IF Len(queue) > 1 THEN "press" ELSE "close"
    BY <1>3 DEF Release, identify
  <2>2. /\ queue \in Seq(Range(queue)) /\ queue # <<>>
        /\ \A wires \in Range(queue) : Apart(wires)
    BY <2>1 DEF GateInv
  <2>3. CASE Len(queue) > 1
    <3>1. /\ Len(queue') = Len(queue) - 1 /\ DOMAIN queue' = 1..(Len(queue) - 1)
          /\ Len(queue) \in Nat /\ DOMAIN queue = 1..Len(queue)
          /\ \A i \in 1..(Len(queue) - 1) : queue'[i] = queue[i + 1]
      BY <2>1, <2>2, <2>3
    <3>2. queue' \in Seq(Range(queue)) /\ queue' # <<>>
      <4>1. queue' \in Seq(Range(queue))
        BY <2>1, <2>2
      <4>2. Len(queue') > 0
        BY <2>3, <3>1
      <4> QED
        BY <4>1, <4>2
    <3>3. queue' \in Seq(Range(queue'))
      BY <3>2 DEF Range
    <3>4. Range(queue') \subseteq Range(queue)
      BY <3>1 DEF Range
    <3>5. ~fooled' => Apart(low')
      BY <2>1 DEF GateInv, Apart
    <3> QED
      BY <2>1, <2>2, <2>3, <3>2, <3>3, <3>4, <3>5 DEF GateInv, Gating
  <2>4. CASE ~(Len(queue) > 1)
    BY <2>1, <2>4, OutsideKeeps
  <2> QED
    BY <2>3, <2>4
<1>4. CASE BreakOff \/ CloseButtons \/ KillPress
  BY <1>4, OutsideKeeps DEF BreakOff, CloseButtons, Closed, KillPress, identify
<1> QED
  BY <1>1, <1>2, <1>3, <1>4

\* The inductive step.
LEMMA GateStep == MapInv /\ GateInv /\ [BenchNext]_benchVars => GateInv'
<1> SUFFICES ASSUME MapInv, GateInv, [BenchNext]_benchVars PROVE GateInv'
  OBVIOUS
<1>1. CASE StopService \/ Interrupt \/ Finally \/ KillGating \/ StartService
  BY <1>1, OutsideKeeps
  DEF StopService, Interrupt, Finally, KillGating, StartService, StartedPins, identify
<1>2. CASE DeadlinePasses \/ UNCHANGED benchVars
  <2>1. UNCHANGED <<stage, fooled, pairs, at, saw, sink, queue, low, slot, lineLow, fresh,
                   overslept>>
    BY <1>2 DEF DeadlinePasses, benchVars, identify, gate, scan, remote
  <2> QED
    BY <2>1 DEF GateInv, Gating, LoopShape, RowsFirst, Scanned, Between, NetIn, Apart
<1>3. CASE Tool
  BY <1>3, HeadKeeps, ReadKeeps, ApplyKeeps DEF Tool
<1> QED
  BY <1>1, <1>2, <1>3, IdentifyKeeps, ScanKeeps, DispatchKeeps, ButtonsKeep DEF BenchNext

\* Both invariants together: the probe's pairs are those of a true map.
LEMMA BenchInvariant == BenchSpec => [](MapInv /\ GateInv)
  BY MapInit, MapStep, GateInit, GateStep, PTL DEF BenchSpec

\* An action that begins and ends in the loop cuts no press short, unless the gap
\* before the press was overslept.
PressKept ==
    \A i \in DOMAIN pairs :
      LET row == NetOf[pairs[i][1]]
          pressed == NetLow(row) /\ sink[i] /\ pairs[i][2] \in low
      IN  pressed /\ ~fooled /\ ~overslept /\ Gating /\ Gating' /\ NetLow(row)'
            => pairs'[i][2] \in low'

\* Only Apply moves a column inside the loop, and it lets go of none that is pressed.
LEMMA PairPressStep == GateInv /\ [BenchNext]_benchVars => PressKept
<1> SUFFICES ASSUME GateInv, [BenchNext]_benchVars, Gating, Gating', ~fooled, ~overslept,
                    NEW i \in DOMAIN pairs, NetLow(NetOf[pairs[i][1]]), sink[i],
                    pairs[i][2] \in low
             PROVE  pairs'[i][2] \in low'
  BY DEF PressKept
<1>1. LoopShape /\ RowsFirst(pairs) /\ Scanned /\ i \in 1..Len(pairs)
  BY DEF GateInv, LoopShape
<1>2. lineLow
  BY <1>1, RowIsScanned DEF RowsFirst
<1>3. CASE Apply
  <2>1. /\ pairs' = pairs /\ stage = "apply"
        /\ low' = IF Unchanged THEN low
                  ELSE IF saw THEN low \union {pairs[at][2]} ELSE low \ {pairs[at][2]}
    BY <1>3 DEF Apply
  <2>2. ~saw => ~sink[at]
    BY <1>1, <1>2, <2>1 DEF Scanned
  <2>3. saw \in BOOLEAN /\ sink[at] \in BOOLEAN
    BY <1>1 DEF LoopShape
  <2>4. Unchanged \/ saw
    BY <2>2, <2>3 DEF Unchanged
  <2> QED
    BY <2>1, <2>4
<1>4. CASE ~Apply
  <2>1. pairs' = pairs /\ low' = low
    BY <1>4 DEF BenchNext, Gating, Resolve, PullLow, Deploy, ScanRises, ScanFalls, StopService,
                Dispatch, BeginActions, BeginPairs, BeginPulse, Begin, Reject, DeadlinePasses,
                Tool, CheckDeadline, ReadRow, Interrupt, Finally, KillGating, StartService,
                Take, Press, Release, BreakOff, CloseButtons, KillPress, benchVars, gate
  <2> QED
    BY <2>1
<1> QED
  BY <1>3, <1>4

\* gate_intersections and gated_matrix_actions, for every list of pairs, shared
\* columns included: after a gap in which the loop has been round once, the flag of
\* one pair never lets go of the column another pair presses while the line of that
\* pair is still low (apply_matrix_row_level returns early for a pair that does not
\* sink).  How often the loop oversleeps is not assumed.
THEOREM PairsPressWhole == BenchSpec => PressIsWhole
<1>1. GateInv /\ [BenchNext]_benchVars => [PressKept]_benchVars
  BY PairPressStep
<1> QED
  BY <1>1, BenchInvariant, PTL DEF BenchSpec, PressIsWhole, PressKept
=============================================================================
