---------------------------- MODULE MotorService ----------------------------
(***************************************************************************)
(* run_server of scripts/pi_motor_service.py: the watchdog, the sequence   *)
(* check and the replies of the UDP motor service, over an abstract motor  *)
(* runtime (module MatrixGate is the runtime itself).                      *)
(*                                                                         *)
(* A packet is [src, session, sequence, cmd].  cmd is Stop, one of the     *)
(* binary Drives, or Fractional, which parse_command or                    *)
(* require_binary_wheels refuses.  Time is counted in ticks, and `age' is  *)
(* now_ns - last_command_ns, kept from growing past WATCHDOG + 1.          *)
(***************************************************************************)
EXTENDS Integers

CONSTANTS
    Addresses,      \* the (host, port) pairs packets come from
    Drives, Stop, Fractional,
    WATCHDOG        \* the --watchdog option in ticks

ASSUME ServiceAssumption ==
    /\ WATCHDOG \in Nat \ {0}
    /\ Stop \notin Drives /\ Fractional \notin Drives \union {Stop}

VARIABLES
    up,                 \* is the process running?
    actions,            \* runtime.actions, as the command they stand for
    age,                \* ticks since last_command_ns, capped
    client_sequences    \* address -> <<session, sequence>> or NoEntry

service == <<up, actions, age, client_sequences>>

\* client_sequences.get(address) is None
NoEntry == <<>>

NoSequences == [a \in Addresses |-> NoEntry]

ServiceInit ==
    up = TRUE /\ actions = Stop /\ age = 0 /\ client_sequences = NoSequences

\* Mutant of WatchdogDue: the comparison is a tick late (age stops growing).
WatchdogLate == up /\ actions # Stop /\ age > WATCHDOG + 1

WatchdogDue == up /\ actions # Stop /\ age > WATCHDOG

\* `if runtime.actions and now_ns - last_command_ns > watchdog_ns'
WatchdogExpires ==
    /\ WatchdogDue
    /\ actions' = Stop
    /\ UNCHANGED <<up, age, client_sequences>>

\* Mutants of Stale: no check at all; only a repeated sequence is stale.
NeverStale(p) == FALSE
StaleOnlyIfEqual(p) == client_sequences[p.src] = <<p.session, p.sequence>>

Stale(p) ==
    LET previous == client_sequences[p.src]
    IN  /\ previous # NoEntry
        /\ previous[1] = p.session
        /\ p.sequence < previous[2]

Acceptable(p) == p.cmd # Fractional /\ ~Stale(p)

AgeAfter(p) == IF Acceptable(p) THEN 0 ELSE age

\* One packet taken from the socket: parse, require_binary_wheels, the stale
\* check, set_wheels and last_command_ns.  The loop looks at the watchdog
\* before it looks at the socket.
Serve(p) ==
    /\ up
    /\ ~WatchdogDue
    /\ IF Acceptable(p)
       THEN /\ client_sequences' =
                 [client_sequences EXCEPT ![p.src] = <<p.session, p.sequence>>]
            /\ actions' = p.cmd
       ELSE UNCHANGED <<client_sequences, actions>>
    /\ age' = AgeAfter(p)
    /\ UNCHANGED up

\* The reply to p, decided in the state it was served in (response_payload).
Reply(p) ==
    [to |-> p.src, session |-> p.session, sequence |-> p.sequence,
     ok |-> Acceptable(p)]

\* The process ends (SIGTERM, or an OSError out of sendto): runtime.close().
\* What it knew is gone with it.
ServiceEnds ==
    /\ up
    /\ up' = FALSE
    /\ actions' = Stop /\ age' = 0 /\ client_sequences' = NoSequences

\* systemd starts it again: an empty client_sequences, nothing commanded.
ServiceRestarts ==
    /\ ~up
    /\ up' = TRUE
    /\ UNCHANGED <<actions, age, client_sequences>>

\* A tick does not pass over a watchdog that is due: the loop comes round far
\* more often than that.
ServiceTick ==
    /\ ~WatchdogDue
    /\ age' = IF age > WATCHDOG THEN age ELSE age + 1
    /\ UNCHANGED <<up, actions, client_sequences>>

-----------------------------------------------------------------------------
(* What a client of the service sees of it (module LeasedOrders). *)

\* The number below which the packets of a session are stale.
Floor(address, session) ==
    LET entry == client_sequences[address]
    IN  IF entry # NoEntry /\ entry[1] = session THEN entry[2] ELSE 0

\* The ticks before the watchdog is due.
LeaseLeft == IF actions = Stop THEN 0 ELSE WATCHDOG + 1 - age
=============================================================================
