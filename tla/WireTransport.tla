----------------------------- MODULE WireTransport -----------------------------
(***************************************************************************)
(* The Wire transport of the Arduino example: the recovery of a bus that a *)
(* target may hold, done on two open-drain lines under one deadline, and   *)
(* the write callback, which shares the lock of the bus with other users.  *)
(***************************************************************************)
EXTENDS Integers

CONSTANTS
  Timeout,  \* timeoutMs of initWire()
  Users     \* callers of the bus once it is set up

\* What the constants are; the module that instantiates this one assumes it.
WireAssumption == Timeout \in Nat \ {0} /\ "NOBODY" \notin Users

VARIABLES
  at,       \* the statement of initWire()
  clocks,   \* i: clock pulses given
  elapsed,  \* milliseconds since startedUs
  scl, sda, \* the lines that the master drives low
  target,   \* external: a target in the middle of a transfer
  found,    \* ghost: the target at the start of the recovery
  stretch,  \* external: something holds SCL low
  lock,     \* external: the user that holds the lock of the Wire library
  write     \* per user: its write in progress, its result and what reached the target

vars == <<at, clocks, elapsed, scl, sda, target, found, stretch, lock, write>>
wires == <<at, clocks, elapsed, scl, sda, target, found, stretch>>

-----------------------------------------------------------------------------
NoWrite == [at |-> "OUT", result |-> "NONE", reached |-> "NO"]

\* External: a target on the bus.  A reading one sends left more bits, this one
\* being bit; a written one has taken bits since its last acknowledge and drives
\* the ninth clock low.

Idle == [mode |-> "IDLE", count |-> 0, bit |-> 1]
Reading == [mode : {"READ"}, count : 1..8, bit : {0, 1}]
Written == [mode : {"WRITE"}, count : 0..8, bit : {1}]

HoldsSda(s) == s.bit = 0 \/ (s.mode = "WRITE" /\ s.count = 8)

\* What a falling clock does to it.
Clocked(s) ==
  CASE s.mode = "READ" /\ s.count > 1 -> {[s EXCEPT !.count = @ - 1, !.bit = b] : b \in {0, 1}}
    [] s.mode = "READ" /\ s.count = 1 -> {Idle}  \* nobody acknowledges the byte
    [] s.mode = "WRITE" -> {[s EXCEPT !.count = (@ + 1) % 9]}
    [] s.mode = "IDLE" -> {s}

SclIsLow == scl \/ stretch
SdaIsLow == sda \/ HoldsSda(target)

Init ==
  /\ at = "START" /\ clocks = 0 /\ elapsed = 0
  /\ scl = FALSE /\ sda = FALSE
  /\ target \in {Idle} \cup Reading \cup Written
  /\ found = target
  /\ stretch \in BOOLEAN
  /\ lock = "NOBODY" /\ write = [u \in Users |-> NoWrite]

-----------------------------------------------------------------------------
\* initWire(): the recovery.

Unused == UNCHANGED <<lock, write, found>>

\* The master pulls the clock low, which the target may then hold there.
ClockFalls ==
  /\ scl' = TRUE
  /\ target' \in Clocked(target)
  /\ stretch' \in BOOLEAN

\* The first release of both lines.
Begin ==
  /\ at = "START"
  /\ at' = "RELEASE" /\ scl' = FALSE /\ sda' = FALSE
  /\ UNCHANGED <<clocks, elapsed, target, stretch>>
  /\ Unused

\* releaseClock(): waits for the line in steps of a millisecond.
ReleaseClock ==
  /\ at = "RELEASE" /\ SclIsLow
  /\ IF elapsed >= Timeout
     THEN at' = "FAILED" /\ sda' = FALSE /\ UNCHANGED elapsed
     ELSE elapsed' = elapsed + 1 /\ UNCHANGED <<at, sda>>
  /\ UNCHANGED <<clocks, scl, target, stretch>>
  /\ Unused

Pulses == 9

\* The clock is up: after the deadline all the same a failure, otherwise on with
\* the next pulse, the STOP condition, or its second half.
ClockIsUp ==
  /\ at = "RELEASE" /\ ~SclIsLow
  /\ IF elapsed >= Timeout
     THEN at' = "FAILED" /\ sda' = FALSE /\ UNCHANGED clocks
     ELSE /\ at' = IF sda THEN "STOP" ELSE IF clocks < Pulses THEN "PULSE" ELSE "PREPARE"
          /\ UNCHANGED <<sda, clocks>>
  /\ UNCHANGED <<elapsed, scl, target, stretch>>
  /\ Unused

Pulse ==
  /\ at = "PULSE"
  /\ ClockFalls
  /\ at' = "UP" /\ clocks' = clocks + 1
  /\ UNCHANGED <<elapsed, sda>>
  /\ Unused

\* Wrong: no STOP condition once the data line is up.
PrepareStopMutant ==
  /\ at = "PREPARE"
  /\ at' = "CHECK"
  /\ UNCHANGED <<clocks, elapsed, scl, sda, target, stretch>>
  /\ Unused

PrepareStop ==
  /\ at = "PREPARE"
  /\ ClockFalls
  /\ at' = "UP" /\ sda' = TRUE
  /\ UNCHANGED <<clocks, elapsed>>
  /\ Unused

\* digitalWrite(scl, HIGH) at the head of releaseClock().
LetGo ==
  /\ at = "UP"
  /\ at' = "RELEASE" /\ scl' = FALSE
  /\ UNCHANGED <<clocks, elapsed, sda, target, stretch>>
  /\ Unused

\* A data line that rises under a high clock is the STOP condition.
Stop ==
  /\ at = "STOP"
  /\ sda' = FALSE /\ at' = "CHECK"
  /\ target' = IF sda /\ ~SclIsLow /\ ~HoldsSda(target) THEN Idle ELSE target
  /\ UNCHANGED <<clocks, elapsed, scl, stretch>>
  /\ Unused

\* Both lines must be high; then Wire.begin(), which may fail.
Check ==
  /\ at = "CHECK"
  /\ at' \in IF SdaIsLow \/ SclIsLow THEN {"FAILED"} ELSE {"READY", "NO_WIRE"}
  /\ UNCHANGED <<clocks, elapsed, scl, sda, target, stretch>>
  /\ Unused

\* External: the line that something stretches comes free at any moment, or never.
Unstretch ==
  /\ stretch /\ at \notin {"READY", "NO_WIRE", "FAILED"}
  /\ stretch' = FALSE
  /\ UNCHANGED <<at, clocks, elapsed, scl, sda, target>>
  /\ Unused

Recover ==
  Begin \/ ReleaseClock \/ ClockIsUp \/ Pulse \/ PrepareStop \/ LetGo \/ Stop \/ Check

-----------------------------------------------------------------------------
\* wireWrite(), once the bus is set up.

MapWireResult(code) ==
  CASE code = 0 -> "OK" [] code = 2 -> "NACK_ADDRESS" [] code = 3 -> "NACK_DATA"
    [] code = 5 -> "TIMEOUT" [] OTHER -> "BUS_ERROR"

\* Only a sound, not oversized request takes the lock; the library waits for it.
BeginTransmission(u) ==
  /\ at = "READY" /\ write[u].at = "OUT" /\ lock = "NOBODY"
  /\ lock' = u
  /\ \E queued \in {"FULL", "SHORT"} : write' = [write EXCEPT ![u].at = queued]
  /\ UNCHANGED wires

\* External: what endTransmission() sends, and how much of it arrives.
Arrives(queued, code) ==
  CASE code = 0 -> IF queued = "FULL" THEN {"WHOLE"} ELSE {"PART"}
    [] code = 2 -> {"NONE"}
    [] code = 3 -> {"PART"}
    [] OTHER -> {"NONE", "PART"} \cup (IF queued = "FULL" THEN {"WHOLE"} ELSE {})

\* The transmission is closed, also one that could not be queued whole, whose
\* answer then is not what the caller hears.
EndTransmission(u) ==
  /\ write[u].at \in {"FULL", "SHORT"}
  /\ lock' = "NOBODY"
  /\ \E code \in 0..5 : \E reached \in Arrives(write[u].at, code) :
       write' = [write EXCEPT ![u] =
                  [at |-> "DONE", reached |-> reached,
                   result |-> IF write[u].at = "SHORT" THEN "BUS_ERROR"
                              ELSE MapWireResult(code)]]
  /\ UNCHANGED wires

Return(u) ==
  /\ write[u].at = "DONE"
  /\ write' = [write EXCEPT ![u] = NoWrite]
  /\ UNCHANGED lock
  /\ UNCHANGED wires

Progress(u) == EndTransmission(u) \/ Return(u)

Next ==
  \/ Recover \/ Unstretch
  \/ \E u \in Users : BeginTransmission(u) \/ Progress(u)

Spec == Init /\ [][Next]_vars

-----------------------------------------------------------------------------
\* Properties

\* initWire() succeeds only on a free bus: both lines up, and the target, wherever
\* it was in a transfer, has seen its end.
ReadyMeansFree ==
  at = "READY" => /\ ~SclIsLow /\ ~SdaIsLow
                  /\ target = Idle

\* Whenever initWire() returns, by any of its paths, it holds neither line.
LinesAreReleased == at \in {"READY", "NO_WIRE", "FAILED"} => ~scl /\ ~sda

\* A target that is read, or that acknowledges, lets go of the bus: but for a clock
\* line held to the deadline, the recovery fails only when its last pulse is the one
\* that a written target acknowledges, which held nothing before.
StuckTargetLetsGo ==
  at = "FAILED" => elapsed >= Timeout \/ ~HoldsSda(found)

\* The recovery ends, also when a line is held for ever.
RecoveryEnds == <>(at \in {"READY", "NO_WIRE", "FAILED"})

\* The lock of the bus is held exactly inside a write: no outcome, a truncated
\* write included, strands it.
LockIsGivenBack ==
  \A u \in Users : (lock = u) <=> (write[u].at \in {"FULL", "SHORT"})

\* OK means that the whole write arrived, and a NACK of the address that nothing did.
DefiniteResultsAreTrue ==
  \A u \in Users : write[u].at = "DONE" =>
    /\ write[u].result = "OK" => write[u].reached = "WHOLE"
    /\ write[u].result = "NACK_ADDRESS" => write[u].reached = "NONE"
=============================================================================
