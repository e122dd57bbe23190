----------------------------- MODULE IdfTransport -----------------------------
(***************************************************************************)
(* The ESP-IDF transport of the examples: the write callback shares one    *)
(* mutex with the other users of the bus and spends its whole budget, wait *)
(* and transfer, within the timeout that the driver gave it; and the       *)
(* handles it allocates.                                                   *)
(*                                                                         *)
(* Time advances in fractions of a millisecond while every task is blocked *)
(* or at rest, never between two statements of a task.                     *)
(***************************************************************************)
EXTENDS Integers, FiniteSets

CONSTANTS
  Tasks,     \* the tasks that use the bus
  Timeouts,  \* timeoutMs of the calls
  PerMs,     \* esp_timer ticks per millisecond: 1000 in the code
  TickMs     \* milliseconds per tick of the RTOS

ASSUME IdfAssumption ==
  /\ Timeouts \subseteq Nat \ {0} /\ IsFiniteSet(Timeouts)
  /\ {PerMs, TickMs} \subseteq Nat \ {0}
  /\ "NOBODY" \notin Tasks

VARIABLES
  handles,  \* gI2c: those of mutex, bus and dev that are not null
  live,     \* external: what the RTOS and the I2C driver have allocated
  phase,    \* external: time since the last tick of the RTOS
  holder,   \* external: the holder of the mutex
  call      \* per task: its call in progress

vars == <<handles, live, phase, holder, call>>

Handles == {"MUTEX", "BUS", "DEV"}
Nobody == "NOBODY"

\* elapsed: time since startedUs; left: time until the RTOS or the I2C driver
\* wakes the task; sent: the attempt on the bus, and what came of it.
NoCall == [at |-> "OUT", kind |-> "NONE", timeout |-> 0, elapsed |-> 0, left |-> 0,
           contended |-> FALSE, sent |-> "NO", result |-> "NONE"]

Init ==
  /\ handles = {} /\ live = {}
  /\ phase = 0 /\ holder = Nobody
  /\ call = [t \in Tasks |-> NoCall]

-----------------------------------------------------------------------------
\* Set up and tear down, which the application serializes against every user.

AllOut == \A t \in Tasks : call[t].at = "OUT"

\* External: a bus that still carries a device is not freed.
Freed(resources, r) ==
  IF r = "BUS" /\ "DEV" \in resources THEN resources ELSE resources \ {r}

\* deinitWire(): what has a handle, the device before its bus.
Release(resources, r) == IF r \in handles THEN Freed(resources, r) ELSE resources
Teardown == Release(Release(Release(live, "DEV"), "BUS"), "MUTEX")

\* When a step of initIdfI2c() fails: what the steps before it allocated is given
\* back, in this order.
Undone(resources, step) ==
  CASE step = "MUTEX" -> resources
    [] step = "BUS" -> Freed(resources \cup {"MUTEX"}, "MUTEX")
    [] step = "DEV" -> Freed(Freed(resources \cup {"MUTEX", "BUS"}, "BUS"), "MUTEX")

InitIdfI2c ==
  /\ AllOut
  /\ \/ handles' = Handles /\ live' = Teardown \cup Handles
     \/ \E step \in Handles : handles' = {} /\ live' = Undone(Teardown, step)
  /\ UNCHANGED <<phase, holder, call>>

DeinitWire ==
  /\ AllOut
  /\ handles' = {} /\ live' = Teardown
  /\ UNCHANGED <<phase, holder, call>>

-----------------------------------------------------------------------------
\* One call, from its checks to its return.

Resources == UNCHANGED <<handles, live, phase>>

Ended(c, result, sent) ==
  [c EXCEPT !.at = "RETURNED", !.left = 0, !.result = result, !.sent = sent]

\* The attempt on the bus, with at most this many milliseconds.
Attempting(c, ms) == [c EXCEPT !.at = "SENDING", !.left = ms * PerMs, !.sent = "TRIED"]

\* A take that would end in this many ticks, the current one counted as a whole.
Blocked(c) ==
  LET ticks == c.timeout \div TickMs
  IN  [c EXCEPT !.at = "BLOCKED", !.contended = TRUE,
                !.left = IF ticks = 0 THEN 0 ELSE (ticks * TickMs * PerMs) - phase]

\* wireWrite(), and a probe by scanI2c(), which has no zero-tick take but the same
\* outcome when the mutex is free; known: checkedContext() accepts the address.
Enter(t, kind, ms, known) ==
  LET c == [NoCall EXCEPT !.kind = kind, !.timeout = ms]
  IN  /\ call[t].at = "OUT"
      /\ IF handles = {} \/ ~known
         THEN /\ call' = [call EXCEPT ![t] = Ended(c, "BUS_ERROR", "NO")]
              /\ UNCHANGED holder
         ELSE IF holder = Nobody
         THEN /\ call' = [call EXCEPT ![t] = Attempting(c, ms)]
              /\ holder' = t
         ELSE /\ call' = [call EXCEPT ![t] = Blocked(c)]
              /\ UNCHANGED holder
      /\ Resources

WaitExpires(t) ==
  /\ call[t].at = "BLOCKED" /\ call[t].left = 0
  /\ call' = [call EXCEPT ![t] = Ended(@, "TIMEOUT", "NO")]
  /\ UNCHANGED holder
  /\ Resources

\* Wrong: the wait is rounded down.
ElapsedMsMutant(c) == c.elapsed \div PerMs

\* Whole milliseconds of the wait, rounded up.
ElapsedMs(c) == (c.elapsed + PerMs - 1) \div PerMs

\* A write goes on with what is left of its timeout, a probe by scanI2c() has the
\* whole of it again.
Budget(c) == IF c.kind = "WRITE" THEN c.timeout - ElapsedMs(c) ELSE c.timeout

\* Wrong: the mutex stays taken when the budget is spent.
GrantedMutant(t) ==
  LET c == call[t]
  IN  /\ c.at = "BLOCKED" /\ holder = Nobody
      /\ holder' = t
      /\ call' = [call EXCEPT ![t] =
                    IF c.kind = "WRITE" /\ ElapsedMs(c) >= c.timeout
                    THEN Ended(c, "TIMEOUT", "NO")
                    ELSE Attempting(c, Budget(c))]
      /\ Resources

\* The mutex was waited for: a write whose timeout is spent gives it back.
Granted(t) ==
  LET c == call[t]
  IN  /\ c.at = "BLOCKED" /\ holder = Nobody
      /\ IF c.kind = "WRITE" /\ ElapsedMs(c) >= c.timeout
         THEN /\ call' = [call EXCEPT ![t] = Ended(c, "TIMEOUT", "NO")]
              /\ UNCHANGED holder
         ELSE /\ call' = [call EXCEPT ![t] = Attempting(c, Budget(c))]
              /\ holder' = t
      /\ Resources

\* Only a confirmed transfer and a timeout keep their names.
MapEspError(err) == IF err \in {"OK", "TIMEOUT"} THEN err ELSE "BUS_ERROR"

\* External: i2c_master_transmit() returns within its timeout.  It is certain of
\* nothing but success.
Reached(err) ==
  CASE err = "OK" -> {"WHOLE"}
    [] err = "TIMEOUT" -> {"NONE", "PART", "WHOLE"}
    [] err = "INVALID_RESPONSE" -> {"NONE", "PART"}
    [] err = "INVALID_STATE" -> {"NONE"}

TransmitReturns(t) ==
  /\ call[t].at = "SENDING"
  /\ \E err \in {"OK", "TIMEOUT", "INVALID_RESPONSE", "INVALID_STATE"} :
       /\ err = "TIMEOUT" => call[t].left = 0
       /\ \E sent \in Reached(err) :
            call' = [call EXCEPT ![t] = Ended(@, MapEspError(err), sent)]
  /\ holder' = Nobody
  /\ Resources

Return(t) ==
  /\ call[t].at = "RETURNED"
  /\ call' = [call EXCEPT ![t] = NoCall]
  /\ UNCHANGED holder
  /\ Resources

\* Time passes up to the next moment at which a task is woken.
Tick ==
  /\ \A t \in Tasks : call[t].at \in {"BLOCKED", "SENDING"} => call[t].left > 0
  /\ \A t \in Tasks : call[t].at # "RETURNED"
  /\ phase' = (phase + 1) % (TickMs * PerMs)
  /\ call' = [t \in Tasks |->
                IF call[t].at = "OUT" THEN call[t]
                ELSE [call[t] EXCEPT !.elapsed = @ + 1, !.left = @ - 1]]
  /\ UNCHANGED <<handles, live, holder>>

Progress(t) == WaitExpires(t) \/ Granted(t) \/ TransmitReturns(t) \/ Return(t)

Next ==
  \/ InitIdfI2c \/ DeinitWire
  \/ \E t \in Tasks, kind \in {"WRITE", "PROBE"}, ms \in Timeouts, known \in BOOLEAN :
       Enter(t, kind, ms, known)
  \/ \E t \in Tasks : Progress(t)
  \/ Tick

Spec == Init /\ [][Next]_vars

-----------------------------------------------------------------------------
\* Properties

\* Whatever is allocated has a handle, through any sequence of set-ups that fail
\* half way and tear-downs: nothing is leaked and no handle dangles.
NothingIsLeaked == live = handles

\* One task is on the bus at a time, and a task that has returned, however its
\* call went, does not keep the mutex.
MutexIsGivenBack ==
  \A t \in Tasks : (holder = t) <=> (call[t].at = "SENDING")

\* The driver may trust a definite result: OK means that the whole write reached
\* the device, a NACK that nothing did (mapEspError() gives none, since ESP-IDF does
\* not say which byte was refused), and without contention no write times out before
\* it was tried.
DefiniteResultsAreTrue ==
  \A t \in Tasks : call[t].at = "RETURNED" =>
    /\ call[t].result = "OK" => call[t].sent = "WHOLE"
    /\ call[t].result = "NACK" => call[t].sent = "NONE"
    /\ call[t].result = "TIMEOUT" /\ ~call[t].contended => call[t].sent # "NO"

\* Every call returns, also behind a task that asks for the bus again and again.
EveryCallReturns ==
  \A t \in Tasks : (call[t].at # "OUT") ~> (call[t].at = "OUT")
=============================================================================
