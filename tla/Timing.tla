-------------------------------- MODULE Timing --------------------------------
(***************************************************************************)
(* Time in the driver: the operation deadline, the flush timeout, the two  *)
(* display-on guards, and the calls that block (waitFlush(), recover()).   *)
(* now is real time and never rolls over; the driver sees samples of it.   *)
(* A callback of the transport returns within the timeout it was given.    *)
(*                                                                         *)
(* The transactions of an operation or flush are only counted: what they   *)
(* send is modelled in SSD1315Driver.                                      *)
(***************************************************************************)
EXTENDS Clock

CONSTANTS
  HasClock,         \* Config::nowMs is set
  I2cTimeout,       \* Config::i2cTimeoutMs
  FlushTimeout,     \* Config::flushTimeoutMs, 0 for none
  DisplayOnDelay,   \* Config::displayOnDelayMs
  DefaultWait,      \* 5000: waitFlush() without any timeout
  MaxTransactions,  \* MAX_POLL_TRANSACTIONS
  MaxLength,        \* bound: transactions of a job
  Budgets,          \* bound: timeouts that waitFlush() is given
  StartTime,        \* bound: the time at which the driver is attached ...
  MaxTime           \* ... and the time at which the clock stands still for good

ASSUME TimingAssumption ==
  /\ HasClock \in BOOLEAN
  /\ {I2cTimeout, DefaultWait, MaxTransactions, MaxLength} \subseteq Nat \ {0}
  /\ {I2cTimeout, DefaultWait} \subseteq Words /\ Budgets \subseteq Words
  /\ FlushTimeout \in 0..Half /\ DisplayOnDelay \in 0..Half
  /\ {StartTime, MaxTime} \subseteq Nat /\ StartTime <= MaxTime

VARIABLES
  now,      \* real time
  sampled,  \* the last time at which the timers were compared with the clock
  panel,    \* _powerState, _powerOnDelayStarted, _powerOnMs; litAt: end of DISPLAY_ON
  op,       \* the operation: transactions left, deadline, final delay
  flush,    \* the legacy flush job: transactions left, start of its timeout
  poll,     \* the poll that is executing: attempts left, their timeout
  wait      \* the blocking call that is executing

vars == <<now, sampled, panel, op, flush, poll, wait>>

NoOperation ==
  [phase |-> "NONE", kind |-> "SLEEP", left |-> 0, limited |-> FALSE, deadline |-> 0,
   deadlineAt |-> 0, latched |-> FALSE, since |-> 0, litAt |-> 0, ended |-> "NONE"]
NoFlush == [left |-> 0, started |-> FALSE, since |-> 0, startAt |-> 0, error |-> "NONE"]
NoPoll == [job |-> "NONE", left |-> 0, timeout |-> 0, at |-> 0]
NoWait ==
  [kind |-> "NONE", at |-> "HEAD", start |-> 0, startAt |-> 0, budget |-> 0,
   last |-> 0, current |-> 0, mark |-> <<"NONE", 0>>, stalled |-> 0]
DarkPanel == [guard |-> "OFF", latched |-> FALSE, since |-> 0, litAt |-> 0]

EndedOperation(why) == [NoOperation EXCEPT !.ended = why]
FailedFlush(why) == [NoFlush EXCEPT !.error = why]

OperationActive == op.phase # "NONE"
IsFlushing == flush.left # 0
Idle == ~OperationActive /\ ~IsFlushing /\ poll = NoPoll /\ wait = NoWait

\* Some timer was latched, or a deadline set.
TimersRun == IsFlushing \/ OperationActive \/ panel.guard = "INIT_DELAY"

Init ==
  /\ now = StartTime /\ sampled = StartTime
  /\ panel = DarkPanel
  /\ op = NoOperation /\ flush = NoFlush
  /\ poll = NoPoll /\ wait = NoWait

\* Time passes between calls and in the yield hook.  While a timer runs, it is
\* polled at least once every half rollover (24.8 days).
Elapse ==
  /\ poll = NoPoll
  /\ wait.kind = "OPERATION" => wait.at = "JUDGE"
  /\ wait.kind = "FLUSH" => wait.at = "HEAD"
  /\ now < MaxTime
  /\ TimersRun => now < sampled + Half
  /\ now' = now + 1
  /\ UNCHANGED <<sampled, panel, op, flush, poll, wait>>

-----------------------------------------------------------------------------
\* Polling

\* tickPowerOn(): the first sample after DISPLAY_ON starts the guard.
TickPowerOn(p, s) ==
  IF p.guard # "INIT_DELAY" THEN p
  ELSE IF ~p.latched THEN [p EXCEPT !.latched = TRUE, !.since = s]
  ELSE IF Elapsed(s, p.since) >= DisplayOnDelay
       THEN [p EXCEPT !.guard = "READY", !.latched = FALSE] ELSE p

AttemptTimeout(timeout, remaining) == IF remaining < timeout THEN remaining ELSE timeout

\* Wrong: a poll of an operation with a deadline may make several attempts.
AttemptsPerPollMutant(n) == n

\* A later attempt would reuse the poll's stale sample.
AttemptsPerPoll(n) == IF op.limited /\ n > 1 THEN 1 ELSE n

\* A wake that stops half-way leaves the power unknown, a completed sleep or a
\* failed one ends the guard; a scroll leaves both alone.
PanelAfter(kept, p) == IF kept THEN p ELSE DarkPanel

\* pollOperation() with sample s and up to n attempts.
PollOperationAt(s, n) ==
  /\ OperationActive
  /\ UNCHANGED <<now, flush>>
  /\ \/ /\ op.phase = "DELAY" /\ ~op.latched
        /\ op' = [op EXCEPT !.latched = TRUE, !.since = s]
        /\ panel' = TickPowerOn(panel, s)
        /\ UNCHANGED poll
     \/ /\ op.phase = "DELAY" /\ op.latched
        /\ IF Elapsed(s, op.since) >= DisplayOnDelay
           THEN /\ op' = NoOperation
                /\ panel' = [DarkPanel EXCEPT !.guard = "READY", !.litAt = op.litAt]
           ELSE op' = op /\ panel' = TickPowerOn(panel, s)
        /\ UNCHANGED poll
     \/ /\ op.phase = "SEND" /\ op.limited /\ DeadlineReached(s, op.deadline)
        /\ op' = EndedOperation("DEADLINE")
        /\ panel' = PanelAfter(op.kind # "WAKE", TickPowerOn(panel, s))
        /\ UNCHANGED poll
     \/ /\ op.phase = "SEND" /\ ~(op.limited /\ DeadlineReached(s, op.deadline))
        /\ poll' = [job |-> "OPERATION", left |-> AttemptsPerPoll(n), at |-> now,
                    timeout |-> IF op.limited
                                THEN AttemptTimeout(I2cTimeout, Elapsed(op.deadline, s))
                                ELSE I2cTimeout]
        /\ panel' = TickPowerOn(panel, s)
        /\ UNCHANGED op

\* The first poll of a job starts its timeout.
Started(s) ==
  IF flush.started THEN flush
  ELSE [flush EXCEPT !.started = TRUE, !.since = s, !.startAt = now, !.error = "NONE"]

\* Wrong: the end of the timeout is computed first, and wraps.
JobTimesOutMutant(s) ==
  FlushTimeout > 0 /\ s >= (Started(s).since + FlushTimeout) % Modulus

JobTimesOut(s) == FlushTimeout > 0 /\ Elapsed(s, Started(s).since) >= FlushTimeout

\* pollFlush() with sample s, up to n attempts of at most the given timeout.
PollFlushAt(s, n, timeout) ==
  /\ IsFlushing
  /\ panel' = TickPowerOn(panel, s)
  /\ UNCHANGED <<now, op>>
  /\ \/ /\ JobTimesOut(s)
        /\ flush' = FailedFlush("TIMEOUT")
        /\ UNCHANGED poll
     \/ /\ ~JobTimesOut(s)
        /\ flush' = Started(s)
        /\ IF panel'.guard = "INIT_DELAY"
           THEN UNCHANGED poll
           ELSE poll' = [job |-> "FLUSH", left |-> n, timeout |-> timeout, at |-> now]

\* An attempt that takes d and succeeds, or that fails.
Attempt(d, ok) ==
  /\ poll # NoPoll
  /\ d <= poll.timeout /\ (d > 0 => now + d <= MaxTime)
  /\ now' = now + d
  /\ LET last == (IF poll.job = "FLUSH" THEN flush.left ELSE op.left) = 1
         more == ok /\ ~last /\ poll.left > 1
     IN  /\ poll' = IF more THEN [poll EXCEPT !.left = @ - 1] ELSE NoPoll
         /\ \/ /\ poll.job = "FLUSH"
               /\ flush' = IF ok THEN [flush EXCEPT !.left = @ - 1] ELSE NoFlush
               /\ UNCHANGED <<panel, op>>
            \/ /\ poll.job = "OPERATION" /\ ok /\ ~last
               /\ op' = [op EXCEPT !.left = @ - 1]
               /\ UNCHANGED <<panel, flush>>
            \/ /\ poll.job = "OPERATION" /\ (~ok \/ (last /\ op.kind # "WAKE"))
               /\ op' = NoOperation
               /\ panel' = PanelAfter(op.kind = "SCROLL", panel)
               /\ UNCHANGED flush
            \/ /\ poll.job = "OPERATION" /\ ok /\ last /\ op.kind = "WAKE"
               /\ IF DisplayOnDelay = 0
                  THEN /\ op' = NoOperation
                       /\ panel' = [DarkPanel EXCEPT !.guard = "READY", !.litAt = now + d]
                  ELSE /\ op' = [op EXCEPT !.phase = "DELAY", !.left = 0, !.litAt = now + d]
                       /\ UNCHANGED panel
               /\ UNCHANGED flush
  /\ UNCHANGED <<sampled, wait>>

-----------------------------------------------------------------------------
\* The owner's calls

\* A resync behaves like WAKE, which ends with DISPLAY_ON; INITIALIZE and
\* SHUTDOWN like SLEEP.  The deadline is at most Half - 1 ahead.
NewOperation(kind, n, limited, ahead) ==
  [NoOperation EXCEPT !.phase = "SEND", !.kind = kind, !.left = n, !.limited = limited,
                      !.deadline = Sample(now + ahead), !.deadlineAt = now + ahead]

StartOperation(kind, n, limited, ahead) ==
  /\ Idle
  /\ kind = "WAKE" => panel.guard = "OFF"
  /\ op' = NewOperation(kind, n, limited, ahead)
  /\ sampled' = now
  /\ UNCHANGED <<now, panel, flush, poll, wait>>

PollOperation(n) ==
  /\ poll = NoPoll /\ wait = NoWait
  /\ PollOperationAt(Sample(now), n)
  /\ sampled' = now
  /\ UNCHANGED wait

RequestFlush(n) ==
  /\ Idle
  /\ flush' = [NoFlush EXCEPT !.left = n]
  /\ sampled' = now
  /\ UNCHANGED <<now, panel, op, poll, wait>>

PollFlush(n) ==
  /\ poll = NoPoll /\ wait = NoWait
  /\ PollFlushAt(Sample(now), n, I2cTimeout)
  /\ sampled' = now
  /\ UNCHANGED wait

\* Wrong: the guard counts from before the DISPLAY_ON callback.
WakeNowMutant(d) ==
  /\ Idle /\ panel.guard = "OFF"
  /\ d <= I2cTimeout /\ (d > 0 => now + d <= MaxTime)
  /\ now' = now + d
  /\ panel' = [guard |-> IF DisplayOnDelay = 0 THEN "READY" ELSE "INIT_DELAY",
               latched |-> TRUE, since |-> Sample(now), litAt |-> now + d]
  /\ sampled' = now + d
  /\ UNCHANGED <<op, flush, poll, wait>>

\* setSleep(FALSE): one command, then the guard that tick() watches.
WakeNow(d) ==
  /\ Idle /\ panel.guard = "OFF"
  /\ d <= I2cTimeout /\ (d > 0 => now + d <= MaxTime)
  /\ now' = now + d
  /\ panel' = [DarkPanel EXCEPT !.litAt = now + d,
                 !.guard = IF DisplayOnDelay = 0 THEN "READY" ELSE "INIT_DELAY"]
  /\ sampled' = now + d
  /\ UNCHANGED <<op, flush, poll, wait>>

\* tick() with nothing but the guard to watch.
TickGuard ==
  /\ Idle /\ panel.guard = "INIT_DELAY"
  /\ panel' = TickPowerOn(panel, Sample(now))
  /\ sampled' = now
  /\ UNCHANGED <<now, op, flush, poll, wait>>

-----------------------------------------------------------------------------
\* Blocking calls

\* _nowMs(), with what the caller falls back on without a clock.
NowMs(default) == IF HasClock THEN Sample(now) ELSE default
SampledNow == IF HasClock THEN now ELSE sampled

WaitFlush(timeout) ==
  /\ poll = NoPoll /\ wait = NoWait /\ ~OperationActive
  /\ wait' = [NoWait EXCEPT !.kind = "FLUSH", !.start = Sample(now), !.startAt = now,
                !.last = Sample(now),
                !.budget = IF timeout # 0 THEN timeout
                           ELSE IF FlushTimeout # 0 THEN FlushTimeout ELSE DefaultWait]
  /\ sampled' = IF TimersRun THEN sampled ELSE now
  /\ UNCHANGED <<now, panel, op, flush, poll>>

\* recover() and the other facades: an operation without a deadline; one that
\* ends with a display-on delay is refused without a clock.
RunOperation(kind, n) ==
  /\ Idle
  /\ kind = "WAKE" => panel.guard = "OFF" /\ (HasClock \/ DisplayOnDelay = 0)
  /\ op' = NewOperation(kind, n, FALSE, 0)
  /\ wait' = [NoWait EXCEPT !.kind = "OPERATION", !.last = NowMs(0), !.start = NowMs(0)]
  /\ sampled' = SampledNow
  /\ UNCHANGED <<now, panel, flush, poll>>

Executing(kind, at) == wait.kind = kind /\ wait.at = at /\ poll = NoPoll

WorkLeft == IsFlushing \/ panel.guard = "INIT_DELAY"

\* The helper's own timeout is checked before each tick.
WaitFlushTimesOut ==
  /\ Executing("FLUSH", "HEAD") /\ WorkLeft
  /\ Elapsed(NowMs(wait.start), wait.start) >= wait.budget
  /\ flush' = IF IsFlushing THEN FailedFlush("WAIT") ELSE flush
  /\ wait' = NoWait
  /\ sampled' = SampledNow
  /\ UNCHANGED <<now, panel, op, poll>>

WaitFlushTicks ==
  LET s == NowMs(wait.start)
      elapsed == Elapsed(s, wait.start)
  IN  /\ Executing("FLUSH", "HEAD") /\ WorkLeft
      /\ elapsed < wait.budget
      /\ wait' = [wait EXCEPT !.at = "JUDGE", !.current = s, !.mark = <<panel.guard, flush.left>>]
      /\ sampled' = SampledNow
      /\ IF IsFlushing
         THEN PollFlushAt(s, 1, AttemptTimeout(I2cTimeout, wait.budget - elapsed))
         ELSE panel' = TickPowerOn(panel, s) /\ UNCHANGED <<now, op, flush, poll>>

WaitFlushReturns ==
  /\ Executing("FLUSH", "HEAD") \/ Executing("FLUSH", "JUDGE")
  /\ ~WorkLeft
  /\ wait' = NoWait
  /\ UNCHANGED <<now, sampled, panel, op, flush, poll>>

RunOperationPolls ==
  /\ Executing("OPERATION", "HEAD") /\ OperationActive
  /\ wait' = [wait EXCEPT !.at = "JUDGE", !.mark = <<op.phase, op.left>>]
  /\ PollOperationAt(wait.last, MaxTransactions)
  /\ UNCHANGED sampled

RunOperationReturns ==
  /\ Executing("OPERATION", "JUDGE") /\ ~OperationActive
  /\ wait' = NoWait
  /\ UNCHANGED <<now, sampled, panel, op, flush, poll>>

\* The iteration saw neither the clock nor the job move.
Stood ==
  IF wait.kind = "FLUSH"
  THEN /\ wait.current = wait.last /\ wait.mark[1] = panel.guard
       /\ wait.mark[2] = flush.left \/ flush.error = "TIMEOUT"
  ELSE NowMs(0) = wait.last /\ wait.mark = <<op.phase, op.left>>

Patience ==
  IF wait.kind = "FLUSH" THEN StallGuard(wait.budget, I2cTimeout)
  ELSE StallGuard(SaturatedAdd(DisplayOnDelay, FlushTimeout), I2cTimeout)

Judges ==
  \/ Executing("FLUSH", "JUDGE") /\ WorkLeft
  \/ Executing("OPERATION", "JUDGE") /\ OperationActive

\* Wrong: a clock that stands still is not noticed.
WaitGoesOnMutant ==
  /\ Judges
  /\ wait' = [wait EXCEPT !.at = "HEAD",
                !.last = IF wait.kind = "FLUSH" THEN wait.current ELSE NowMs(0)]
  /\ sampled' = IF wait.kind = "FLUSH" THEN sampled ELSE SampledNow
  /\ UNCHANGED <<now, panel, op, flush, poll>>

WaitGoesOn ==
  /\ Judges
  /\ Stood => wait.stalled + 1 < Patience
  /\ wait' = [wait EXCEPT !.at = "HEAD", !.stalled = IF Stood THEN @ + 1 ELSE 0,
                !.last = IF wait.kind = "FLUSH" THEN wait.current ELSE NowMs(0)]
  /\ sampled' = IF wait.kind = "FLUSH" THEN sampled ELSE SampledNow
  /\ UNCHANGED <<now, panel, op, flush, poll>>

WaitStalls ==
  /\ Judges /\ Stood
  /\ wait.stalled + 1 >= Patience
  /\ wait' = NoWait
  /\ IF wait.kind = "FLUSH"
     THEN /\ flush' = IF IsFlushing THEN FailedFlush("STALL") ELSE flush
          /\ UNCHANGED <<panel, op>>
     ELSE /\ op' = EndedOperation("STALL")
          /\ panel' = PanelAfter(op.kind # "WAKE", panel)
          /\ UNCHANGED flush
  /\ UNCHANGED <<now, sampled, poll>>

-----------------------------------------------------------------------------
Kinds == {"WAKE", "SLEEP", "SCROLL"}
Lengths == 1..MaxLength

Attempts == \E d \in 0..I2cTimeout, ok \in BOOLEAN : Attempt(d, ok)

OwnerCall ==
  \/ \E kind \in {"WAKE", "SCROLL"}, n \in Lengths : RunOperation(kind, n)
  \/ \E kind \in Kinds, n \in Lengths, limited \in BOOLEAN, ahead \in 1..(Half - 1) :
       StartOperation(kind, n, limited, ahead)
  \/ \E n \in 1..MaxTransactions : PollOperation(n) \/ PollFlush(n)
  \/ \E n \in Lengths : RequestFlush(n)
  \/ \E d \in 0..I2cTimeout : WakeNow(d)
  \/ TickGuard
  \/ \E timeout \in Budgets : WaitFlush(timeout)

WaitStep ==
  \/ WaitFlushTimesOut \/ WaitFlushTicks \/ WaitFlushReturns
  \/ RunOperationPolls \/ RunOperationReturns
  \/ WaitGoesOn \/ WaitStalls

Next == Elapse \/ Attempts \/ OwnerCall \/ WaitStep

Spec == Init /\ [][Next]_vars

\* A call that executes goes on, and the transport's callbacks return; the
\* clock is not assumed to advance.
LiveSpec == Spec /\ WF_vars(WaitStep) /\ WF_vars(Attempts)
-----------------------------------------------------------------------------
\* An attempt of an operation with a deadline ends by it, however long the
\* attempts before it took.
EndsByDeadline ==
  poll.job = "OPERATION" /\ op.limited =>
    poll.timeout > 0 /\ now + poll.timeout <= op.deadlineAt

\* An attempt made inside waitFlush() ends within the helper's budget.
EndsInWait ==
  poll.job = "FLUSH" /\ wait.kind = "FLUSH" /\ HasClock =>
    poll.timeout > 0 /\ now + poll.timeout <= wait.startAt + wait.budget

\* A job whose timeout has passed sends nothing in a poll that begins later.
BeginsInTime ==
  poll.job = "FLUSH" /\ FlushTimeout > 0 /\ HasClock =>
    poll.at < flush.startAt + FlushTimeout

\* No callback of the transport runs longer than the three bounds that watch it
\* promise (operation deadline, wait budget, flush timeout), across a rollover of
\* the clock: each is computed from a sample taken before the callback.
AttemptsEndInTime == EndsByDeadline /\ EndsInWait /\ BeginsInTime

\* The panel counts as on only when the configured delay has passed since the
\* DISPLAY_ON callback returned, whoever sent it and polled since.
DelayIsFull == panel.guard = "READY" => now >= panel.litAt + DisplayOnDelay

\* No flush job, operation or wait times out before its time, and none gives up
\* for a clock that stands still before it iterated as often as its budget has
\* milliseconds, or as the cap: 32-bit sums of timeouts do not wrap.
NothingEndsEarly ==
  [][/\ flush'.error = "TIMEOUT" /\ IsFlushing =>
          flush.started /\ now >= flush.startAt + FlushTimeout
     /\ op'.ended = "DEADLINE" /\ OperationActive => now >= op.deadlineAt
     /\ flush'.error = "WAIT" /\ IsFlushing => now >= wait.startAt + wait.budget
     /\ (flush'.error = "STALL" /\ IsFlushing) \/ (op'.ended = "STALL" /\ OperationActive) =>
          /\ wait.stalled + 1 >= GuardFloor
          /\ wait.stalled + 1 >= wait.budget \/ wait.stalled + 1 >= GuardCap]_vars

\* Every blocking call returns, whether or not the clock moves.
WaitsEnd == wait.kind # "NONE" ~> wait.kind = "NONE"
=============================================================================
