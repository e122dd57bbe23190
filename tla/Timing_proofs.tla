--------------------------- MODULE Timing_proofs ---------------------------
(***************************************************************************)
(* Proofs about the timers of the driver, for every width of the clock,    *)
(* every start and horizon, and every setting of the delays and timeouts:  *)
(* the power-on delay is waited out, no attempt outlasts the bound it was  *)
(* given, and nothing ends for lack of time while there is time left.      *)
(*                                                                         *)
(* Time is a natural number and never wraps; the driver sees samples of it *)
(* that do.  The invariants say of which moment each kept sample is, and   *)
(* how far from now that moment can be, which is what unsigned subtraction *)
(* and the signed comparison of a deadline need to be right.               *)
(***************************************************************************)
EXTENDS Timing, TLAPS

-----------------------------------------------------------------------------
\* Arithmetic of the clock

LEMMA ModulusIsPositive == Modulus \in Nat /\ Modulus > 0 /\ Half \in Nat
  /\ 2 * Half = Modulus /\ Half > 0
  BY ClockAssumption DEF Half

\* What % and \div are; the modulus is a power of two for the code, any even
\* number here.
LEMMA ModRange ==
  ASSUME NEW a \in Int
  PROVE a % Modulus \in Words /\ a = Modulus * (a \div Modulus) + (a % Modulus)
        /\ a \div Modulus \in Int
  BY ClockAssumption DEF Words

\* A remainder is unique.
LEMMA NoMultiple ==
  ASSUME NEW k \in Int, Modulus * k < Modulus, Modulus * k > -Modulus
  PROVE  k = 0
<1> USE ModulusIsPositive
<1>1. ASSUME k >= 1 PROVE FALSE
  <2> DEFINE j == k - 1
  <2>1. j \in Nat /\ k = j + 1 BY <1>1
  <2>2. Modulus * k = Modulus * j + Modulus BY <2>1
  <2>3. Modulus * j >= 0 BY <2>1
  <2> QED BY <2>2, <2>3
<1>2. ASSUME k <= -1 PROVE FALSE
  <2> DEFINE j == -k - 1
  <2>1. j \in Nat /\ k = -j - 1 BY <1>2
  <2>2. Modulus * k = -(Modulus * j) - Modulus BY <2>1
  <2>3. Modulus * j >= 0 BY <2>1
  <2> QED BY <2>2, <2>3
<1> QED BY <1>1, <1>2

LEMMA ModUnique ==
  ASSUME NEW a \in Int, NEW q \in Int, NEW r \in Words, a = Modulus * q + r
  PROVE  a % Modulus = r
<1> USE ModulusIsPositive
<1> DEFINE p == a \div Modulus
<1>1. p \in Int /\ a % Modulus \in Words /\ a = Modulus * p + (a % Modulus) BY ModRange
<1>2. Modulus * (q - p) = (a % Modulus) - r BY <1>1 DEF Words
<1>3. q - p = 0 BY <1>1, <1>2, NoMultiple DEF Words
<1> QED BY <1>1, <1>3 DEF Words

\* A difference of samples is the difference of times, modulo the width of the clock.
LEMMA ElapsedOfSamples ==
  ASSUME NEW t \in Nat, NEW u \in Nat
  PROVE  Elapsed(Sample(t), Sample(u)) = (t - u) % Modulus
<1> DEFINE p == t \div Modulus
           q == u \div Modulus
           d == (t - u) \div Modulus
           r == (t - u) % Modulus
<1>1. p \in Int /\ Sample(t) \in Words /\ t = Modulus * p + Sample(t) BY ModRange DEF Sample
<1>2. q \in Int /\ Sample(u) \in Words /\ u = Modulus * q + Sample(u) BY ModRange DEF Sample
<1>3. d \in Int /\ r \in Words /\ t - u = Modulus * d + r BY ModRange
<1> HIDE DEF p, q, d, r
<1>4. Sample(t) - Sample(u) = Modulus * (d - p + q) + r
  <2>1. d - p \in Int BY <1>1, <1>3
  <2>2. Modulus * ((d - p) + q) = Modulus * (d - p) + Modulus * q
    BY <2>1, <1>2, ModulusIsPositive
  <2>3. Modulus * (d - p) = Modulus * d - Modulus * p BY <1>1, <1>3, ModulusIsPositive
  <2> DEFINE P == Modulus * p
             Q == Modulus * q
             D == Modulus * d
  <2>4. P \in Int /\ Q \in Int /\ D \in Int BY <1>1, <1>2, <1>3, ModulusIsPositive
  <2>5. Modulus * (d - p + q) = D - P + Q BY <2>2, <2>3
  <2>6. t = P + Sample(t) /\ u = Q + Sample(u) /\ t - u = D + r BY <1>1, <1>2, <1>3
  <2>7. Sample(t) \in Int /\ Sample(u) \in Int /\ r \in Int BY <1>1, <1>2, <1>3 DEF Words
  <2> HIDE DEF P, Q, D
  <2> QED BY <2>4, <2>5, <2>6, <2>7
<1>5. Sample(t) - Sample(u) \in Int BY <1>1, <1>2 DEF Words
<1>6. (Sample(t) - Sample(u)) % Modulus = r BY <1>3, <1>1, <1>2, <1>4, <1>5, ModUnique
<1> QED BY <1>6 DEF r, Elapsed

LEMMA ModOfSmall ==
  ASSUME NEW d \in Words PROVE d % Modulus = d
<1>1. d \in Int /\ d = Modulus * 0 + d BY ModulusIsPositive DEF Words
<1> QED BY <1>1, ModUnique

LEMMA ModOfNegative ==
  ASSUME NEW d \in 1..Modulus PROVE (-d) % Modulus = Modulus - d
<1>1. -d = Modulus * (-1) + (Modulus - d) /\ Modulus - d \in Words
  BY ModulusIsPositive DEF Words
<1> QED BY <1>1, ModUnique, ModulusIsPositive

\* However many times the clock wrapped, the driver never sees too much time.
LEMMA ElapsedIsAtMost ==
  ASSUME NEW t \in Nat, NEW u \in Nat, u <= t
  PROVE  Elapsed(Sample(t), Sample(u)) <= t - u
<1> DEFINE d == (t - u) \div Modulus
           r == (t - u) % Modulus
<1>1. d \in Int /\ r \in Words /\ t - u = Modulus * d + r BY ModRange
<1>2. d >= 0
  <2> SUFFICES ASSUME d <= -1 PROVE FALSE BY <1>1
  <2> DEFINE j == -d - 1
  <2> HIDE DEF d, r
  <2>1. j \in Nat /\ d = -j - 1 BY <1>1 DEF j
  <2> HIDE DEF j
  <2>2. Modulus * d = -(Modulus * j) - Modulus BY <2>1, ModulusIsPositive
  <2>3. Modulus * j >= 0 BY <2>1, ModulusIsPositive
  <2> QED BY <2>2, <2>3, <1>1, ModulusIsPositive DEF Words
<1> HIDE DEF d, r
<1>3. Modulus * d >= 0 BY <1>1, <1>2, ModulusIsPositive
<1>4. Elapsed(Sample(t), Sample(u)) = r BY ElapsedOfSamples DEF r
<1> QED BY <1>1, <1>3, <1>4, ModulusIsPositive DEF Words

\* It sees the right time when the clock cannot have wrapped all the way round.
LEMMA ElapsedIsExact ==
  ASSUME NEW t \in Nat, NEW u \in Nat, u <= t, t - u < Modulus
  PROVE  Elapsed(Sample(t), Sample(u)) = t - u
<1>1. t - u \in Words BY ModulusIsPositive DEF Words
<1>2. (t - u) % Modulus = t - u BY <1>1, ModOfSmall
<1> QED BY <1>2, ElapsedOfSamples

\* A deadline less than half a turn ahead is not seen as reached before it is.
LEMMA DeadlineNotEarly ==
  ASSUME NEW t \in Nat, NEW u \in Nat, u < t + Half, DeadlineReached(Sample(t), Sample(u))
  PROVE  u <= t
<1> SUFFICES ASSUME t < u PROVE FALSE OBVIOUS
<1>1. u - t \in 1..Modulus /\ t - u = -(u - t) BY ModulusIsPositive
<1>2. (t - u) % Modulus = Modulus - (u - t) BY <1>1, ModOfNegative
<1>3. Elapsed(Sample(t), Sample(u)) = Modulus - (u - t) BY <1>2, ElapsedOfSamples
<1> QED BY <1>1, <1>3, ModulusIsPositive DEF DeadlineReached, Signed

\* A deadline passed by less than half a turn is seen as reached.
LEMMA DeadlineNotLate ==
  ASSUME NEW t \in Nat, NEW u \in Nat, t < u + Half, ~DeadlineReached(Sample(t), Sample(u))
  PROVE  t < u
<1> SUFFICES ASSUME u <= t PROVE FALSE OBVIOUS
<1>1. Elapsed(Sample(t), Sample(u)) = t - u BY ElapsedIsExact, ModulusIsPositive
<1> QED BY <1>1, ModulusIsPositive DEF DeadlineReached, Signed

\* The saturated budget of polls is no less than the time it stands for.
LEMMA GuardIsPatient ==
  ASSUME NEW a \in Words, NEW b \in Words
  PROVE  /\ StallGuard(a, b) >= GuardFloor
         /\ StallGuard(a, b) >= a \/ StallGuard(a, b) >= GuardCap
         /\ StallGuard(a, b) \in Nat
<1> USE ModulusIsPositive DEF Words
<1>1. GuardFactor \in 1..(Modulus - 1) /\ GuardOffset \in 1..(Modulus - 1)
      /\ GuardFloor \in 1..(Modulus - 1) /\ GuardCap \in 1..(Modulus - 1)
      /\ GuardFloor <= GuardCap
  BY ClockAssumption
<1> DEFINE x == SaturatedAdd(a, b)
           y == SaturatedMul(x, GuardFactor)
           z == SaturatedAdd(y, GuardOffset)
<1>2. x \in Words /\ x >= a BY DEF SaturatedAdd
<1> HIDE DEF x
<1>3. y \in Nat /\ y >= x
  <2>1. CASE x > (Modulus - 1) \div GuardFactor
    BY <2>1, <1>1, <1>2 DEF SaturatedMul
  <2>2. CASE ~(x > (Modulus - 1) \div GuardFactor)
    <3>1. y = x * GuardFactor BY <2>2, <1>1 DEF SaturatedMul
    <3>2. x * GuardFactor = x + x * (GuardFactor - 1) BY <1>1, <1>2
    <3>3. x * (GuardFactor - 1) \in Nat BY <1>1, <1>2
    <3> QED BY <3>1, <3>2, <3>3, <1>2
  <2> QED BY <2>1, <2>2
<1> HIDE DEF y
<1>4. z \in Nat /\ (z >= y \/ z = Modulus - 1) BY <1>1, <1>3 DEF SaturatedAdd
<1>5. z \in Nat /\ z >= a BY <1>2, <1>3, <1>4
<1> HIDE DEF z
<1> QED BY <1>1, <1>5 DEF StallGuard, x, y, z

-----------------------------------------------------------------------------
\* Types

WaitMarks == {"NONE", "OFF", "READY", "INIT_DELAY", "SEND", "DELAY"} \X Nat

PanelType ==
  [guard : {"OFF", "INIT_DELAY", "READY"}, latched : BOOLEAN, since : Words, litAt : Nat]
OperationType ==
  [phase : {"NONE", "SEND", "DELAY"}, kind : Kinds, left : Nat, limited : BOOLEAN,
   deadline : Words, deadlineAt : Nat, latched : BOOLEAN, since : Words,
   litAt : Nat, ended : {"NONE", "DEADLINE", "STALL"}]
FlushType ==
  [left : Nat, started : BOOLEAN, since : Words, startAt : Nat,
   error : {"NONE", "TIMEOUT", "WAIT", "STALL"}]
PollType ==
  [job : {"NONE", "OPERATION", "FLUSH"}, left : Nat, timeout : 0..I2cTimeout, at : Nat]
WaitType ==
  [kind : {"NONE", "FLUSH", "OPERATION"}, at : {"HEAD", "JUDGE"}, start : Words,
   startAt : Nat, budget : Words, last : Words, current : Words,
   mark : WaitMarks, stalled : Nat]

TypeOK ==
  /\ now \in Nat /\ sampled \in Nat
  /\ panel \in PanelType
  /\ op \in OperationType
  /\ flush \in FlushType
  /\ poll \in PollType
  /\ wait \in WaitType

\* The last sample is not of the future.
TimeIsBounded == StartTime <= sampled /\ sampled <= now /\ now <= MaxTime

\* One job at a time: a poll is of the job that runs, and of the call that waits
\* for it.
OneJob ==
  /\ poll.job = "NONE" => poll = NoPoll
  /\ poll.job # "NONE" => poll.left > 0
  /\ poll.job = "OPERATION" => op.phase = "SEND"
  /\ poll.job = "FLUSH" => IsFlushing
  /\ wait.kind = "NONE" => wait = NoWait
  /\ poll.job # "NONE" /\ wait.kind # "NONE" => wait.at = "JUDGE"
  /\ op.phase = "SEND" => op.left > 0
  /\ IsFlushing => ~OperationActive
  /\ wait.kind = "FLUSH" => ~OperationActive
  /\ wait.kind = "OPERATION" => ~IsFlushing
  /\ op.limited => OperationActive /\ wait.kind = "NONE"
  /\ OperationActive => op.ended = "NONE"
  /\ IsFlushing => flush.error = "NONE"

-----------------------------------------------------------------------------
\* Invariants: of which moment every kept sample is

\* A call that waits for a flush keeps the moment it began at; one that waits for
\* an operation keeps the last sample it has given it.
WaitSamples ==
  /\ wait.kind = "FLUSH" =>
       /\ wait.start = Sample(wait.startAt)
       /\ StartTime <= wait.startAt /\ wait.startAt <= now
       /\ wait.budget > 0
  /\ wait.kind = "OPERATION" =>
       /\ wait.budget = 0
       /\ HasClock /\ wait.at = "HEAD" => wait.last = Sample(now)

\* The delay after DISPLAY_ON is measured from a moment at which it was sent.
GuardSamples ==
  /\ panel.litAt <= now
  /\ DisplayOnDelay = 0 => panel.guard # "INIT_DELAY"
  /\ HasClock /\ panel.guard = "INIT_DELAY" /\ panel.latched =>
       \E t \in panel.litAt..now : panel.since = Sample(t)

\* The same while it is a phase of the operation that sent it.
DelaySamples ==
  /\ op.litAt <= now
  /\ DisplayOnDelay = 0 => op.phase # "DELAY"
  /\ op.latched => op.phase = "DELAY"
  /\ HasClock /\ op.phase = "DELAY" /\ op.latched =>
       \E t \in op.litAt..now : op.since = Sample(t)

\* A flush is measured from its first poll; without a clock, from the sample of
\* the wait, which is not one of the time.
FlushSamples ==
  IsFlushing /\ flush.started =>
    /\ StartTime <= flush.startAt /\ flush.startAt <= now
    /\ \/ /\ flush.since = Sample(flush.startAt)
          /\ wait.kind = "FLUSH" /\ ~HasClock => flush.startAt <= wait.startAt
       \/ wait.kind = "FLUSH" /\ ~HasClock /\ flush.since = wait.start

\* A deadline is of a moment less than half a turn ahead, and while there is more
\* to send, every sample taken was before it.
DeadlineSamples ==
  op.limited =>
    /\ op.deadline = Sample(op.deadlineAt) /\ op.deadlineAt < now + Half
    /\ op.phase = "SEND" =>
         sampled < op.deadlineAt /\ (now <= sampled + Half \/ now <= op.deadlineAt)

\* The attempts of one poll take no more than half a turn of the clock.
ShortPolls == MaxTransactions * I2cTimeout <= Half

\* Calls are short against the clock: it does not wrap within the horizon, or the
\* attempts of a poll and the budget of a wait fit in half a turn.
ShortCalls ==
  \/ MaxTime < StartTime + Modulus
  \/ /\ ShortPolls
     /\ \A b \in Budgets \cup {DefaultWait} : b <= Half

\* A wait that goes on was within its budget at the last sample, and has not been
\* left alone for so long that it would not notice.
WaitSampledInTime ==
  HasClock /\ wait.kind = "FLUSH" =>
    /\ wait.budget \in Budgets \cup {DefaultWait, FlushTimeout}
    /\ sampled < wait.startAt + wait.budget
    /\ TimersRun => now <= wait.startAt + wait.budget \/ now <= sampled + Half

\* A flush was within its timeout at the last sample, and the rest of a poll does
\* not take it too far from that sample.
FlushSampledInTime ==
  HasClock /\ IsFlushing =>
    /\ flush.started /\ FlushTimeout > 0 => sampled < flush.startAt + FlushTimeout
    /\ ShortPolls =>
         /\ now <= sampled + Half
         /\ poll.job = "FLUSH" => now + poll.left * poll.timeout <= sampled + Half

-----------------------------------------------------------------------------
\* Types are kept

Typed == TypeOK /\ TimeIsBounded /\ OneJob

LEMMA Constants ==
  /\ Words \subseteq Nat /\ 0 \in Words
  /\ I2cTimeout \in Words /\ DefaultWait \in Words /\ Budgets \subseteq Words
  /\ I2cTimeout \in Nat /\ I2cTimeout > 0 /\ DefaultWait > 0
  /\ FlushTimeout \in Words /\ DisplayOnDelay \in Words
  /\ MaxTransactions \in Nat /\ MaxTransactions > 0
  /\ MaxLength \in Nat /\ MaxLength > 0
  /\ StartTime \in Nat /\ MaxTime \in Nat /\ StartTime <= MaxTime
  /\ HasClock \in BOOLEAN
BY TimingAssumption, ModulusIsPositive DEF Words

LEMMA SamplesAreWords ==
  ASSUME NEW t \in Int PROVE Sample(t) \in Words
BY ModRange DEF Sample

LEMMA ElapsedIsAWord ==
  ASSUME NEW s \in Words, NEW u \in Words PROVE Elapsed(s, u) \in Words
BY ModRange, ModulusIsPositive DEF Elapsed, Words

LEMMA ConstantStates ==
  /\ DarkPanel \in PanelType
  /\ NoOperation \in OperationType /\ EndedOperation("DEADLINE") \in OperationType
  /\ EndedOperation("STALL") \in OperationType
  /\ NoFlush \in FlushType
  /\ \A why \in {"TIMEOUT", "WAIT", "STALL"} : FailedFlush(why) \in FlushType
  /\ NoPoll \in PollType /\ NoWait \in WaitType
<1> USE Constants
<1>1. DarkPanel \in PanelType BY DEF DarkPanel, PanelType
<1>2. NoOperation \in OperationType BY DEF NoOperation, OperationType, Kinds
<1>3. NoFlush \in FlushType /\ NoPoll \in PollType
  BY DEF NoFlush, FlushType, NoPoll, PollType
<1>4. NoWait \in WaitType BY DEF NoWait, WaitType, WaitMarks
<1>5. ASSUME NEW why \in {"DEADLINE", "STALL"} PROVE EndedOperation(why) \in OperationType
  BY <1>2 DEF EndedOperation, OperationType
<1>6. ASSUME NEW why \in {"TIMEOUT", "WAIT", "STALL"} PROVE FailedFlush(why) \in FlushType
  BY <1>3 DEF FailedFlush, FlushType
<1> QED BY <1>1, <1>2, <1>3, <1>4, <1>5, <1>6

LEMMA TypedInit == Init => Typed
<1> SUFFICES ASSUME Init PROVE Typed OBVIOUS
<1> USE Constants DEF Init
<1>1. TypeOK /\ TimeIsBounded BY ConstantStates DEF TypeOK, TimeIsBounded
<1>2. OneJob
  BY DEF OneJob, NoOperation, NoFlush, NoPoll, NoWait, IsFlushing, OperationActive
<1> QED BY <1>1, <1>2 DEF Typed

LEMMA GuardTyped ==
  ASSUME NEW p \in PanelType, NEW s \in Words
  PROVE TickPowerOn(p, s) \in PanelType
BY DEF TickPowerOn, PanelType

LEMMA PollOperationTyped ==
  ASSUME Typed, NEW s \in Words, NEW n \in 1..MaxTransactions, PollOperationAt(s, n),
         poll = NoPoll
  PROVE  /\ panel' \in PanelType /\ op' \in OperationType /\ poll' \in PollType
         /\ now' = now /\ flush' = flush
         /\ op'.phase = "SEND" => op'.left > 0
         /\ op'.limited => op.limited /\ op'.phase # "NONE"
         /\ op'.phase # "NONE" => op'.ended = "NONE"
         /\ poll' = NoPoll
            \/ (poll'.job = "OPERATION" /\ poll'.left > 0 /\ op'.phase = "SEND")
<1> USE Constants, GuardTyped, ConstantStates
<1>0. panel \in PanelType /\ op \in OperationType /\ poll \in PollType /\ now \in Nat
  BY DEF Typed, TypeOK
<1>1. op.phase # "NONE" /\ op.ended = "NONE" /\ (op.phase = "SEND" => op.left > 0)
      /\ now' = now /\ flush' = flush
  BY DEF PollOperationAt, Typed, OneJob, OperationActive
<1>2. TickPowerOn(panel, s) \in PanelType BY <1>0
<1>3. CASE op.phase = "DELAY" /\ ~op.latched
  BY <1>0, <1>1, <1>2, <1>3 DEF PollOperationAt, OperationType
<1>4. CASE op.phase = "DELAY" /\ op.latched
  <2>1. [DarkPanel EXCEPT !.guard = "READY", !.litAt = op.litAt] \in PanelType
    BY <1>0 DEF PanelType, OperationType, DarkPanel
  <2> QED BY <1>0, <1>1, <1>2, <1>4, <2>1 DEF PollOperationAt, OperationType, NoOperation
<1>5. CASE op.phase = "SEND" /\ op.limited /\ DeadlineReached(s, op.deadline)
  BY <1>0, <1>1, <1>2, <1>5
  DEF PollOperationAt, OperationType, PanelAfter, EndedOperation, NoOperation
<1>6. CASE op.phase = "SEND" /\ ~(op.limited /\ DeadlineReached(s, op.deadline))
  <2>1. op' = op /\ panel' = TickPowerOn(panel, s)
        /\ poll' = [job |-> "OPERATION", left |-> AttemptsPerPoll(n), at |-> now,
                    timeout |-> IF op.limited
                                THEN AttemptTimeout(I2cTimeout, Elapsed(op.deadline, s))
                                ELSE I2cTimeout]
    BY <1>6 DEF PollOperationAt
  <2>2. AttemptsPerPoll(n) \in Nat /\ AttemptsPerPoll(n) > 0 BY DEF AttemptsPerPoll
  <2>3. Elapsed(op.deadline, s) \in Nat BY <1>0, ElapsedIsAWord DEF OperationType
  <2>4. poll'.timeout \in 0..I2cTimeout BY <2>1, <2>3 DEF AttemptTimeout
  <2> QED BY <1>0, <1>1, <1>2, <1>6, <2>1, <2>2, <2>4 DEF PollType, OperationType
<1> QED BY <1>1, <1>3, <1>4, <1>5, <1>6, <1>0 DEF OperationType

LEMMA PollFlushTyped ==
  ASSUME Typed, NEW s \in Words, NEW n \in 1..MaxTransactions,
         NEW timeout \in 0..I2cTimeout,
         PollFlushAt(s, n, timeout), poll = NoPoll
  PROVE  /\ panel' \in PanelType /\ flush' \in FlushType /\ poll' \in PollType
         /\ now' = now /\ op' = op
         /\ flush'.left # 0 => flush'.error = "NONE"
         /\ poll' = NoPoll \/ (poll'.job = "FLUSH" /\ poll'.left > 0 /\ flush'.left # 0)
<1> USE Constants, GuardTyped, ConstantStates
<1>0. panel \in PanelType /\ flush \in FlushType /\ poll \in PollType /\ now \in Nat
  BY DEF Typed, TypeOK
<1>1. flush.left # 0 /\ flush.error = "NONE" /\ now' = now /\ op' = op
      /\ panel' = TickPowerOn(panel, s) /\ panel' \in PanelType
  BY <1>0 DEF PollFlushAt, Typed, OneJob, IsFlushing
<1>2. CASE JobTimesOut(s)
  BY <1>0, <1>1, <1>2 DEF PollFlushAt, FailedFlush, NoFlush
<1>3. CASE ~JobTimesOut(s)
  <2>1. Started(s) \in FlushType /\ Started(s).left = flush.left
        /\ Started(s).error = "NONE"
    BY <1>0, <1>1 DEF Started, FlushType
  <2>2. flush' = Started(s) BY <1>3 DEF PollFlushAt
  <2>3. poll' = poll
        \/ poll' = [job |-> "FLUSH", left |-> n, timeout |-> timeout, at |-> now]
    BY <1>3 DEF PollFlushAt
  <2> QED BY <1>0, <1>1, <2>1, <2>2, <2>3 DEF PollType
<1> QED BY <1>2, <1>3

LEMMA TypedAttempt ==
  ASSUME Typed, NEW d \in 0..I2cTimeout, NEW ok \in BOOLEAN, Attempt(d, ok)
  PROVE  Typed'
<1> USE Constants, ConstantStates
<1> DEFINE last == (IF poll.job = "FLUSH" THEN flush.left ELSE op.left) = 1
           more == ok /\ ~last /\ poll.left > 1
<1>0. /\ now \in Nat /\ sampled \in Nat /\ panel \in PanelType /\ op \in OperationType
      /\ flush \in FlushType /\ poll \in PollType /\ wait \in WaitType
  BY DEF Typed, TypeOK
<1>1. /\ now' = now + d /\ sampled' = sampled /\ wait' = wait
      /\ poll # NoPoll /\ poll' = IF more THEN [poll EXCEPT !.left = @ - 1] ELSE NoPoll
      /\ poll.left > 0 /\ poll.job # "NONE" /\ now + d \in Nat
  BY <1>0 DEF Attempt, Typed, OneJob
<1>2. TimeIsBounded' BY <1>0, <1>1 DEF Attempt, Typed, TimeIsBounded
<1>3. poll' \in PollType
      /\ (poll'.job # "NONE" => more /\ poll'.job = poll.job /\ poll'.left > 0)
      /\ (poll'.job = "NONE" => poll' = NoPoll)
  <2>1. CASE more BY <1>0, <1>1, <2>1 DEF PollType
  <2>2. CASE ~more BY <1>1, <2>2 DEF NoPoll
  <2> QED BY <2>1, <2>2
<1>4. CASE poll.job = "FLUSH"
  <2>1. flush' = (IF ok THEN [flush EXCEPT !.left = @ - 1] ELSE NoFlush) /\ panel' = panel
        /\ op' = op
    BY <1>4 DEF Attempt
  <2>2. flush.left # 0 /\ flush.error = "NONE" BY <1>4 DEF Typed, OneJob, IsFlushing
  <2>3. flush' \in FlushType BY <2>1, <2>2, <1>0 DEF FlushType
  <2>4. flush'.error = "NONE" /\ (more => flush'.left # 0)
    BY <2>1, <2>2, <1>0, <1>4 DEF FlushType, NoFlush
  <2>5. TypeOK' BY <1>0, <1>1, <1>3, <2>1, <2>3 DEF TypeOK
  <2>6. OneJob'
    BY <1>0, <1>1, <1>3, <1>4, <2>1, <2>2, <2>4
    DEF Typed, OneJob, IsFlushing, OperationActive
  <2> QED BY <1>2, <2>5, <2>6 DEF Typed
<1>5. CASE poll.job = "OPERATION"
  <2>1. op.phase = "SEND" /\ op.left > 0 /\ flush.left = 0 /\ op.ended = "NONE"
    BY <1>5, <1>0 DEF Typed, OneJob, IsFlushing, OperationActive
  <2>2. CASE ok /\ ~last
    <3>1. op' = [op EXCEPT !.left = @ - 1] /\ panel' = panel /\ flush' = flush
      BY <1>5, <2>2 DEF Attempt
    <3>2. op' \in OperationType /\ op'.phase = "SEND" /\ op'.left > 0
          /\ op'.limited = op.limited /\ op'.ended = "NONE"
      BY <3>1, <2>1, <2>2, <1>5, <1>0 DEF OperationType
    <3>3. TypeOK' BY <1>0, <1>1, <1>3, <3>1, <3>2 DEF TypeOK
    <3>4. OneJob'
      BY <1>0, <1>1, <1>3, <1>5, <2>1, <3>1, <3>2
      DEF Typed, OneJob, IsFlushing, OperationActive
    <3> QED BY <1>2, <3>3, <3>4 DEF Typed
  <2>3. CASE ~(ok /\ ~last)
    <3>1. poll' = NoPoll /\ flush' = flush BY <1>1, <1>5, <2>3 DEF Attempt
    <3>2. /\ op' = NoOperation
             \/ op' = [op EXCEPT !.phase = "DELAY", !.left = 0, !.litAt = now + d]
          /\ panel' \in PanelType
      <4>1. [DarkPanel EXCEPT !.guard = "READY", !.litAt = now + d] \in PanelType
        BY <1>1 DEF PanelType, DarkPanel
      <4> QED BY <1>0, <1>5, <2>3, <4>1 DEF Attempt, PanelAfter
    <3>3. op' \in OperationType /\ op'.phase # "SEND" /\ op'.ended = "NONE"
          /\ (op'.limited => op.limited /\ op'.phase # "NONE")
      <4>1. CASE op' = NoOperation BY <4>1 DEF NoOperation
      <4>2. CASE op' = [op EXCEPT !.phase = "DELAY", !.left = 0, !.litAt = now + d]
        BY <4>2, <2>1, <1>0, <1>1 DEF OperationType
      <4> QED BY <3>2, <4>1, <4>2
    <3>4. TypeOK' BY <1>0, <1>1, <1>3, <3>1, <3>2, <3>3 DEF TypeOK
    <3>5. OneJob'
      BY <1>0, <1>1, <1>3, <1>5, <2>1, <3>1, <3>3
      DEF Typed, OneJob, IsFlushing, OperationActive, NoPoll
    <3> QED BY <1>2, <3>4, <3>5 DEF Typed
  <2> QED BY <2>2, <2>3
<1> QED BY <1>0, <1>1, <1>4, <1>5 DEF PollType, Typed, OneJob

LEMMA NewOperationTyped ==
  ASSUME Typed, NEW kind \in Kinds, NEW n \in Lengths, NEW limited \in BOOLEAN,
         NEW ahead \in Nat
  PROVE  LET o == NewOperation(kind, n, limited, ahead)
         IN  /\ o \in OperationType /\ ~o.latched
             /\ o.phase = "SEND" /\ o.left = n /\ o.left > 0 /\ o.limited = limited
             /\ o.deadline = Sample(now + ahead) /\ o.deadlineAt = now + ahead
             /\ o.litAt = 0 /\ o.ended = "NONE"
<1>1. now + ahead \in Nat /\ Sample(now + ahead) \in Words /\ n \in Nat /\ n > 0
  BY SamplesAreWords, Constants DEF Typed, TypeOK, Lengths
<1> QED BY <1>1, Constants DEF NewOperation, NoOperation, OperationType

LEMMA TypedOwner ==
  ASSUME Typed, OwnerCall
  PROVE  Typed'
<1> USE Constants, ConstantStates
<1>0. /\ now \in Nat /\ sampled \in Nat /\ panel \in PanelType /\ op \in OperationType
      /\ flush \in FlushType /\ poll \in PollType /\ wait \in WaitType
      /\ Sample(now) \in Words /\ TimeIsBounded /\ OneJob
  BY SamplesAreWords DEF Typed, TypeOK
<1>1. ASSUME NEW kind \in {"WAKE", "SCROLL"}, NEW n \in Lengths, RunOperation(kind, n)
      PROVE  Typed'
  <2>1. op' = NewOperation(kind, n, FALSE, 0) /\ op' \in OperationType
        /\ op'.phase = "SEND" /\ op'.left = n /\ n > 0 /\ ~op'.limited /\ op'.ended = "NONE"
    <3>1. FALSE \in BOOLEAN /\ 0 \in Nat /\ kind \in Kinds BY DEF Kinds
    <3>2. op' = NewOperation(kind, n, FALSE, 0) BY <1>1 DEF RunOperation
    <3>3. n \in Nat /\ n > 0 BY DEF Lengths
    <3> DEFINE o == NewOperation(kind, n, FALSE, 0)
    <3>4. /\ o \in OperationType
          /\ o.phase = "SEND" /\ o.left = n /\ o.limited = FALSE /\ o.ended = "NONE"
      <4>1. now + 0 \in Nat /\ Sample(now + 0) \in Words BY <1>0, SamplesAreWords
      <4>2. o = [NoOperation EXCEPT !.phase = "SEND", !.kind = kind, !.left = n,
                      !.limited = FALSE, !.deadline = Sample(now + 0), !.deadlineAt = now + 0]
        BY DEF NewOperation
      <4> HIDE DEF o
      <4>3. o.phase = "SEND" /\ o.left = n /\ o.limited = FALSE /\ o.ended = "NONE"
        BY <4>2 DEF NoOperation
      <4>4. NoOperation \in OperationType OBVIOUS
      <4>5. o \in OperationType BY <3>1, <3>3, <4>1, <4>2, <4>4 DEF OperationType
      <4> QED BY <4>3, <4>5
    <3> QED BY <3>2, <3>3, <3>4
  <2>2. NowMs(0) \in Words BY <1>0 DEF NowMs
  <2>3. wait' = [NoWait EXCEPT !.kind = "OPERATION", !.last = NowMs(0), !.start = NowMs(0)]
    BY <1>1 DEF RunOperation
  <2>4. wait' \in WaitType /\ wait'.kind = "OPERATION" BY <2>2, <2>3 DEF WaitType, NoWait
  <2>5. /\ now' = now /\ panel' = panel /\ flush' = flush /\ poll' = poll /\ poll = NoPoll
        /\ flush.left = 0 /\ (sampled' = now \/ sampled' = sampled)
    BY <1>1 DEF RunOperation, Idle, IsFlushing, SampledNow
  <2>6. TypeOK' BY <1>0, <2>1, <2>4, <2>5 DEF TypeOK
  <2>8. TimeIsBounded' BY <1>0, <2>5 DEF TimeIsBounded
  <2>7. OneJob' BY <1>0, <2>1, <2>4, <2>5 DEF OneJob, IsFlushing, OperationActive, NoPoll
  <2> QED BY <2>6, <2>7, <2>8 DEF Typed
<1>2. ASSUME NEW kind \in Kinds, NEW n \in Lengths, NEW limited \in BOOLEAN,
             NEW ahead \in 1..(Half - 1), StartOperation(kind, n, limited, ahead)
      PROVE  Typed'
  <2>1. op' = NewOperation(kind, n, limited, ahead) /\ op' \in OperationType
        /\ op'.phase = "SEND" /\ op'.left = n /\ n > 0 /\ op'.ended = "NONE"
    BY <1>2, NewOperationTyped, ModulusIsPositive DEF StartOperation, Lengths
  <2>2. /\ now' = now /\ panel' = panel /\ flush' = flush /\ poll' = poll /\ poll = NoPoll
        /\ flush.left = 0 /\ sampled' = now /\ wait' = wait /\ wait = NoWait
    BY <1>2 DEF StartOperation, Idle, IsFlushing
  <2>3. TypeOK' /\ TimeIsBounded' BY <1>0, <2>1, <2>2 DEF TypeOK, TimeIsBounded
  <2>4. OneJob' BY <1>0, <2>1, <2>2 DEF OneJob, IsFlushing, OperationActive, NoPoll, NoWait
  <2> QED BY <2>3, <2>4 DEF Typed
<1>3. ASSUME NEW n \in 1..MaxTransactions, PollOperation(n)
      PROVE  Typed'
  <2>1. PollOperationAt(Sample(now), n) /\ poll = NoPoll /\ wait = NoWait /\ wait' = wait
        /\ sampled' = now
        /\ OperationActive
    BY <1>3 DEF PollOperation, PollOperationAt
  <2>2. /\ panel' \in PanelType /\ op' \in OperationType /\ poll' \in PollType
        /\ now' = now /\ flush' = flush
        /\ op'.phase = "SEND" => op'.left > 0
        /\ op'.limited => op.limited /\ op'.phase # "NONE"
        /\ op'.phase # "NONE" => op'.ended = "NONE"
        /\ poll' = NoPoll
           \/ (poll'.job = "OPERATION" /\ poll'.left > 0 /\ op'.phase = "SEND")
    BY <2>1, <1>0, PollOperationTyped
  <2>3. TypeOK' /\ TimeIsBounded' BY <1>0, <2>1, <2>2 DEF TypeOK, TimeIsBounded
  <2>4. OneJob' BY <1>0, <2>1, <2>2 DEF OneJob, IsFlushing, OperationActive, NoPoll, NoWait
  <2> QED BY <2>3, <2>4 DEF Typed
<1>4. ASSUME NEW n \in 1..MaxTransactions, PollFlush(n)
      PROVE  Typed'
  <2>1. PollFlushAt(Sample(now), n, I2cTimeout) /\ poll = NoPoll /\ wait = NoWait
        /\ wait' = wait /\ sampled' = now /\ IsFlushing
    BY <1>4 DEF PollFlush, PollFlushAt
  <2>2. I2cTimeout \in 0..I2cTimeout OBVIOUS
  <2>3. /\ panel' \in PanelType /\ flush' \in FlushType /\ poll' \in PollType
        /\ now' = now /\ op' = op
        /\ flush'.left # 0 => flush'.error = "NONE"
        /\ poll' = NoPoll \/ (poll'.job = "FLUSH" /\ poll'.left > 0 /\ flush'.left # 0)
    BY <2>1, <2>2, <1>0, PollFlushTyped
  <2>4. TypeOK' /\ TimeIsBounded' BY <1>0, <2>1, <2>3 DEF TypeOK, TimeIsBounded
  <2>5. OneJob' BY <1>0, <2>1, <2>3 DEF OneJob, IsFlushing, OperationActive, NoPoll, NoWait
  <2> QED BY <2>4, <2>5 DEF Typed
<1>5. ASSUME NEW n \in Lengths, RequestFlush(n)
      PROVE  Typed'
  <2>1. /\ flush' = [NoFlush EXCEPT !.left = n] /\ n \in Nat
        /\ now' = now /\ sampled' = now /\ panel' = panel /\ op' = op /\ poll' = poll
        /\ wait' = wait /\ wait = NoWait /\ poll = NoPoll /\ op.phase = "NONE"
    BY <1>5 DEF RequestFlush, Idle, OperationActive, Lengths
  <2>2. flush' \in FlushType /\ flush'.error = "NONE" BY <2>1 DEF FlushType, NoFlush
  <2>3. TypeOK' /\ TimeIsBounded' BY <1>0, <2>1, <2>2 DEF TypeOK, TimeIsBounded
  <2>4. OneJob' BY <1>0, <2>1, <2>2 DEF OneJob, IsFlushing, OperationActive, NoPoll, NoWait
  <2> QED BY <2>3, <2>4 DEF Typed
<1>6. ASSUME NEW d \in 0..I2cTimeout, WakeNow(d)
      PROVE  Typed'
  <2>1. /\ now' = now + d /\ now + d \in Nat /\ sampled' = now + d
           /\ (d > 0 => now + d <= MaxTime)
        /\ op' = op /\ poll' = poll /\ wait' = wait /\ flush' = flush
        /\ panel' = [DarkPanel EXCEPT !.litAt = now + d,
                       !.guard = IF DisplayOnDelay = 0 THEN "READY" ELSE "INIT_DELAY"]
    BY <1>0, <1>6 DEF WakeNow
  <2>2. panel' \in PanelType BY <2>1 DEF PanelType, DarkPanel
  <2>3. TypeOK' /\ TimeIsBounded' BY <1>0, <2>1, <2>2 DEF TypeOK, TimeIsBounded
  <2>4. OneJob' BY <1>0, <2>1 DEF OneJob, IsFlushing, OperationActive
  <2> QED BY <2>3, <2>4 DEF Typed
<1>7. CASE TickGuard
  <2>1. /\ panel' = TickPowerOn(panel, Sample(now)) /\ sampled' = now /\ now' = now
        /\ op' = op /\ poll' = poll /\ wait' = wait /\ flush' = flush
    BY <1>7 DEF TickGuard
  <2>2. panel' \in PanelType BY <1>0, <2>1, GuardTyped
  <2>3. TypeOK' /\ TimeIsBounded' BY <1>0, <2>1, <2>2 DEF TypeOK, TimeIsBounded
  <2>4. OneJob' BY <1>0, <2>1 DEF OneJob, IsFlushing, OperationActive
  <2> QED BY <2>3, <2>4 DEF Typed
<1>8. ASSUME NEW timeout \in Budgets, WaitFlush(timeout)
      PROVE  Typed'
  <2> DEFINE budget == IF timeout # 0 THEN timeout
                       ELSE IF FlushTimeout # 0 THEN FlushTimeout ELSE DefaultWait
  <2>1. /\ wait' = [NoWait EXCEPT !.kind = "FLUSH", !.start = Sample(now), !.startAt = now,
                      !.last = Sample(now), !.budget = budget]
        /\ (sampled' = now \/ sampled' = sampled) /\ poll = NoPoll /\ op.phase = "NONE"
        /\ now' = now /\ op' = op /\ poll' = poll /\ flush' = flush /\ panel' = panel
    BY <1>8 DEF WaitFlush, OperationActive
  <2>2. budget \in Words OBVIOUS
  <2> HIDE DEF budget
  <2>3. wait' \in WaitType /\ wait'.kind = "FLUSH" BY <1>0, <2>1, <2>2 DEF WaitType, NoWait
  <2>4. TypeOK' /\ TimeIsBounded' BY <1>0, <2>1, <2>3 DEF TypeOK, TimeIsBounded
  <2>5. OneJob' BY <1>0, <2>1, <2>3 DEF OneJob, IsFlushing, OperationActive, NoPoll
  <2> QED BY <2>4, <2>5 DEF Typed
<1> QED BY <1>1, <1>2, <1>3, <1>4, <1>5, <1>6, <1>7, <1>8 DEF OwnerCall

LEMMA TypedElapse ==
  ASSUME Typed, Elapse
  PROVE  Typed'
BY Constants DEF Elapse, Typed, TypeOK, TimeIsBounded, OneJob, IsFlushing, OperationActive

LEMMA TypedWait ==
  ASSUME Typed, WaitStep
  PROVE  Typed'
<1> USE Constants, ConstantStates
<1>0. /\ now \in Nat /\ sampled \in Nat /\ panel \in PanelType /\ op \in OperationType
      /\ flush \in FlushType /\ poll \in PollType /\ wait \in WaitType
      /\ Sample(now) \in Words /\ TimeIsBounded /\ OneJob
  BY SamplesAreWords DEF Typed, TypeOK
<1>1. CASE WaitFlushTimesOut
  <2>1. /\ flush' = (IF IsFlushing THEN FailedFlush("WAIT") ELSE flush) /\ wait' = NoWait
        /\ (sampled' = now \/ sampled' = sampled) /\ poll = NoPoll
        /\ now' = now /\ op' = op /\ poll' = poll /\ panel' = panel
    BY <1>1 DEF WaitFlushTimesOut, SampledNow, Executing
  <2>2. flush' \in FlushType /\ flush'.left = 0
    BY <2>1, <1>0 DEF FailedFlush, NoFlush, IsFlushing
  <2>3. TypeOK' BY <1>0, <2>1, <2>2 DEF TypeOK
  <2>4. TimeIsBounded' BY <1>0, <2>1 DEF TimeIsBounded
  <2>5. OneJob'
    BY <1>0, <1>1, <2>1, <2>2
    DEF OneJob, IsFlushing, OperationActive, NoPoll, NoWait, WaitFlushTimesOut, Executing
  <2> QED BY <2>3, <2>4, <2>5 DEF Typed
<1>2. CASE WaitFlushTicks
  <2> DEFINE s == NowMs(wait.start)
             left == AttemptTimeout(I2cTimeout, wait.budget - Elapsed(s, wait.start))
  <2>1. /\ wait'
           = [wait EXCEPT !.at = "JUDGE", !.current = s, !.mark = <<panel.guard, flush.left>>]
        /\ (sampled' = now \/ sampled' = sampled) /\ poll = NoPoll
        /\ wait.kind = "FLUSH" /\ Elapsed(s, wait.start) < wait.budget
    BY <1>2 DEF WaitFlushTicks, SampledNow, Executing
  <2>2. s \in Words BY <1>0 DEF NowMs, WaitType
  <2>3. Elapsed(s, wait.start) \in Nat /\ wait.budget \in Nat
    BY <1>0, <2>2, ElapsedIsAWord DEF WaitType
  <2>4. left \in 0..I2cTimeout BY <2>1, <2>3 DEF AttemptTimeout
  <2>5. 1 \in 1..MaxTransactions OBVIOUS
  <2>6. wait' \in WaitType /\ wait'.kind = "FLUSH" /\ wait'.at = "JUDGE"
    <3>1. <<panel.guard, flush.left>> \in WaitMarks
      BY <1>0 DEF WaitMarks, PanelType, FlushType
    <3> HIDE DEF s
    <3> QED BY <1>0, <2>1, <2>2, <3>1 DEF WaitType
  <2>7. TimeIsBounded' \/ now' # now BY <1>0, <2>1 DEF TimeIsBounded
  <2>8. CASE IsFlushing
    <3>1. PollFlushAt(s, 1, left) BY <1>2, <2>8 DEF WaitFlushTicks
    <3>2. /\ panel' \in PanelType /\ flush' \in FlushType /\ poll' \in PollType
          /\ now' = now /\ op' = op
          /\ flush'.left # 0 => flush'.error = "NONE"
          /\ poll' = NoPoll \/ (poll'.job = "FLUSH" /\ poll'.left > 0 /\ flush'.left # 0)
      <4> HIDE DEF s, left
      <4> QED BY <3>1, <2>1, <2>2, <2>4, <2>5, PollFlushTyped
    <3>3. TypeOK' BY <1>0, <2>1, <2>6, <3>2 DEF TypeOK
    <3>4. OneJob'
      BY <1>0, <2>1, <2>6, <2>8, <3>2 DEF OneJob, IsFlushing, OperationActive, NoPoll
    <3> QED BY <2>7, <3>2, <3>3, <3>4 DEF Typed
  <2>9. CASE ~IsFlushing
    <3>1. /\ panel' = TickPowerOn(panel, s)
          /\ now' = now /\ op' = op /\ poll' = poll /\ flush' = flush
      BY <1>2, <2>9 DEF WaitFlushTicks
    <3>2. panel' \in PanelType BY <1>0, <2>2, <3>1, GuardTyped
    <3>3. TypeOK' BY <1>0, <2>1, <2>6, <3>1, <3>2 DEF TypeOK
    <3>4. OneJob'
      BY <1>0, <2>1, <2>6, <2>9, <3>1 DEF OneJob, IsFlushing, OperationActive, NoPoll
    <3> QED BY <2>7, <3>1, <3>3, <3>4 DEF Typed
  <2> QED BY <2>8, <2>9
<1>3. CASE WaitFlushReturns
  <2>1. wait' = NoWait /\ UNCHANGED <<now, sampled, panel, op, flush, poll>>
        /\ poll = NoPoll
    BY <1>3 DEF WaitFlushReturns, Executing
  <2>2. TypeOK' /\ TimeIsBounded' BY <1>0, <2>1 DEF TypeOK, TimeIsBounded
  <2>3. OneJob'
    BY <1>0, <1>3, <2>1
    DEF OneJob, IsFlushing, OperationActive, NoPoll, NoWait, WaitFlushReturns, Executing
  <2> QED BY <2>2, <2>3 DEF Typed
<1>4. CASE RunOperationPolls
  <2>1. /\ wait' = [wait EXCEPT !.at = "JUDGE", !.mark = <<op.phase, op.left>>]
        /\ sampled' = sampled /\ poll = NoPoll /\ wait.kind = "OPERATION"
        /\ PollOperationAt(wait.last, MaxTransactions) /\ OperationActive
    BY <1>4 DEF RunOperationPolls, Executing
  <2>2. <<op.phase, op.left>> \in WaitMarks
    BY <1>0, <2>1 DEF WaitMarks, OperationType, OperationActive
  <2>3. wait' \in WaitType /\ wait'.kind = "OPERATION" /\ wait'.at = "JUDGE"
    BY <1>0, <2>1, <2>2 DEF WaitType
  <2>4. wait.last \in Words /\ MaxTransactions \in 1..MaxTransactions BY <1>0 DEF WaitType
  <2>5. /\ panel' \in PanelType /\ op' \in OperationType /\ poll' \in PollType
        /\ now' = now /\ flush' = flush
        /\ op'.phase = "SEND" => op'.left > 0
        /\ op'.limited => op.limited /\ op'.phase # "NONE"
        /\ op'.phase # "NONE" => op'.ended = "NONE"
        /\ poll' = NoPoll
           \/ (poll'.job = "OPERATION" /\ poll'.left > 0 /\ op'.phase = "SEND")
    BY <2>1, <2>4, PollOperationTyped
  <2>6. TypeOK' /\ TimeIsBounded' BY <1>0, <2>1, <2>3, <2>5 DEF TypeOK, TimeIsBounded
  <2>7. OneJob' BY <1>0, <2>1, <2>3, <2>5 DEF OneJob, IsFlushing, OperationActive, NoPoll
  <2> QED BY <2>6, <2>7 DEF Typed
<1>5. CASE RunOperationReturns
  <2>1. wait' = NoWait /\ UNCHANGED <<now, sampled, panel, op, flush, poll>>
        /\ poll = NoPoll
    BY <1>5 DEF RunOperationReturns, Executing
  <2>2. TypeOK' /\ TimeIsBounded' BY <1>0, <2>1 DEF TypeOK, TimeIsBounded
  <2>3. OneJob'
    BY <1>0, <1>5, <2>1
    DEF OneJob, IsFlushing, OperationActive, NoPoll, NoWait, RunOperationReturns, Executing
  <2> QED BY <2>2, <2>3 DEF Typed
<1>6. CASE WaitGoesOn
  <2> DEFINE last == IF wait.kind = "FLUSH" THEN wait.current ELSE NowMs(0)
             stalled == IF Stood THEN wait.stalled + 1 ELSE 0
  <2>1. /\ wait' = [wait EXCEPT !.at = "HEAD", !.stalled = stalled, !.last = last]
        /\ (sampled' = now \/ sampled' = sampled) /\ poll = NoPoll
        /\ UNCHANGED <<now, panel, op, flush, poll>> /\ wait.kind # "NONE"
    BY <1>6 DEF WaitGoesOn, Judges, Executing, SampledNow
  <2>2. last \in Words /\ stalled \in Nat BY <1>0 DEF WaitType, NowMs
  <2> HIDE DEF last, stalled
  <2>3. wait' \in WaitType /\ wait'.kind = wait.kind BY <1>0, <2>1, <2>2 DEF WaitType
  <2>4. TypeOK' BY <1>0, <2>1, <2>3 DEF TypeOK
  <2>5. TimeIsBounded' BY <1>0, <2>1 DEF TimeIsBounded
  <2>6. OneJob' BY <1>0, <2>1, <2>3 DEF OneJob, IsFlushing, OperationActive, NoPoll
  <2> QED BY <2>4, <2>5, <2>6 DEF Typed
<1>7. CASE WaitStalls
  <2>1. wait' = NoWait /\ UNCHANGED <<now, sampled, poll>> /\ poll = NoPoll
    BY <1>7 DEF WaitStalls, Judges, Executing
  <2>2. CASE wait.kind = "FLUSH"
    <3>1. flush' = (IF IsFlushing THEN FailedFlush("STALL") ELSE flush) /\ panel' = panel
          /\ op' = op
      BY <1>7, <2>2 DEF WaitStalls
    <3>2. flush' \in FlushType /\ flush'.left = 0
      BY <3>1, <1>0 DEF FailedFlush, NoFlush, IsFlushing
    <3>3. TypeOK' /\ TimeIsBounded' BY <1>0, <2>1, <3>1, <3>2 DEF TypeOK, TimeIsBounded
    <3>4. OneJob'
      BY <1>0, <2>1, <2>2, <3>1, <3>2
      DEF OneJob, IsFlushing, OperationActive, NoPoll, NoWait
    <3> QED BY <3>3, <3>4 DEF Typed
  <2>3. CASE wait.kind # "FLUSH"
    <3>1. flush' = flush /\ panel' \in PanelType /\ op' = EndedOperation("STALL")
          /\ op' \in OperationType /\ op'.phase = "NONE" /\ ~op'.limited
      BY <1>0, <1>7, <2>3 DEF WaitStalls, PanelAfter, EndedOperation, NoOperation
    <3>3. TypeOK' /\ TimeIsBounded' BY <1>0, <2>1, <3>1 DEF TypeOK, TimeIsBounded
    <3>4. OneJob'
      BY <1>0, <2>1, <2>3, <3>1 DEF OneJob, IsFlushing, OperationActive, NoPoll, NoWait
    <3> QED BY <3>3, <3>4 DEF Typed
  <2> QED BY <2>2, <2>3
<1> QED BY <1>1, <1>2, <1>3, <1>4, <1>5, <1>6, <1>7 DEF WaitStep

LEMMA TypedStep == Typed /\ [Next]_vars => Typed'
<1> SUFFICES ASSUME Typed, [Next]_vars PROVE Typed' OBVIOUS
<1>1. CASE Elapse BY <1>1, TypedElapse
<1>2. CASE Attempts BY <1>2, TypedAttempt DEF Attempts
<1>3. CASE OwnerCall BY <1>3, TypedOwner
<1>4. CASE WaitStep BY <1>4, TypedWait
<1>5. CASE UNCHANGED vars
  BY <1>5 DEF vars, Typed, TypeOK, TimeIsBounded, OneJob, IsFlushing, OperationActive
<1> QED BY <1>1, <1>2, <1>3, <1>4, <1>5 DEF Next

\* The form of every step's proof: one case per action.
LEMMA Steps ==
  ASSUME [Next]_vars
  PROVE  \/ Elapse
         \/ \E d \in 0..I2cTimeout, ok \in BOOLEAN : Attempt(d, ok)
         \/ \E kind \in {"WAKE", "SCROLL"}, n \in Lengths : RunOperation(kind, n)
         \/ \E kind \in Kinds, n \in Lengths, limited \in BOOLEAN, ahead \in 1..(Half - 1) :
              StartOperation(kind, n, limited, ahead)
         \/ \E n \in 1..MaxTransactions : PollOperation(n)
         \/ \E n \in 1..MaxTransactions : PollFlush(n)
         \/ \E n \in Lengths : RequestFlush(n)
         \/ \E d \in 0..I2cTimeout : WakeNow(d)
         \/ TickGuard
         \/ \E timeout \in Budgets : WaitFlush(timeout)
         \/ WaitFlushTimesOut \/ WaitFlushTicks \/ WaitFlushReturns
         \/ RunOperationPolls \/ RunOperationReturns
         \/ WaitGoesOn \/ WaitStalls
         \/ UNCHANGED vars
BY DEF Next, Attempts, OwnerCall, WaitStep

LEMMA BudgetIsPositive ==
  ASSUME NEW timeout \in Budgets
  PROVE  LET budget == IF timeout # 0 THEN timeout
                       ELSE IF FlushTimeout # 0 THEN FlushTimeout ELSE DefaultWait
         IN  budget \in Words /\ budget > 0
            /\ budget \in Budgets \cup {FlushTimeout, DefaultWait}
BY Constants

LEMMA WaitSamplesStep ==
  ASSUME Typed, WaitSamples, [Next]_vars
  PROVE  WaitSamples'
<1> USE Constants
<1>0. /\ now \in Nat /\ sampled \in Nat /\ panel \in PanelType /\ op \in OperationType
      /\ flush \in FlushType /\ poll \in PollType /\ wait \in WaitType
      /\ TimeIsBounded /\ OneJob
  BY DEF Typed, TypeOK
<1>1. CASE Elapse
  BY <1>0, <1>1 DEF Elapse, WaitSamples, WaitType
<1>2. ASSUME NEW d \in 0..I2cTimeout, NEW ok \in BOOLEAN, Attempt(d, ok)
      PROVE  WaitSamples'
  <2>1. now' = now + d /\ wait' = wait /\ poll # NoPoll BY <1>2 DEF Attempt
  <2>2. wait.kind = "NONE" \/ wait.at = "JUDGE" BY <1>0, <2>1 DEF OneJob, PollType
  <2> QED BY <1>0, <2>1, <2>2 DEF WaitSamples, WaitType
<1>3. ASSUME NEW kind \in {"WAKE", "SCROLL"}, NEW n \in Lengths, RunOperation(kind, n)
      PROVE  WaitSamples'
  <2>1. now' = now
        /\ wait' = [NoWait EXCEPT !.kind = "OPERATION", !.last = NowMs(0), !.start = NowMs(0)]
    BY <1>3 DEF RunOperation
  <2> QED BY <2>1 DEF WaitSamples, NowMs, NoWait
<1>4. ASSUME NEW timeout \in Budgets, WaitFlush(timeout)
      PROVE  WaitSamples'
  <2> DEFINE budget == IF timeout # 0 THEN timeout
                       ELSE IF FlushTimeout # 0 THEN FlushTimeout ELSE DefaultWait
  <2>1. /\ wait' = [NoWait EXCEPT !.kind = "FLUSH", !.start = Sample(now), !.startAt = now,
                      !.last = Sample(now), !.budget = budget]
        /\ now' = now
    BY <1>4 DEF WaitFlush
  <2>2. budget > 0 BY BudgetIsPositive
  <2> HIDE DEF budget
  <2> QED BY <1>0, <2>1, <2>2 DEF WaitSamples, NoWait, TimeIsBounded
<1>5. ASSUME NEW d \in 0..I2cTimeout, WakeNow(d)
      PROVE  WaitSamples'
  BY <1>0, <1>5 DEF WakeNow, Idle, NoWait, WaitSamples
<1>6. CASE WaitFlushTicks
  <2>1. /\ wait' = [wait EXCEPT !.at = "JUDGE", !.current = NowMs(wait.start),
                      !.mark = <<panel.guard, flush.left>>]
        /\ wait.kind = "FLUSH"
    BY <1>6 DEF WaitFlushTicks, Executing
  <2>2. now' = now BY <1>6 DEF WaitFlushTicks, PollFlushAt
  <2> QED BY <1>0, <2>1, <2>2 DEF WaitSamples, WaitType
<1>7. CASE RunOperationPolls
  <2>1. /\ wait' = [wait EXCEPT !.at = "JUDGE", !.mark = <<op.phase, op.left>>]
        /\ wait.kind = "OPERATION" /\ now' = now
    BY <1>7 DEF RunOperationPolls, Executing, PollOperationAt
  <2> QED BY <1>0, <2>1 DEF WaitSamples, WaitType
<1>8. CASE WaitGoesOn
  <2> DEFINE last == IF wait.kind = "FLUSH" THEN wait.current ELSE NowMs(0)
  <2>1. /\ wait'
           = [wait EXCEPT !.at = "HEAD", !.stalled = IF Stood THEN @ + 1 ELSE 0, !.last = last]
        /\ now' = now
    BY <1>8 DEF WaitGoesOn
  <2>2. CASE wait.kind = "FLUSH" BY <1>0, <2>1, <2>2 DEF WaitSamples, WaitType
  <2>3. CASE wait.kind # "FLUSH" BY <1>0, <2>1, <2>3 DEF WaitSamples, WaitType, NowMs
  <2> QED BY <2>2, <2>3
<1>9. ASSUME wait' = NoWait PROVE WaitSamples'
  BY <1>9 DEF WaitSamples, NoWait
<1>10. ASSUME wait' = wait, now' = now PROVE WaitSamples'
  BY <1>10 DEF WaitSamples
<1>11. (\E kind \in Kinds, n \in Lengths, limited \in BOOLEAN, ahead \in 1..(Half - 1) :
         StartOperation(kind, n, limited, ahead)) \/ TickGuard
         \/ (\E n \in 1..MaxTransactions : PollOperation(n))
         \/ (\E n \in 1..MaxTransactions : PollFlush(n))
         \/ (\E n \in Lengths : RequestFlush(n)) \/ UNCHANGED vars
       => wait' = wait /\ now' = now
  BY DEF StartOperation, TickGuard, PollOperation, PollOperationAt, PollFlush, PollFlushAt,
     RequestFlush, vars
<1>12. WaitFlushTimesOut \/ WaitFlushReturns \/ RunOperationReturns
       \/ WaitStalls => wait' = NoWait
  BY DEF WaitFlushTimesOut, WaitFlushReturns, RunOperationReturns, WaitStalls
<1> QED BY Steps, <1>1, <1>2, <1>3, <1>4, <1>5, <1>6, <1>7, <1>8, <1>9, <1>10, <1>11, <1>12

-----------------------------------------------------------------------------
\* The power-on delay

\* A clock sample that the driver takes is one of the present time.
LEMMA WaitReadsTheClock ==
  ASSUME Typed, WaitSamples, HasClock
  PROVE  /\ NowMs(wait.start) = Sample(now)
         /\ Executing("OPERATION", "HEAD") => wait.last = Sample(now)
BY DEF NowMs, WaitSamples, Executing

\* A delay is timed by the clock, or there is none.  Without a clock a delay is
\* measured with the samples that the application passes to tick(), which are of
\* the time, and with those of the driver's own calls, which are 0.
GuardIsTimed == HasClock \/ DisplayOnDelay = 0

GuardInv == GuardSamples /\ DelaySamples /\ DelayIsFull

\* A timer that was latched at time t has run its full delay when it says so.
LEMMA FullDelay ==
  ASSUME NEW t \in Nat, NEW u \in Nat, t <= u,
         Elapsed(Sample(u), Sample(t)) >= DisplayOnDelay
  PROVE  u >= t + DisplayOnDelay
<1>1. Elapsed(Sample(u), Sample(t)) <= u - t BY ElapsedIsAtMost
<1>2. Sample(u) \in Words /\ Sample(t) \in Words BY SamplesAreWords
<1>3. Elapsed(Sample(u), Sample(t)) \in Nat BY <1>2, ElapsedIsAWord, Constants
<1> QED BY <1>1, <1>3, Constants

LEMMA TickKeepsGuard ==
  ASSUME Typed, GuardInv, GuardIsTimed, now' = now, NEW s,
         HasClock => s = Sample(now), panel' = TickPowerOn(panel, s)
  PROVE  GuardSamples' /\ DelayIsFull'
<1> USE Constants
<1>0. now \in Nat /\ panel \in PanelType /\ panel.litAt \in Nat /\ panel.litAt <= now
  BY DEF Typed, TypeOK, PanelType, GuardInv, GuardSamples
<1>1. CASE panel.guard # "INIT_DELAY"
  BY <1>0, <1>1 DEF TickPowerOn, GuardInv, GuardSamples, DelayIsFull
<1>t. panel.guard = "INIT_DELAY" => HasClock /\ s = Sample(now)
  BY DEF GuardIsTimed, GuardInv, GuardSamples
<1>2. CASE panel.guard = "INIT_DELAY" /\ ~panel.latched
  <2>1. panel' = [panel EXCEPT !.latched = TRUE, !.since = Sample(now)]
    BY <1>t, <1>2 DEF TickPowerOn
  <2>2. panel'.guard = "INIT_DELAY" /\ panel'.litAt = panel.litAt
        /\ panel'.since = Sample(now)
    BY <2>1, <1>0, <1>2 DEF PanelType
  <2>3. now \in panel.litAt..now BY <1>0
  <2> QED BY <1>0, <1>t, <1>2, <2>2, <2>3 DEF GuardInv, GuardSamples, DelayIsFull
<1>3. CASE panel.guard = "INIT_DELAY" /\ panel.latched
  <2>1. PICK t \in panel.litAt..now : panel.since = Sample(t)
    BY <1>t, <1>3 DEF GuardInv, GuardSamples
  <2>2. CASE Elapsed(Sample(now), panel.since) >= DisplayOnDelay
    <3>1. panel' = [panel EXCEPT !.guard = "READY", !.latched = FALSE]
      BY <1>t, <1>3, <2>2 DEF TickPowerOn
    <3>2. panel'.guard = "READY" /\ panel'.litAt = panel.litAt BY <3>1, <1>0 DEF PanelType
    <3>3. now >= t + DisplayOnDelay BY <1>0, <2>1, <2>2, FullDelay
    <3> QED BY <1>0, <2>1, <3>2, <3>3 DEF GuardSamples, DelayIsFull
  <2>3. CASE ~(Elapsed(Sample(now), panel.since) >= DisplayOnDelay)
    BY <1>0, <1>t, <1>3, <2>3 DEF TickPowerOn, GuardInv, GuardSamples, DelayIsFull
  <2> QED BY <2>2, <2>3
<1> QED BY <1>1, <1>2, <1>3

LEMMA DarkGuard ==
  ASSUME Typed', panel' = DarkPanel
  PROVE  GuardSamples' /\ DelayIsFull'
BY DEF Typed, TypeOK, DarkPanel, GuardSamples, DelayIsFull

LEMMA PollKeepsGuard ==
  ASSUME Typed, Typed', GuardInv, GuardIsTimed, NEW n, NEW s,
         HasClock => s = Sample(now), PollOperationAt(s, n)
  PROVE  GuardInv'
<1> USE Constants
<1>0. /\ now \in Nat /\ now' = now /\ op \in OperationType /\ op.litAt \in Nat
         /\ op.litAt <= now
  BY DEF PollOperationAt, Typed, TypeOK, OperationType, GuardInv, DelaySamples
<1>t. op.phase = "DELAY" => HasClock /\ s = Sample(now)
  BY DEF GuardIsTimed, GuardInv, DelaySamples
<1>1. CASE panel' = TickPowerOn(panel, s)
  <2>1. GuardSamples' /\ DelayIsFull' BY <1>0, <1>1, TickKeepsGuard
  <2>2. CASE op' = op BY <1>0, <2>1, <2>2 DEF GuardInv, DelaySamples
  <2>3. CASE op.phase = "DELAY" /\ ~op.latched
        /\ op' = [op EXCEPT !.latched = TRUE, !.since = s]
    <3>1. op'.phase = "DELAY" /\ op'.litAt = op.litAt /\ op'.since = Sample(now)
      BY <1>0, <1>t, <2>3 DEF OperationType
    <3>2. now \in op.litAt..now BY <1>0
    <3> QED BY <1>0, <1>t, <2>1, <2>3, <3>1, <3>2 DEF GuardInv, DelaySamples
  <2>4. CASE op' = EndedOperation("DEADLINE") \/ op' = NoOperation
    BY <1>0, <2>1, <2>4 DEF GuardInv, DelaySamples, EndedOperation, NoOperation
  <2> QED BY <1>1, <2>1, <2>2, <2>3, <2>4 DEF GuardInv, PollOperationAt
<1>2. CASE panel' # TickPowerOn(panel, s)
  <2>1. CASE op.phase = "DELAY" /\ op.latched /\ Elapsed(s, op.since) >= DisplayOnDelay
    <3>1. op' = NoOperation
          /\ panel' = [DarkPanel EXCEPT !.guard = "READY", !.litAt = op.litAt]
      BY <2>1 DEF PollOperationAt
    <3>2. PICK t \in op.litAt..now : op.since = Sample(t)
      BY <1>t, <2>1 DEF GuardInv, DelaySamples
    <3>3. now >= t + DisplayOnDelay BY <1>0, <1>t, <2>1, <3>2, FullDelay
    <3> QED
      BY <1>0, <1>t, <2>1, <3>1, <3>2, <3>3
      DEF GuardInv, GuardSamples, DelaySamples, DelayIsFull, DarkPanel, NoOperation
  <2>2. CASE op.phase = "SEND" /\ op' = EndedOperation("DEADLINE") /\ panel' = DarkPanel
    BY <1>0, <2>2, DarkGuard DEF GuardInv, DelaySamples, EndedOperation, NoOperation
  <2> QED BY <1>2, <2>1, <2>2 DEF PollOperationAt, PanelAfter
<1> QED BY <1>1, <1>2

LEMMA GuardInvStep ==
  ASSUME Typed, WaitSamples, GuardInv, GuardIsTimed, [Next]_vars
  PROVE  GuardInv'
<1> USE Constants
<1>0. /\ now \in Nat /\ panel \in PanelType /\ op \in OperationType
      /\ panel.litAt \in Nat /\ op.litAt \in Nat
      /\ GuardSamples /\ DelaySamples /\ DelayIsFull /\ Typed'
  BY TypedStep DEF Typed, TypeOK, PanelType, OperationType, GuardInv
\* Time may pass where the timers do not change.
<1>1. ASSUME panel' = panel, op' = op, now' \in Nat, now' >= now PROVE GuardInv'
  <2>1. GuardSamples' BY <1>0, <1>1 DEF GuardSamples
  <2>2. DelaySamples' BY <1>0, <1>1 DEF DelaySamples
  <2>3. DelayIsFull' BY <1>0, <1>1 DEF DelayIsFull
  <2> QED BY <2>1, <2>2, <2>3 DEF GuardInv
\* An operation that has not reached its delay measures nothing.
<1>2. ASSUME GuardSamples', DelayIsFull', op'.phase # "DELAY", op'.litAt <= now',
             ~op'.latched PROVE GuardInv'
  BY <1>2 DEF GuardInv, DelaySamples
<1>3. CASE Elapse BY <1>0, <1>1, <1>3 DEF Elapse
<1>4. ASSUME NEW d \in 0..I2cTimeout, NEW ok \in BOOLEAN, Attempt(d, ok)
      PROVE  GuardInv'
  <2>1. now' = now + d /\ now' \in Nat /\ now' >= now BY <1>0, <1>4 DEF Attempt
  <2>2. CASE panel' = panel /\ op' = op BY <1>1, <2>1, <2>2
  <2>3. CASE panel' = panel /\ op' = [op EXCEPT !.left = @ - 1]
    <3>1. op'.phase = op.phase /\ op'.litAt = op.litAt /\ op'.latched = op.latched
          /\ op'.since = op.since
      BY <1>0, <2>3 DEF OperationType
    <3>2. GuardSamples' /\ DelayIsFull' BY <1>0, <2>1, <2>3 DEF GuardSamples, DelayIsFull
    <3>3. DelaySamples' BY <1>0, <2>1, <3>1 DEF DelaySamples
    <3> QED BY <3>2, <3>3 DEF GuardInv
  <2>4. CASE op' = NoOperation /\ panel' \in {panel, DarkPanel}
    <3>1. GuardSamples' /\ DelayIsFull'
      BY <1>0, <2>1, <2>4, DarkGuard DEF GuardSamples, DelayIsFull
    <3> QED BY <1>2, <2>1, <2>4, <3>1 DEF NoOperation
  <2>5. CASE op' = NoOperation
        /\ panel' = [DarkPanel EXCEPT !.guard = "READY", !.litAt = now + d]
           /\ DisplayOnDelay = 0
    <3>1. GuardSamples' /\ DelayIsFull'
      BY <2>1, <2>5 DEF GuardSamples, DelayIsFull, DarkPanel
    <3> QED BY <1>2, <2>1, <2>5, <3>1 DEF NoOperation
  <2>6. CASE panel' = panel
        /\ op' = [op EXCEPT !.phase = "DELAY", !.left = 0, !.litAt = now + d]
           /\ DisplayOnDelay # 0
              /\ poll.job = "OPERATION"
    <3>1. op'.litAt = now' /\ op'.latched = op.latched BY <1>0, <2>1, <2>6 DEF OperationType
    <3>2. ~op.latched BY <1>0, <2>6 DEF DelaySamples, Typed, OneJob
    <3>3. GuardSamples' /\ DelayIsFull' BY <1>0, <2>1, <2>6 DEF GuardSamples, DelayIsFull
    <3>4. DelaySamples' BY <1>0, <2>1, <2>6, <3>1, <3>2 DEF DelaySamples
    <3> QED BY <3>3, <3>4 DEF GuardInv
  <2> QED BY <1>4, <2>2, <2>3, <2>4, <2>5, <2>6 DEF Attempt, PanelAfter
\* A new operation has no delay yet.
<1>5. ASSUME NEW kind, NEW n, NEW limited, NEW ahead, panel' = panel, now' = now,
             op' = NewOperation(kind, n, limited, ahead)
      PROVE  GuardInv'
  <2>1. op'.phase = "SEND" /\ op'.litAt = 0 /\ ~op'.latched
    BY <1>5 DEF NewOperation, NoOperation
  <2>2. GuardSamples' /\ DelayIsFull' BY <1>0, <1>5 DEF GuardSamples, DelayIsFull
  <2> QED BY <1>0, <1>2, <1>5, <2>1, <2>2
<1>6. ASSUME NEW kind \in {"WAKE", "SCROLL"}, NEW n \in Lengths, RunOperation(kind, n)
      PROVE  GuardInv'
  BY <1>5, <1>6 DEF RunOperation
<1>7. ASSUME NEW kind \in Kinds, NEW n \in Lengths, NEW limited \in BOOLEAN,
             NEW ahead \in 1..(Half - 1), StartOperation(kind, n, limited, ahead)
      PROVE  GuardInv'
  BY <1>5, <1>7 DEF StartOperation
\* A timer that ticks with a sample of the present.
<1>8. ASSUME NEW s, HasClock
      => s = Sample(now), panel' = TickPowerOn(panel, s), op' = op, now' = now
      PROVE  GuardInv'
  <2>1. GuardSamples' /\ DelayIsFull' BY <1>8, TickKeepsGuard
  <2>2. DelaySamples' BY <1>0, <1>8 DEF DelaySamples
  <2> QED BY <2>1, <2>2 DEF GuardInv
<1>9. ASSUME NEW n \in 1..MaxTransactions, PollOperation(n)
      PROVE  GuardInv'
  BY <1>0, <1>9, PollKeepsGuard DEF PollOperation
<1>10. ASSUME NEW n \in 1..MaxTransactions, PollFlush(n)
      PROVE  GuardInv'
  BY <1>8, <1>10 DEF PollFlush, PollFlushAt
<1>11. ASSUME NEW n \in Lengths, RequestFlush(n) PROVE GuardInv'
  BY <1>0, <1>1, <1>11 DEF RequestFlush
<1>12. ASSUME NEW d \in 0..I2cTimeout, WakeNow(d)
      PROVE  GuardInv'
  <2>1. now' = now + d /\ now' \in Nat /\ now' >= now /\ op' = op
        /\ panel' = [DarkPanel EXCEPT !.litAt = now + d,
                       !.guard = IF DisplayOnDelay = 0 THEN "READY" ELSE "INIT_DELAY"]
    BY <1>0, <1>12 DEF WakeNow
  <2>2. GuardSamples' /\ DelayIsFull' BY <2>1 DEF GuardSamples, DelayIsFull, DarkPanel
  <2>3. DelaySamples' BY <1>0, <2>1 DEF DelaySamples
  <2> QED BY <2>2, <2>3 DEF GuardInv
<1>13. CASE TickGuard BY <1>8, <1>13 DEF TickGuard
<1>14. ASSUME NEW timeout \in Budgets, WaitFlush(timeout) PROVE GuardInv'
  BY <1>0, <1>1, <1>14 DEF WaitFlush
<1>15. CASE WaitFlushTimesOut \/ WaitFlushReturns \/ RunOperationReturns \/ WaitGoesOn
  BY <1>0, <1>1, <1>15
  DEF WaitFlushTimesOut, WaitFlushReturns, RunOperationReturns, WaitGoesOn
<1>16. CASE WaitFlushTicks
  <2>1. HasClock => NowMs(wait.start) = Sample(now) BY WaitReadsTheClock
  <2>2. panel' = TickPowerOn(panel, NowMs(wait.start)) /\ op' = op /\ now' = now
    BY <1>16 DEF WaitFlushTicks, PollFlushAt
  <2> QED BY <1>8, <2>1, <2>2
<1>17. CASE RunOperationPolls
  <2>1. HasClock => wait.last = Sample(now)
    BY <1>17, WaitReadsTheClock DEF RunOperationPolls
  <2>2. PollOperationAt(wait.last, MaxTransactions) BY <1>17 DEF RunOperationPolls
  <2> QED BY <1>0, <2>1, <2>2, PollKeepsGuard
<1>18. CASE WaitStalls
  <2>1. CASE wait.kind = "FLUSH" BY <1>0, <1>1, <1>18, <2>1 DEF WaitStalls
  <2>2. CASE wait.kind # "FLUSH"
    <3>1. op' = EndedOperation("STALL") /\ now' = now
          /\ (panel' = panel \/ panel' = DarkPanel)
      BY <1>18, <2>2 DEF WaitStalls, PanelAfter
    <3>2. GuardSamples' /\ DelayIsFull'
      BY <1>0, <3>1, DarkGuard DEF GuardSamples, DelayIsFull
    <3> QED BY <1>0, <1>2, <3>1, <3>2 DEF EndedOperation, NoOperation
  <2> QED BY <2>1, <2>2
<1>19. CASE UNCHANGED vars BY <1>0, <1>1, <1>19 DEF vars
<1> QED
  BY Steps, <1>3, <1>4, <1>6, <1>7, <1>9, <1>10, <1>11, <1>12, <1>13, <1>14, <1>15, <1>16,
     <1>17, <1>18, <1>19

\* The panel is called ready only after the whole of its power-on delay, whichever
\* call latched the timer and whichever found it over, across any number of
\* rollovers of the clock.
THEOREM DelaysAreFull == ASSUME GuardIsTimed PROVE Spec => []DelayIsFull
<1>1. Init => Typed /\ WaitSamples /\ GuardInv
  <2> SUFFICES ASSUME Init PROVE WaitSamples /\ GuardInv BY TypedInit
  <2> QED
    BY Constants
    DEF Init, WaitSamples, GuardInv, GuardSamples, DelaySamples, DelayIsFull, NoWait,
        NoOperation, DarkPanel
<1>2. Typed /\ WaitSamples /\ GuardInv /\ [Next]_vars => (Typed /\ WaitSamples /\ GuardInv)'
  BY TypedStep, WaitSamplesStep, GuardInvStep
<1>3. GuardInv => DelayIsFull BY DEF GuardInv
<1> QED BY <1>1, <1>2, <1>3, PTL DEF Spec

LEMMA FlushSamplesStep ==
  ASSUME Typed, WaitSamples, FlushSamples, [Next]_vars
  PROVE  FlushSamples'
<1> USE Constants
<1>0. /\ now \in Nat /\ sampled \in Nat /\ flush \in FlushType /\ wait \in WaitType
         /\ flush.startAt \in Nat
      /\ Typed' /\ TimeIsBounded /\ OneJob
  BY TypedStep DEF Typed, TypeOK, FlushType
\* Steps that leave a job and the call that waits for it alone.
<1>1. ASSUME flush'.left # 0 => flush'.started = flush.started /\ flush'.since = flush.since
                                /\ flush'.startAt = flush.startAt /\ flush.left # 0,
             wait'.kind = "FLUSH" => wait.kind = "FLUSH",
             wait.kind = "FLUSH" => wait'.kind = "FLUSH",
             wait'.start = wait.start, wait'.startAt = wait.startAt, now' \in Nat,
               now' >= now
      PROVE  FlushSamples'
  <2> SUFFICES ASSUME flush'.left # 0, flush'.started
               PROVE  (/\ StartTime <= flush.startAt /\ flush.startAt <= now
                       /\ \/ /\ flush.since = Sample(flush.startAt)
                             /\ wait.kind = "FLUSH"
                                /\ ~HasClock => flush.startAt <= wait.startAt
                          \/ wait.kind = "FLUSH" /\ ~HasClock /\ flush.since = wait.start)'
    BY DEF FlushSamples, IsFlushing
  <2>1. flush.left # 0 /\ flush.started /\ flush'.since = flush.since
        /\ flush'.startAt = flush.startAt
    BY <1>1
  <2>2. /\ StartTime <= flush.startAt /\ flush.startAt <= now
        /\ \/ /\ flush.since = Sample(flush.startAt)
              /\ wait.kind = "FLUSH" /\ ~HasClock => flush.startAt <= wait.startAt
           \/ wait.kind = "FLUSH" /\ ~HasClock /\ flush.since = wait.start
    BY <2>1 DEF FlushSamples, IsFlushing
  <2>3. Sample(flush.startAt)' = Sample(flush.startAt) BY <2>1 DEF Sample
  <2> QED BY <1>0, <1>1, <2>1, <2>2, <2>3
<1>2. ASSUME flush'.left = 0 \/ ~flush'.started PROVE FlushSamples'
  BY <1>2 DEF FlushSamples, IsFlushing
\* A job is started with a sample of the present, or by waitFlush() without a clock.
<1>3. ASSUME NEW s, NEW n, NEW timeout, PollFlushAt(s, n, timeout),
             wait'.kind = wait.kind, wait'.start = wait.start, wait'.startAt = wait.startAt,
             \/ s = Sample(now) /\ (HasClock \/ wait.kind # "FLUSH")
             \/ ~HasClock /\ wait.kind = "FLUSH" /\ s = wait.start
      PROVE  FlushSamples'
  <2>1. CASE flush' = FailedFlush("TIMEOUT") BY <1>2, <2>1 DEF FailedFlush, NoFlush
  <2>2. CASE flush' = Started(s) /\ flush.started
    <3>1. flush' = flush /\ flush.left # 0 /\ now' = now
      BY <1>3, <2>2 DEF Started, PollFlushAt, IsFlushing
    <3> QED BY <1>0, <1>1, <1>3, <3>1
  <2>3. CASE flush' = Started(s) /\ ~flush.started
    <3>1. flush'.started /\ flush'.since = s /\ flush'.startAt = now /\ now' = now
      BY <1>0, <1>3, <2>3 DEF Started, FlushType, PollFlushAt
    <3>2. Sample(flush.startAt)' = Sample(now) BY <3>1 DEF Sample
    <3>3. \/ /\ flush'.since = Sample(flush.startAt)'
             /\ wait'.kind # "FLUSH" \/ HasClock
          \/ wait'.kind = "FLUSH" /\ ~HasClock /\ flush'.since = wait'.start
      BY <1>3, <3>1, <3>2
    <3>4. StartTime <= flush'.startAt /\ flush'.startAt <= now'
      BY <1>0, <3>1 DEF TimeIsBounded
    <3> QED BY <3>3, <3>4 DEF FlushSamples
  <2> QED BY <1>3, <2>1, <2>2, <2>3 DEF PollFlushAt
<1>4. CASE Elapse BY <1>0, <1>1, <1>4 DEF Elapse, IsFlushing
<1>5. ASSUME NEW d \in 0..I2cTimeout, NEW ok \in BOOLEAN, Attempt(d, ok)
      PROVE  FlushSamples'
  <2>1. now' = now + d /\ now' \in Nat /\ now' >= now /\ wait' = wait
    BY <1>0, <1>5 DEF Attempt
  <2>2. CASE flush' = flush BY <1>1, <2>1, <2>2
  <2>3. CASE poll.job = "FLUSH" /\ flush' = [flush EXCEPT !.left = @ - 1]
    <3>1. flush.left # 0 BY <1>0, <2>3 DEF OneJob, IsFlushing
    <3>2. flush'.started = flush.started /\ flush'.since = flush.since
          /\ flush'.startAt = flush.startAt
      BY <1>0, <2>3 DEF FlushType
    <3> QED BY <1>1, <2>1, <3>1, <3>2
  <2>4. CASE flush' = NoFlush BY <1>2, <2>4 DEF NoFlush
  <2> QED BY <1>5, <2>2, <2>3, <2>4 DEF Attempt
<1>6. ASSUME NEW n \in 1..MaxTransactions, PollFlush(n)
      PROVE  FlushSamples'
  BY <1>3, <1>6 DEF PollFlush, NoWait
<1>7. ASSUME NEW n \in Lengths, RequestFlush(n) PROVE FlushSamples'
  BY <1>2, <1>7 DEF RequestFlush, NoFlush
<1>8. ASSUME NEW timeout \in Budgets, WaitFlush(timeout) PROVE FlushSamples'
  <2>1. wait'.startAt = now /\ wait = NoWait /\ flush' = flush /\ now' = now
    BY <1>8 DEF WaitFlush, NoWait
  <2> QED BY <1>0, <2>1 DEF FlushSamples, IsFlushing, NoWait
<1>9. CASE WaitFlushTicks
  <2>1. /\ wait' = [wait EXCEPT !.at = "JUDGE", !.current = NowMs(wait.start),
                      !.mark = <<panel.guard, flush.left>>]
        /\ wait.kind = "FLUSH"
    BY <1>9 DEF WaitFlushTicks, Executing
  <2>2. wait'.kind = wait.kind /\ wait'.start = wait.start /\ wait'.startAt = wait.startAt
    BY <1>0, <2>1 DEF WaitType
  <2>3. CASE IsFlushing
    <3>1. \/ NowMs(wait.start) = Sample(now) /\ HasClock
          \/ ~HasClock /\ NowMs(wait.start) = wait.start
      BY DEF NowMs
    <3> QED BY <1>3, <1>9, <2>1, <2>2, <2>3, <3>1 DEF WaitFlushTicks
  <2>4. CASE ~IsFlushing
    BY <1>2, <1>9, <2>4 DEF WaitFlushTicks, IsFlushing
  <2> QED BY <2>3, <2>4
<1>10. CASE WaitFlushTimesOut \/ WaitFlushReturns
  BY <1>2, <1>10
  DEF WaitFlushTimesOut, WaitFlushReturns, FailedFlush, NoFlush, IsFlushing, WorkLeft
<1>11. CASE WaitGoesOn
  <2>1. flush' = flush /\ now' = now /\ wait'.kind = wait.kind /\ wait'.start = wait.start
        /\ wait'.startAt = wait.startAt
    BY <1>0, <1>11 DEF WaitGoesOn, WaitType
  <2> QED BY <1>0, <1>1, <2>1
<1>12. CASE WaitStalls /\ wait.kind = "FLUSH"
  BY <1>2, <1>12 DEF WaitStalls, FailedFlush, NoFlush, IsFlushing
\* No job is active around an operation.
<1>13. ASSUME flush' = flush, flush.left = 0 PROVE FlushSamples'
  BY <1>2, <1>13
<1>14. ASSUME NEW kind, NEW n, RunOperation(kind, n) PROVE FlushSamples'
  BY <1>13, <1>14 DEF RunOperation, Idle, IsFlushing
<1>15. ASSUME NEW kind, NEW n, NEW limited, NEW ahead,
       StartOperation(kind, n, limited, ahead)
       PROVE FlushSamples'
  BY <1>13, <1>15 DEF StartOperation, Idle, IsFlushing
<1>16. ASSUME NEW n, PollOperation(n) PROVE FlushSamples'
  BY <1>0, <1>13, <1>16 DEF PollOperation, PollOperationAt, OneJob, IsFlushing
<1>17. ASSUME NEW d, WakeNow(d) PROVE FlushSamples'
  BY <1>13, <1>17 DEF WakeNow, Idle, IsFlushing
<1>18. CASE TickGuard BY <1>13, <1>18 DEF TickGuard, Idle, IsFlushing
<1>19. CASE RunOperationPolls \/ RunOperationReturns \/ (WaitStalls /\ wait.kind # "FLUSH")
  BY <1>0, <1>13, <1>19
  DEF RunOperationPolls, RunOperationReturns, WaitStalls, Judges, Executing,
      PollOperationAt, OneJob, IsFlushing
<1>20. CASE UNCHANGED vars BY <1>0, <1>1, <1>20 DEF vars, IsFlushing
<1> QED
  BY Steps, <1>4, <1>5, <1>6, <1>7, <1>8, <1>9, <1>10, <1>11, <1>12, <1>14, <1>15, <1>16,
     <1>17, <1>18, <1>19, <1>20

\* A poll of an operation with a deadline makes one attempt: its sample is too
\* old for another.
OneTry == poll.job = "OPERATION" /\ op.limited => poll.left = 1

DeadlineInv == DeadlineSamples /\ EndsByDeadline /\ OneTry

-----------------------------------------------------------------------------
\* The deadline of an operation

LEMMA DeadlineStep ==
  ASSUME Typed, DeadlineInv, [Next]_vars
  PROVE  DeadlineInv'
<1> USE Constants, ModulusIsPositive
<1>0. /\ now \in Nat /\ sampled \in Nat /\ op \in OperationType /\ op.deadlineAt \in Nat
      /\ poll \in PollType /\ poll.timeout \in Nat
      /\ OneJob /\ TimeIsBounded /\ DeadlineSamples /\ EndsByDeadline /\ OneTry /\ Typed'
         /\ OneJob'
  BY TypedStep DEF Typed, TypeOK, OperationType, PollType, DeadlineInv
<1>1. ASSUME ~op'.limited PROVE DeadlineInv'
  BY <1>1 DEF DeadlineInv, DeadlineSamples, EndsByDeadline, OneTry
\* A blocking call and a flush do not run beside an operation with a deadline.
<1>2. ASSUME op' = op, ~op.limited PROVE DeadlineInv'
  BY <1>1, <1>2
<1>3. CASE Elapse
  <2>1. now' = now + 1 /\ op' = op /\ sampled' = sampled /\ poll' = poll /\ poll = NoPoll
        /\ (OperationActive => now < sampled + Half)
    BY <1>3 DEF Elapse, TimersRun
  <2>2. SUFFICES ASSUME op.limited PROVE DeadlineInv' BY <1>2, <2>1
  <2>3. OperationActive BY <1>0, <2>2 DEF OneJob
  <2>4. DeadlineSamples' BY <1>0, <2>1, <2>2, <2>3 DEF DeadlineSamples, Sample
  <2>5. EndsByDeadline' /\ OneTry' BY <2>1 DEF EndsByDeadline, OneTry, NoPoll
  <2> QED BY <2>4, <2>5 DEF DeadlineInv
<1>4. ASSUME NEW d \in 0..I2cTimeout, NEW ok \in BOOLEAN, Attempt(d, ok)
      PROVE  DeadlineInv'
  <2>1. now' = now + d /\ sampled' = sampled /\ d <= poll.timeout /\ d \in Nat
    BY <1>4 DEF Attempt
  <2>2. CASE poll.job = "FLUSH"
    <3>1. op' = op BY <1>4, <2>2 DEF Attempt
    <3>2. ~op.limited BY <1>0, <2>2 DEF OneJob
    <3> QED BY <1>2, <3>1, <3>2
  <2>3. CASE poll.job = "OPERATION" /\ op.limited
    <3>1. now' <= op.deadlineAt BY <1>0, <2>1, <2>3 DEF EndsByDeadline
    <3>2. \/ op' = NoOperation
          \/ op' = [op EXCEPT !.left = @ - 1]
          \/ op' = [op EXCEPT !.phase = "DELAY", !.left = 0, !.litAt = now + d]
      BY <1>4, <2>3 DEF Attempt
    <3>3. CASE op' = NoOperation BY <1>1, <3>3 DEF NoOperation
    <3>4. CASE op' # NoOperation
      <4>1. op'.deadline = op.deadline /\ op'.deadlineAt = op.deadlineAt
            /\ (op'.phase = "SEND" => op.phase = "SEND") /\ op'.limited = op.limited
        BY <1>0, <3>2, <3>4 DEF OperationType
      <4>2. Sample(op.deadlineAt)' = Sample(op.deadlineAt) BY <4>1 DEF Sample
      <4>3. DeadlineSamples' BY <1>0, <2>1, <2>3, <3>1, <4>1, <4>2 DEF DeadlineSamples
      <4>4. poll' = NoPoll BY <1>0, <1>4, <2>3 DEF Attempt, OneTry
      <4> QED BY <4>3, <4>4 DEF DeadlineInv, EndsByDeadline, OneTry, NoPoll
    <3> QED BY <3>3, <3>4
  <2>4. CASE poll.job = "OPERATION" /\ ~op.limited
    <3>1. \/ op' = NoOperation
          \/ op' = [op EXCEPT !.left = @ - 1]
          \/ op' = [op EXCEPT !.phase = "DELAY", !.left = 0, !.litAt = now + d]
      BY <1>4, <2>4 DEF Attempt
    <3>2. op'.limited = op.limited \/ op'.limited = FALSE
      <4>1. CASE op' = NoOperation BY <4>1 DEF NoOperation
      <4>2. CASE op' # NoOperation BY <1>0, <3>1, <4>2 DEF OperationType
      <4> QED BY <4>1, <4>2
    <3> QED BY <1>1, <2>4, <3>2
  <2> QED BY <1>0, <1>4, <2>2, <2>3, <2>4 DEF Attempt, OneJob, PollType
<1>5. ASSUME NEW kind \in {"WAKE", "SCROLL"}, NEW n \in Lengths, RunOperation(kind, n)
      PROVE  DeadlineInv'
  BY <1>1, <1>5 DEF RunOperation, NewOperation, NoOperation
<1>6. ASSUME NEW kind \in Kinds, NEW n \in Lengths, NEW limited \in BOOLEAN,
             NEW ahead \in 1..(Half - 1), StartOperation(kind, n, limited, ahead)
      PROVE  DeadlineInv'
  <2>1. /\ op'.deadline = Sample(now + ahead) /\ op'.deadlineAt = now + ahead
        /\ now' = now /\ sampled' = now /\ poll' = poll /\ poll = NoPoll
    BY <1>6 DEF StartOperation, Idle, NewOperation, NoOperation
  <2>2. Sample(op.deadlineAt)' = Sample(now + ahead) BY <2>1 DEF Sample
  <2>3. DeadlineSamples' BY <1>0, <2>1, <2>2 DEF DeadlineSamples
  <2> QED BY <2>1, <2>3 DEF DeadlineInv, EndsByDeadline, OneTry, NoPoll
<1>7. ASSUME NEW n \in 1..MaxTransactions, PollOperation(n)
      PROVE  DeadlineInv'
  <2>1. PollOperationAt(Sample(now), n) /\ sampled' = now /\ now' = now /\ OperationActive
        /\ poll = NoPoll
    BY <1>7 DEF PollOperation, PollOperationAt
  <2>2. CASE op'.phase # "SEND"
    <3>1. poll'.job # "OPERATION" BY <1>0, <2>2 DEF OneJob
    <3>2. op'.limited = FALSE
          \/ (/\ op'.limited = op.limited /\ op'.deadline = op.deadline
              /\ op'.deadlineAt = op.deadlineAt)
      <4>1. \/ op' = op \/ op' = [op EXCEPT !.latched = TRUE, !.since = Sample(now)]
            \/ op' = NoOperation \/ op' = EndedOperation("DEADLINE")
        BY <2>1 DEF PollOperationAt
      <4>2. CASE op' = NoOperation \/ op' = EndedOperation("DEADLINE")
        BY <4>2 DEF NoOperation, EndedOperation
      <4>3. CASE op' = op \/ op' = [op EXCEPT !.latched = TRUE, !.since = Sample(now)]
        BY <1>0, <4>3 DEF OperationType
      <4> QED BY <4>1, <4>2, <4>3
    <3>3. CASE op.limited /\ op'.deadline = op.deadline /\ op'.deadlineAt = op.deadlineAt
      <4>1. Sample(op.deadlineAt)' = Sample(op.deadlineAt) BY <3>3 DEF Sample
      <4> QED
        BY <1>0, <2>1, <2>2, <3>1, <3>3, <4>1
        DEF DeadlineInv, DeadlineSamples, EndsByDeadline, OneTry
    <3> QED BY <1>1, <3>2, <3>3
  <2>3. CASE op'.phase = "SEND"
    <3>1. /\ op' = op /\ ~(op.limited /\ DeadlineReached(Sample(now), op.deadline))
          /\ op.phase = "SEND"
          /\ poll' = [job |-> "OPERATION", left |-> AttemptsPerPoll(n), at |-> now,
                    timeout |->
                      IF op.limited
                      THEN AttemptTimeout(I2cTimeout, Elapsed(op.deadline, Sample(now)))
                      ELSE I2cTimeout]
      <4>1. op.phase = "SEND"
        <5>1. CASE op.phase = "DELAY" /\ ~op.latched
          <6>1. op' = [op EXCEPT !.latched = TRUE, !.since = Sample(now)]
            BY <2>1, <5>1 DEF PollOperationAt
          <6> QED BY <1>0, <2>3, <5>1, <6>1 DEF OperationType
        <5>2. CASE op.phase = "DELAY" /\ op.latched
          BY <2>1, <2>3, <5>2 DEF PollOperationAt, NoOperation
        <5> QED BY <2>1, <5>1, <5>2 DEF PollOperationAt
      <4> QED BY <2>1, <2>3, <4>1 DEF PollOperationAt, NoOperation, EndedOperation
    <3>2. SUFFICES ASSUME op.limited PROVE DeadlineInv' BY <1>2, <3>1
    <3>3. op.deadline = Sample(op.deadlineAt) /\ now < op.deadlineAt + Half
          /\ op.deadlineAt < now + Half
      BY <1>0, <3>1, <3>2 DEF DeadlineSamples, TimeIsBounded
    <3>4. now < op.deadlineAt BY <1>0, <3>1, <3>2, <3>3, DeadlineNotLate
    <3>5. Elapsed(op.deadline, Sample(now)) = op.deadlineAt - now
      BY <1>0, <3>3, <3>4, ElapsedIsExact
    <3>6. poll'.timeout > 0 /\ now + poll'.timeout <= op.deadlineAt
      BY <1>0, <3>1, <3>2, <3>4, <3>5 DEF AttemptTimeout
    <3>7. DeadlineSamples' BY <1>0, <2>1, <3>1, <3>3, <3>4 DEF DeadlineSamples, Sample
    <3>8. poll'.left = 1 BY <3>1, <3>2 DEF AttemptsPerPoll
    <3> QED BY <2>1, <3>1, <3>6, <3>7, <3>8 DEF DeadlineInv, EndsByDeadline, OneTry
  <2> QED BY <2>2, <2>3
\* Elsewhere no operation is active, or it has no deadline.
<1>8. ASSUME op' = op, ~OperationActive PROVE DeadlineInv'
  BY <1>0, <1>2, <1>8 DEF OneJob
<1>9. ASSUME NEW n, PollFlush(n) PROVE DeadlineInv'
  BY <1>0, <1>8, <1>9 DEF PollFlush, PollFlushAt, OneJob
<1>10. (\E n : RequestFlush(n)) \/ (\E d : WakeNow(d)) \/ TickGuard
       \/ (\E timeout : WaitFlush(timeout))
       => DeadlineInv'
  BY <1>8 DEF RequestFlush, WakeNow, TickGuard, WaitFlush, Idle
<1>11. CASE WaitFlushTimesOut \/ WaitFlushTicks
  BY <1>0, <1>8, <1>11 DEF WaitFlushTimesOut, WaitFlushTicks, PollFlushAt, Executing, OneJob
<1>12. CASE RunOperationPolls
  <2>1. ~op.limited /\ (op' = op \/ op'.limited = op.limited \/ ~op'.limited)
    BY <1>0, <1>12
    DEF RunOperationPolls, Executing, PollOperationAt, OneJob, NoOperation, EndedOperation,
        OperationType
  <2> QED BY <1>1, <1>2, <2>1
<1>13. CASE WaitFlushReturns \/ RunOperationReturns \/ WaitGoesOn
  <2>1. op' = op /\ wait.kind # "NONE"
    BY <1>13 DEF WaitFlushReturns, RunOperationReturns, WaitGoesOn, Judges, Executing
  <2> QED BY <1>0, <1>2, <2>1 DEF OneJob
<1>14. CASE WaitStalls
  <2>1. op' = op \/ op' = EndedOperation("STALL") BY <1>14 DEF WaitStalls
  <2>2. wait.kind # "NONE" BY <1>14 DEF WaitStalls, Judges, Executing
  <2> QED BY <1>0, <1>1, <1>2, <2>1, <2>2 DEF OneJob, EndedOperation, NoOperation
<1>15. CASE UNCHANGED vars
  BY <1>0, <1>15 DEF vars, DeadlineInv, DeadlineSamples, EndsByDeadline, OneTry, Sample
<1> QED
  BY Steps, <1>3, <1>4, <1>5, <1>6, <1>7, <1>9, <1>10, <1>11, <1>12, <1>13, <1>14, <1>15

-----------------------------------------------------------------------------
\* The timeout of a flush and the budget of a wait

OneAttempt == HasClock /\ wait.kind = "FLUSH" /\ poll.job = "FLUSH" => poll.left = 1

InTimeInv ==
  WaitSampledInTime /\ FlushSampledInTime /\ OneAttempt /\ EndsInWait /\ BeginsInTime

LEMMA ShortDistances ==
  ASSUME Typed, WaitSamples, FlushSamples, InTimeInv, ShortCalls, HasClock
  PROVE  /\ wait.kind = "FLUSH" /\ TimersRun /\ poll = NoPoll => now - wait.startAt < Modulus
         /\ IsFlushing /\ flush.started /\ FlushTimeout > 0 => now - flush.startAt < Modulus
<1> USE Constants, ModulusIsPositive
<1>0. /\ now \in Nat /\ sampled \in Nat /\ flush.startAt \in Nat /\ wait.startAt \in Nat
      /\ wait.budget \in Nat /\ wait.budget <= Modulus - 1
  BY DEF Typed, TypeOK, FlushType, WaitType, Words
<1>1. CASE MaxTime < StartTime + Modulus
  BY <1>0, <1>1 DEF Typed, TimeIsBounded, WaitSamples, FlushSamples
<1>2. CASE ShortPolls /\ \A b \in Budgets \cup {DefaultWait} : b <= Half
  <2>1. FlushTimeout <= Half BY TimingAssumption
  <2>2. ASSUME wait.kind = "FLUSH", TimersRun PROVE now - wait.startAt < Modulus
    <3>1. wait.budget <= Half BY <1>2, <2>1, <2>2 DEF InTimeInv, WaitSampledInTime
    <3> QED BY <1>0, <2>2, <3>1 DEF InTimeInv, WaitSampledInTime
  <2>3. ASSUME IsFlushing, flush.started, FlushTimeout > 0
        PROVE  now - flush.startAt < Modulus
    BY <1>0, <1>2, <2>1, <2>3 DEF InTimeInv, FlushSampledInTime
  <2> QED BY <2>2, <2>3
<1> QED BY <1>1, <1>2 DEF ShortCalls

\* A poll's first attempts leave time for its last.
LEMMA TimeOfPoll ==
  ASSUME NEW left \in Nat, left > 0, NEW timeout \in Nat
  PROVE  /\ timeout <= left * timeout
         /\ left * timeout = timeout + (left - 1) * timeout
         /\ (left - 1) * timeout >= 0
         /\ left * timeout \in Nat
<1>1. left * timeout = timeout + (left - 1) * timeout OBVIOUS
<1>2. left - 1 \in Nat OBVIOUS
<1>3. (left - 1) * timeout \in Nat BY <1>2
<1> QED BY <1>1, <1>3

LEMMA LongestPoll ==
  ASSUME NEW n \in 1..MaxTransactions, NEW timeout \in 0..I2cTimeout, ShortPolls
  PROVE  n * timeout <= Half /\ n * timeout \in Nat
<1> USE Constants, ModulusIsPositive
<1>1. n * timeout <= n * I2cTimeout BY n \in Nat, timeout \in Nat
<1>2. n * I2cTimeout <= MaxTransactions * I2cTimeout BY n \in Nat
<1> QED BY <1>1, <1>2 DEF ShortPolls

LEMMA FlushPollInTime ==
  ASSUME Typed, Typed', WaitSamples, FlushSamples, InTimeInv, ShortCalls, HasClock,
         NEW n \in 1..MaxTransactions, NEW timeout \in 0..I2cTimeout,
         PollFlushAt(Sample(now), n, timeout), poll = NoPoll, sampled' = now
  PROVE  FlushSampledInTime' /\ BeginsInTime'
<1> USE Constants, ModulusIsPositive
<1>0. /\ now \in Nat /\ flush \in FlushType /\ now' = now /\ IsFlushing
  BY DEF Typed, TypeOK, PollFlushAt
<1>1. CASE JobTimesOut(Sample(now))
  <2>1. flush'.left = 0 /\ poll' = NoPoll
    BY <1>1 DEF PollFlushAt, FailedFlush, NoFlush
  <2> QED BY <2>1 DEF FlushSampledInTime, BeginsInTime, IsFlushing, NoPoll
<1>2. CASE ~JobTimesOut(Sample(now))
  <2>1. /\ flush' = Started(Sample(now))
        /\ poll' = NoPoll
           \/ poll' = [job |-> "FLUSH", left |-> n, timeout |-> timeout, at |-> now]
    BY <1>2 DEF PollFlushAt
  <2>2. FlushTimeout > 0 => now < flush'.startAt + FlushTimeout
    <3>1. CASE ~flush.started
      BY <1>0, <2>1, <3>1 DEF Started, FlushType
    <3>2. CASE flush.started /\ FlushTimeout > 0
      <4>1. flush' = flush /\ Started(Sample(now)) = flush BY <2>1, <3>2 DEF Started
      <4>2. flush.since = Sample(flush.startAt) /\ flush.startAt <= now
            /\ flush.startAt \in Nat
        BY <1>0, <3>2 DEF FlushSamples, FlushType
      <4>3. now - flush.startAt < Modulus BY <1>0, <3>2, ShortDistances
      <4>4. Elapsed(Sample(now), flush.since) = now - flush.startAt
        BY <1>0, <4>2, <4>3, ElapsedIsExact
      <4> QED BY <1>0, <1>2, <3>2, <4>1, <4>2, <4>4 DEF JobTimesOut
    <3> QED BY <3>1, <3>2
  <2>3. ShortPolls /\ poll'.job = "FLUSH" => now + poll'.left * poll'.timeout <= now + Half
    <3>1. SUFFICES ASSUME ShortPolls, poll'.job = "FLUSH"
                   PROVE  now + poll'.left * poll'.timeout <= now + Half
      OBVIOUS
    <3>2. poll'.left = n /\ poll'.timeout = timeout BY <2>1, <3>1 DEF NoPoll
    <3> QED BY <1>0, <3>1, <3>2, LongestPoll
  <2>4. poll'.job = "FLUSH" => poll'.at = now BY <2>1 DEF NoPoll
  <2>5. FlushSampledInTime' BY <1>0, <2>2, <2>3 DEF FlushSampledInTime, ShortPolls
  <2>6. BeginsInTime' BY <2>2, <2>4 DEF BeginsInTime
  <2> QED BY <2>5, <2>6
<1> QED BY <1>1, <1>2

\* Without a job and a wait for it there is nothing to be late for.
LEMMA InTimeVacuous ==
  ASSUME Typed', wait'.kind # "FLUSH", flush'.left = 0
  PROVE  InTimeInv'
<1>1. poll'.job # "FLUSH" BY DEF Typed, OneJob, IsFlushing
<1> QED
  BY <1>1 DEF InTimeInv, WaitSampledInTime, FlushSampledInTime, OneAttempt, EndsInWait,
              BeginsInTime, IsFlushing

LEMMA InTimeAttempt ==
  ASSUME Typed, InTimeInv, HasClock, NEW d \in 0..I2cTimeout, NEW ok \in BOOLEAN,
         Attempt(d, ok),
         Typed'
  PROVE  InTimeInv'
<1> USE Constants, ModulusIsPositive
<1>0. /\ now \in Nat /\ sampled \in Nat /\ flush \in FlushType /\ poll \in PollType
      /\ poll.left \in Nat /\ poll.timeout \in Nat /\ wait \in WaitType
      /\ wait.startAt \in Nat /\ wait.budget \in Nat /\ OneJob /\ d \in Nat
  <2>1. poll \in PollType /\ wait \in WaitType BY DEF Typed, TypeOK
  <2>2. poll.left \in Nat /\ poll.timeout \in Nat BY <2>1 DEF PollType
  <2>3. wait.startAt \in Nat /\ wait.budget \in Nat BY <2>1 DEF WaitType
  <2>4. d \in Nat OBVIOUS
  <2> QED BY <2>1, <2>2, <2>3, <2>4 DEF Typed, TypeOK
<1>1. CASE poll.job = "OPERATION"
  <2>1. flush' = flush /\ flush.left = 0 /\ wait' = wait /\ wait.kind # "FLUSH"
    BY <1>0, <1>1 DEF Attempt, OneJob, IsFlushing, OperationActive
  <2> QED BY <2>1, InTimeVacuous
<1>2. CASE poll.job = "FLUSH"
  <2>1. /\ now' = now + d /\ d <= poll.timeout /\ wait' = wait /\ sampled' = sampled
        /\ flush.left # 0 /\ poll.left > 0 /\ panel' = panel /\ op' = op
        /\ flush' = (IF ok THEN [flush EXCEPT !.left = @ - 1] ELSE NoFlush)
    BY <1>0, <1>2 DEF Attempt, OneJob, IsFlushing
  <2>2. \/ poll' = NoPoll
        \/ poll' = [poll EXCEPT !.left = @ - 1] /\ poll.left > 1
    BY <1>2 DEF Attempt
  <2>3. WaitSampledInTime'
    <3>1. CASE wait.kind = "FLUSH"
      <4>1. now + poll.timeout <= wait.startAt + wait.budget
        BY <1>2, <3>1 DEF InTimeInv, EndsInWait
      <4> QED BY <1>0, <2>1, <3>1, <4>1 DEF InTimeInv, WaitSampledInTime
    <3>2. CASE wait.kind # "FLUSH" BY <2>1, <3>2 DEF WaitSampledInTime
    <3> QED BY <3>1, <3>2
  <2>4. OneAttempt' /\ EndsInWait'
    <3>1. CASE wait.kind = "FLUSH"
      <4>1. poll' = NoPoll BY <1>2, <2>2, <3>1 DEF InTimeInv, OneAttempt
      <4> QED BY <4>1 DEF OneAttempt, EndsInWait, NoPoll
    <3>2. CASE wait.kind # "FLUSH" BY <2>1, <3>2 DEF OneAttempt, EndsInWait
    <3> QED BY <3>1, <3>2
  <2>5. ASSUME flush'.left # 0
        PROVE  ok /\ flush'.started = flush.started /\ flush'.startAt = flush.startAt
    BY <1>0, <2>1, <2>5 DEF NoFlush, FlushType
  <2>6. poll'.job = "FLUSH" => poll'.left = poll.left - 1 /\ poll'.timeout = poll.timeout
        /\ poll'.at = poll.at
    <3>1. CASE poll' = NoPoll BY <3>1 DEF NoPoll
    <3>2. CASE poll' = [poll EXCEPT !.left = @ - 1] BY <1>0, <3>2 DEF PollType
    <3> QED BY <2>2, <3>1, <3>2
  <2>7. BeginsInTime'
    <3>1. CASE poll'.job = "FLUSH"
      <4>1. flush'.left # 0 BY <3>1 DEF Typed, OneJob, IsFlushing
      <4> QED BY <1>2, <2>5, <2>6, <3>1, <4>1 DEF InTimeInv, BeginsInTime
    <3>2. CASE poll'.job # "FLUSH" BY <3>2 DEF BeginsInTime
    <3> QED BY <3>1, <3>2
  <2>8. FlushSampledInTime'
    <3>1. SUFFICES ASSUME flush'.left # 0
                   PROVE  /\ flush'.started /\ FlushTimeout > 0 =>
                               sampled' < flush'.startAt + FlushTimeout
                          /\ ShortPolls =>
                               /\ now' <= sampled' + Half
                               /\ poll'.job = "FLUSH" =>
                                    now' + poll'.left * poll'.timeout <= sampled' + Half
      BY DEF FlushSampledInTime, IsFlushing, ShortPolls
    <3>2. FlushSampledInTime /\ IsFlushing BY <2>1 DEF InTimeInv, IsFlushing
    <3>3. flush'.started /\ FlushTimeout > 0 => sampled' < flush'.startAt + FlushTimeout
      BY <2>1, <2>5, <3>1, <3>2 DEF FlushSampledInTime
    <3>4. ASSUME ShortPolls
          PROVE  /\ now' <= sampled' + Half
                 /\ poll'.job = "FLUSH" =>
                      now' + poll'.left * poll'.timeout <= sampled' + Half
      <4> DEFINE rest == (poll.left - 1) * poll.timeout
      <4>1. now + poll.left * poll.timeout <= sampled + Half
        BY <1>2, <3>2, <3>4 DEF FlushSampledInTime
      <4>2. poll.left * poll.timeout = poll.timeout + rest /\ rest >= 0 /\ rest \in Int
        BY <1>0, <2>1, TimeOfPoll
      <4>3. poll'.job = "FLUSH" => poll'.left * poll'.timeout = rest BY <2>6
      <4> HIDE DEF rest
      <4> QED BY <1>0, <2>1, <4>1, <4>2, <4>3
    <3> QED BY <3>3, <3>4
  <2> QED BY <2>3, <2>4, <2>7, <2>8 DEF InTimeInv
<1> QED BY <1>0, <1>1, <1>2 DEF Attempt, OneJob, PollType

LEMMA InTimeStep ==
  ASSUME Typed, WaitSamples, FlushSamples, InTimeInv, ShortCalls, [Next]_vars
  PROVE  InTimeInv'
<1> USE Constants, ModulusIsPositive
<1>0. /\ now \in Nat /\ sampled \in Nat /\ flush \in FlushType /\ poll \in PollType
      /\ wait \in WaitType /\ wait.startAt \in Nat /\ wait.budget \in Nat
      /\ OneJob /\ TimeIsBounded /\ Typed'
  BY TypedStep DEF Typed, TypeOK, WaitType
<1>1. CASE ~HasClock
  BY <1>1
  DEF InTimeInv, WaitSampledInTime, FlushSampledInTime, OneAttempt, EndsInWait, BeginsInTime
<1>2. SUFFICES ASSUME HasClock PROVE InTimeInv' BY <1>1
<1>3. CASE Elapse
  <2>1. /\ now' = now + 1 /\ poll' = poll /\ poll = NoPoll /\ wait' = wait /\ flush' = flush
        /\ sampled' = sampled /\ panel' = panel /\ op' = op
           /\ (TimersRun => now < sampled + Half)
    BY <1>3 DEF Elapse
  <2>2. TimersRun' = TimersRun /\ IsFlushing' = IsFlushing
    BY <2>1 DEF TimersRun, IsFlushing, OperationActive
  <2>3. WaitSampledInTime' BY <1>0, <2>1, <2>2 DEF InTimeInv, WaitSampledInTime
  <2>4. poll'.job # "FLUSH" BY <2>1 DEF NoPoll
  <2>5. FlushSampledInTime'
    <3>1. IsFlushing => TimersRun BY DEF TimersRun
    <3>2. ShortPolls' = ShortPolls BY DEF ShortPolls
    <3> QED BY <1>0, <2>1, <2>2, <2>4, <3>1, <3>2 DEF InTimeInv, FlushSampledInTime
  <2> QED BY <2>3, <2>4, <2>5 DEF InTimeInv, OneAttempt, EndsInWait, BeginsInTime
<1>4. ASSUME NEW d \in 0..I2cTimeout, NEW ok \in BOOLEAN, Attempt(d, ok) PROVE InTimeInv'
  BY <1>0, <1>2, <1>4, InTimeAttempt
\* Calls that no flush and no wait for one is active around.
<1>5. ASSUME wait'.kind # "FLUSH", flush'.left = 0 PROVE InTimeInv'
  BY <1>0, <1>5, InTimeVacuous
<1>6. ASSUME NEW kind, NEW n, RunOperation(kind, n) PROVE InTimeInv'
  BY <1>5, <1>6 DEF RunOperation, Idle, IsFlushing, NoWait
<1>7. ASSUME NEW kind, NEW n, NEW limited, NEW ahead,
      StartOperation(kind, n, limited, ahead)
      PROVE InTimeInv'
  BY <1>5, <1>7 DEF StartOperation, Idle, IsFlushing, NoWait
<1>8. ASSUME NEW n, PollOperation(n) PROVE InTimeInv'
  BY <1>0, <1>5, <1>8 DEF PollOperation, PollOperationAt, OneJob, IsFlushing, NoWait
<1>9. ASSUME NEW d, WakeNow(d) PROVE InTimeInv'
  BY <1>5, <1>9 DEF WakeNow, Idle, IsFlushing, NoWait
<1>10. CASE TickGuard
  BY <1>5, <1>10 DEF TickGuard, Idle, IsFlushing, NoWait
<1>11. CASE RunOperationPolls
  <2>1. flush' = flush /\ OperationActive /\ wait.kind = "OPERATION"
        /\ wait' = [wait EXCEPT !.at = "JUDGE", !.mark = <<op.phase, op.left>>]
    BY <1>11 DEF RunOperationPolls, PollOperationAt, Executing
  <2>2. wait'.kind = "OPERATION" BY <1>0, <2>1 DEF WaitType
  <2> QED BY <1>0, <1>5, <2>1, <2>2 DEF OneJob, IsFlushing
<1>12. CASE RunOperationReturns
  BY <1>0, <1>5, <1>12 DEF RunOperationReturns, Executing, OneJob, IsFlushing, NoWait
<1>13. CASE WaitFlushReturns
  BY <1>5, <1>13 DEF WaitFlushReturns, WorkLeft, IsFlushing, NoWait
<1>14. CASE WaitFlushTimesOut
  BY <1>5, <1>14 DEF WaitFlushTimesOut, IsFlushing, NoWait, FailedFlush, NoFlush
<1>15. CASE WaitStalls
  <2>1. CASE wait.kind = "FLUSH"
    BY <1>5, <1>15, <2>1 DEF WaitStalls, IsFlushing, NoWait, FailedFlush, NoFlush
  <2>2. CASE wait.kind # "FLUSH"
    BY <1>0, <1>5, <1>15, <2>2 DEF WaitStalls, Judges, Executing, OneJob, IsFlushing, NoWait
  <2> QED BY <2>1, <2>2
\* Calls that sample the clock.
<1>16. ASSUME NEW n \in 1..MaxTransactions, PollFlush(n) PROVE InTimeInv'
  <2>1. PollFlushAt(Sample(now), n, I2cTimeout) /\ poll = NoPoll /\ wait = NoWait
        /\ wait' = wait
        /\ sampled' = now
    BY <1>16 DEF PollFlush
  <2>2. I2cTimeout \in 0..I2cTimeout OBVIOUS
  <2>3. FlushSampledInTime' /\ BeginsInTime' BY <1>0, <1>2, <2>1, <2>2, FlushPollInTime
  <2>4. wait'.kind # "FLUSH" BY <2>1 DEF NoWait
  <2> QED BY <2>3, <2>4 DEF InTimeInv, WaitSampledInTime, OneAttempt, EndsInWait
<1>17. ASSUME NEW n \in Lengths, RequestFlush(n) PROVE InTimeInv'
  <2>1. /\ flush' = [NoFlush EXCEPT !.left = n] /\ now' = now /\ sampled' = now
        /\ poll' = NoPoll /\ wait' = NoWait
    BY <1>17 DEF RequestFlush, Idle
  <2>2. ~flush'.started BY <2>1 DEF NoFlush
  <2> QED
    BY <1>0, <2>1, <2>2 DEF InTimeInv, WaitSampledInTime, FlushSampledInTime, OneAttempt,
       EndsInWait, BeginsInTime, NoPoll, NoWait
<1>18. ASSUME NEW timeout \in Budgets, WaitFlush(timeout) PROVE InTimeInv'
  <2> DEFINE budget == IF timeout # 0 THEN timeout
                       ELSE IF FlushTimeout # 0 THEN FlushTimeout ELSE DefaultWait
  <2>1. /\ wait' = [NoWait EXCEPT !.kind = "FLUSH", !.start = Sample(now), !.startAt = now,
                      !.last = Sample(now), !.budget = budget]
        /\ now' = now /\ flush' = flush /\ poll' = poll /\ poll = NoPoll
        /\ (sampled' = now \/ sampled' = sampled) /\ (IsFlushing => sampled' = sampled)
    BY <1>18 DEF WaitFlush, TimersRun
  <2>2. budget \in Words /\ budget > 0
        /\ budget \in Budgets \cup {DefaultWait, FlushTimeout}
    BY BudgetIsPositive
  <2> HIDE DEF budget
  <2>3. wait'.startAt = now /\ wait'.budget = budget BY <2>1 DEF NoWait
  <2>4. budget \in Nat BY <2>2
  <2>5. WaitSampledInTime'
    BY <1>0, <2>1, <2>2, <2>3, <2>4 DEF WaitSampledInTime, TimeIsBounded
  <2>6. poll'.job # "FLUSH" BY <2>1 DEF NoPoll
  <2>7. FlushSampledInTime'
    BY <1>0, <2>1, <2>6 DEF InTimeInv, FlushSampledInTime, IsFlushing, ShortPolls
  <2> QED BY <2>5, <2>6, <2>7 DEF InTimeInv, OneAttempt, EndsInWait, BeginsInTime
<1>19. CASE WaitFlushTicks
  <2> DEFINE elapsed == Elapsed(Sample(now), wait.start)
             timeout == AttemptTimeout(I2cTimeout, wait.budget - elapsed)
  <2>1. /\ wait' = [wait EXCEPT !.at = "JUDGE", !.current = Sample(now),
                      !.mark = <<panel.guard, flush.left>>]
        /\ wait.kind = "FLUSH" /\ sampled' = now /\ poll = NoPoll /\ WorkLeft
        /\ elapsed < wait.budget
    BY <1>2, <1>19 DEF WaitFlushTicks, Executing, NowMs, SampledNow
  <2>2. wait'.kind = "FLUSH" /\ wait'.startAt = wait.startAt /\ wait'.budget = wait.budget
    BY <1>0, <2>1 DEF WaitType
  <2>3. TimersRun BY <2>1 DEF WorkLeft, TimersRun
  <2>4. now - wait.startAt < Modulus BY <1>2, <2>1, <2>3, ShortDistances
  <2>5. elapsed = now - wait.startAt /\ wait.startAt <= now
    BY <1>0, <2>1, <2>4, ElapsedIsExact DEF WaitSamples
  <2> HIDE DEF elapsed
  <2>6. now < wait.startAt + wait.budget BY <1>0, <2>1, <2>5
  <2>7. now' = now BY <1>19 DEF WaitFlushTicks, PollFlushAt
  <2>8. WaitSampledInTime' BY <1>0, <2>1, <2>2, <2>6, <2>7 DEF InTimeInv, WaitSampledInTime
  <2>9. CASE IsFlushing
    <3>1. PollFlushAt(Sample(now), 1, timeout)
      BY <1>2, <1>19, <2>9 DEF WaitFlushTicks, NowMs, elapsed
    <3>2. timeout \in 0..I2cTimeout /\ timeout > 0
          /\ now + timeout <= wait.startAt + wait.budget
      BY <1>0, <2>5, <2>6 DEF AttemptTimeout
    <3> HIDE DEF timeout
    <3>3. 1 \in 1..MaxTransactions OBVIOUS
    <3>4. FlushSampledInTime' /\ BeginsInTime'
      BY <1>0, <1>2, <2>1, <3>1, <3>2, <3>3, FlushPollInTime
    <3>5. poll'.job = "FLUSH" => poll'.left = 1 /\ poll'.timeout = timeout
      BY <2>1, <3>1 DEF PollFlushAt, NoPoll
    <3>6. OneAttempt' /\ EndsInWait' BY <2>2, <2>7, <3>2, <3>5 DEF OneAttempt, EndsInWait
    <3> QED BY <2>8, <3>4, <3>6 DEF InTimeInv
  <2>10. CASE ~IsFlushing
    <3>1. poll' = NoPoll /\ flush' = flush /\ flush.left = 0
      BY <1>19, <2>1, <2>10 DEF WaitFlushTicks, IsFlushing
    <3> QED
      BY <2>8, <3>1 DEF InTimeInv, FlushSampledInTime, OneAttempt, EndsInWait, BeginsInTime,
         NoPoll, IsFlushing
  <2> QED BY <2>9, <2>10
<1>20. CASE WaitGoesOn
  <2>1. CASE wait.kind # "FLUSH"
    <3>1. wait.kind = "OPERATION" /\ wait'.kind = wait.kind /\ flush' = flush
      BY <1>0, <1>20, <2>1 DEF WaitGoesOn, Judges, Executing, WaitType
    <3> QED BY <1>0, <1>5, <3>1 DEF OneJob, IsFlushing
  <2>2. CASE wait.kind = "FLUSH"
    <3>1. UNCHANGED <<now, sampled, panel, op, flush, poll>> /\ poll = NoPoll
      BY <1>20, <2>2 DEF WaitGoesOn, Judges, Executing
    <3>2. wait'.kind = wait.kind /\ wait'.startAt = wait.startAt
          /\ wait'.budget = wait.budget
      BY <1>0, <1>20 DEF WaitGoesOn, WaitType
    <3> QED
      BY <1>0, <3>1, <3>2 DEF InTimeInv, WaitSampledInTime, FlushSampledInTime, OneAttempt,
          EndsInWait, BeginsInTime, NoPoll, IsFlushing, TimersRun, OperationActive,
          ShortPolls
  <2> QED BY <2>1, <2>2
<1>21. CASE UNCHANGED vars
  BY <1>21 DEF vars, InTimeInv, WaitSampledInTime, FlushSampledInTime, OneAttempt,
       EndsInWait, BeginsInTime, IsFlushing, TimersRun, OperationActive, ShortPolls
<1> QED
  BY Steps, <1>3, <1>4, <1>6, <1>7, <1>8, <1>9, <1>10, <1>11, <1>12, <1>13, <1>14, <1>15,
           <1>16, <1>17, <1>18, <1>19, <1>20, <1>21

\* An attempt on the bus ends by the deadline of its operation and within the
\* budget of the wait that makes it, and a poll that begins after the timeout of
\* its flush makes none, across any number of rollovers of the clock.
THEOREM AttemptsEndOnTime == ASSUME ShortCalls PROVE Spec => []AttemptsEndInTime
<1> DEFINE Inv == Typed /\ WaitSamples /\ FlushSamples /\ DeadlineInv /\ InTimeInv
<1>1. Init => Inv
  <2> SUFFICES ASSUME Init PROVE WaitSamples /\ FlushSamples /\ DeadlineInv /\ InTimeInv
    BY TypedInit
  <2>1. WaitSamples /\ FlushSamples
    BY DEF Init, WaitSamples, FlushSamples, IsFlushing, NoWait, NoFlush
  <2>2. DeadlineInv
    BY DEF Init, DeadlineInv, DeadlineSamples, EndsByDeadline, OneTry, NoOperation
  <2>3. InTimeInv
    BY DEF Init, InTimeInv, WaitSampledInTime, FlushSampledInTime, OneAttempt, EndsInWait,
         BeginsInTime, IsFlushing, NoWait, NoFlush, NoPoll
  <2> QED BY <2>1, <2>2, <2>3
<1>2. Inv /\ [Next]_vars => Inv'
  BY TypedStep, WaitSamplesStep, FlushSamplesStep, DeadlineStep, InTimeStep
<1>3. Inv => AttemptsEndInTime BY DEF DeadlineInv, InTimeInv, AttemptsEndInTime
<1> QED BY <1>1, <1>2, <1>3, PTL DEF Spec

-----------------------------------------------------------------------------
-----------------------------------------------------------------------------
\* Nothing ends early

LEMMA NoTimeElapses == ASSUME NEW s \in Words PROVE Elapsed(s, s) = 0
<1>1. 0 \in Words /\ s - s = 0 BY Constants DEF Words
<1> QED BY <1>1, ModOfSmall DEF Elapsed

\* What NothingEndsEarly says of one step.
TimesOutInTime ==
  flush'.error = "TIMEOUT" /\ IsFlushing =>
    flush.started /\ now >= flush.startAt + FlushTimeout
EndsAtDeadline == op'.ended = "DEADLINE" /\ OperationActive => now >= op.deadlineAt
WaitsItsBudget == flush'.error = "WAIT" /\ IsFlushing => now >= wait.startAt + wait.budget
StallsPatiently ==
  (flush'.error = "STALL" /\ IsFlushing) \/ (op'.ended = "STALL" /\ OperationActive) =>
    /\ wait.stalled + 1 >= GuardFloor
    /\ wait.stalled + 1 >= wait.budget \/ wait.stalled + 1 >= GuardCap

EndsNotEarly == TimesOutInTime /\ EndsAtDeadline /\ WaitsItsBudget /\ StallsPatiently

\* A job that polls time out has waited, with or without a clock.
LEMMA TimeoutIsDue ==
  ASSUME Typed, WaitSamples, FlushSamples, IsFlushing, NEW s, JobTimesOut(s),
         \/ s = Sample(now) /\ (HasClock \/ wait.kind # "FLUSH")
         \/ ~HasClock /\ wait.kind = "FLUSH" /\ s = wait.start
  PROVE  flush.started /\ now >= flush.startAt + FlushTimeout
<1> USE Constants
<1>0. /\ now \in Nat /\ flush \in FlushType /\ flush.startAt \in Nat
         /\ flush.since \in Words
      /\ wait \in WaitType /\ wait.startAt \in Nat /\ wait.start \in Words
         /\ Sample(now) \in Words
  BY SamplesAreWords DEF Typed, TypeOK, FlushType, WaitType
<1>1. s \in Words /\ FlushTimeout > 0 /\ Elapsed(s, Started(s).since) >= FlushTimeout
  BY <1>0 DEF JobTimesOut
<1>2. flush.started
  <2> SUFFICES ASSUME ~flush.started PROVE FALSE OBVIOUS
  <2>1. Started(s).since = s BY <1>0 DEF Started, FlushType
  <2> QED BY <1>1, <2>1, NoTimeElapses
<1>3. /\ Elapsed(s, flush.since) \in Nat
      /\ Elapsed(s, flush.since) >= FlushTimeout /\ Elapsed(s, flush.since) > 0
  <2>1. Elapsed(s, flush.since) \in Words BY <1>0, <1>1, ElapsedIsAWord
  <2>2. Elapsed(s, flush.since) >= FlushTimeout BY <1>1, <1>2 DEF Started
  <2>3. Elapsed(s, flush.since) \in Nat /\ FlushTimeout \in Nat BY <2>1
  <2> DEFINE e == Elapsed(s, flush.since)
  <2> HIDE DEF e
  <2>4. e \in Nat /\ e >= FlushTimeout BY <2>2, <2>3 DEF e
  <2>5. e > 0 BY <1>1, <2>3, <2>4
  <2> QED BY <2>4, <2>5 DEF e
<1>4. flush.startAt <= now BY <1>2 DEF FlushSamples
<1>5. ASSUME NEW t \in Nat, t <= now, flush.startAt <= t, s = Sample(t),
             flush.since = Sample(flush.startAt)
      PROVE  now >= flush.startAt + FlushTimeout
  <2>1. Elapsed(s, flush.since) <= t - flush.startAt BY <1>0, <1>5, ElapsedIsAtMost
  <2> QED BY <1>0, <1>3, <1>5, <2>1
<1>6. CASE s = Sample(now) /\ (HasClock \/ wait.kind # "FLUSH")
  BY <1>0, <1>2, <1>4, <1>5, <1>6 DEF FlushSamples
<1>7. CASE ~HasClock /\ wait.kind = "FLUSH" /\ s = wait.start
  <2>1. wait.start = Sample(wait.startAt) /\ wait.startAt <= now BY <1>7 DEF WaitSamples
  <2>2. CASE flush.since = wait.start
    <3>1. Elapsed(s, flush.since) = 0 BY <1>1, <1>7, <2>2, NoTimeElapses
    <3> QED BY <1>3, <3>1
  <2>3. CASE flush.since = Sample(flush.startAt) /\ flush.startAt <= wait.startAt
    BY <1>0, <1>2, <1>5, <1>7, <2>1, <2>3
  <2> QED BY <1>2, <1>7, <2>2, <2>3 DEF FlushSamples
<1> QED BY <1>2, <1>6, <1>7

LEMMA PatienceIsLong ==
  ASSUME Typed, WaitSamples, wait.kind # "NONE"
  PROVE  Patience >= GuardFloor /\ (Patience >= wait.budget \/ Patience >= GuardCap)
         /\ Patience \in Nat
<1> USE Constants
<1>1. wait \in WaitType /\ wait.budget \in Words BY DEF Typed, TypeOK, WaitType
<1>2. CASE wait.kind = "FLUSH" BY <1>1, <1>2, GuardIsPatient DEF Patience
<1>3. CASE wait.kind = "OPERATION"
  <2>1. wait.budget = 0 BY <1>3 DEF WaitSamples
  <2>2. SaturatedAdd(DisplayOnDelay, FlushTimeout) \in Words
    BY ModulusIsPositive DEF SaturatedAdd, Words
  <2>3. Patience = StallGuard(SaturatedAdd(DisplayOnDelay, FlushTimeout), I2cTimeout)
    BY <1>3 DEF Patience
  <2> DEFINE guard == StallGuard(SaturatedAdd(DisplayOnDelay, FlushTimeout), I2cTimeout)
  <2>4. guard >= GuardFloor /\ guard \in Nat BY <2>2, GuardIsPatient
  <2> HIDE DEF guard
  <2> QED BY <2>1, <2>3, <2>4 DEF guard
<1> QED BY <1>1, <1>2, <1>3 DEF WaitType

LEMMA EndsNotEarlyStep ==
  ASSUME Typed, WaitSamples, FlushSamples, DeadlineInv, [Next]_vars
  PROVE  EndsNotEarly
<1> USE Constants
<1>0. /\ now \in Nat /\ sampled \in Nat /\ flush \in FlushType /\ op \in OperationType
      /\ wait \in WaitType /\ wait.startAt \in Nat /\ wait.budget \in Nat
         /\ wait.stalled \in Nat
      /\ op.deadlineAt \in Nat /\ OneJob /\ TimeIsBounded
  <2>1. /\ now \in Nat /\ sampled \in Nat /\ flush \in FlushType /\ op \in OperationType
        /\ wait \in WaitType /\ OneJob /\ TimeIsBounded
    BY DEF Typed, TypeOK
  <2>2. wait.startAt \in Nat /\ wait.budget \in Nat /\ wait.stalled \in Nat
    BY <2>1 DEF WaitType
  <2>3. op.deadlineAt \in Nat BY <2>1 DEF OperationType
  <2> QED BY <2>1, <2>2, <2>3
\* A step that ends nothing for lack of time.
<1>1. ASSUME flush'.error = flush.error \/ flush'.error = "NONE" \/ ~IsFlushing,
             op'.ended = op.ended \/ op'.ended = "NONE" \/ ~OperationActive
      PROVE  EndsNotEarly
  <2>1. IsFlushing => flush'.error = "NONE" BY <1>0, <1>1 DEF OneJob
  <2>2. OperationActive => op'.ended = "NONE" BY <1>0, <1>1 DEF OneJob
  <2> QED BY <2>1, <2>2 DEF EndsNotEarly, TimesOutInTime, EndsAtDeadline, WaitsItsBudget,
       StallsPatiently
<1>2. ASSUME UNCHANGED <<op, flush>> PROVE EndsNotEarly BY <1>1, <1>2
<1>3. CASE Elapse \/ UNCHANGED vars BY <1>2, <1>3 DEF Elapse, vars
<1>4. ASSUME NEW d \in 0..I2cTimeout, NEW ok \in BOOLEAN, Attempt(d, ok) PROVE EndsNotEarly
  <2>1. flush'.error = flush.error \/ flush'.error = "NONE"
    <3>1. flush' = flush \/ flush' = NoFlush \/ flush' = [flush EXCEPT !.left = @ - 1]
      BY <1>4 DEF Attempt
    <3> QED BY <1>0, <3>1 DEF NoFlush, FlushType
  <2>2. op'.ended = op.ended \/ op'.ended = "NONE"
    <3>1. \/ op' = op \/ op' = NoOperation \/ op' = [op EXCEPT !.left = @ - 1]
          \/ op' = [op EXCEPT !.phase = "DELAY", !.left = 0, !.litAt = now + d]
      BY <1>4 DEF Attempt
    <3>2. CASE op' = NoOperation BY <3>2 DEF NoOperation
    <3>3. CASE op' # NoOperation BY <1>0, <3>1, <3>3 DEF OperationType
    <3> QED BY <3>2, <3>3
  <2> QED BY <1>1, <2>1, <2>2
<1>5. (\E kind, n : RunOperation(kind, n))
      \/ (\E kind, n, limited, ahead : StartOperation(kind, n, limited, ahead)) => EndsNotEarly
  BY <1>1 DEF RunOperation, StartOperation, Idle
<1>6. (\E n : RequestFlush(n)) => EndsNotEarly
  BY <1>1 DEF RequestFlush, Idle
<1>7. (\E d : WakeNow(d)) \/ TickGuard \/ (\E timeout : WaitFlush(timeout)) => EndsNotEarly
  BY <1>2 DEF WakeNow, TickGuard, WaitFlush
<1>8. WaitFlushReturns \/ RunOperationReturns \/ WaitGoesOn => EndsNotEarly
  BY <1>2 DEF WaitFlushReturns, RunOperationReturns, WaitGoesOn
<1>9. ASSUME NEW s, NEW n, PollOperationAt(s, n), op.limited => s = Sample(now)
      PROVE  EndsNotEarly
  <2>1. flush' = flush BY <1>9 DEF PollOperationAt
  <2>2. CASE op.phase = "SEND" /\ op.limited /\ DeadlineReached(s, op.deadline)
    <3>1. op.deadline = Sample(op.deadlineAt) /\ op.deadlineAt < now + Half
          /\ s = Sample(now)
      BY <1>9, <2>2 DEF DeadlineInv, DeadlineSamples
    <3>2. op.deadlineAt <= now BY <1>0, <2>2, <3>1, DeadlineNotEarly
    <3>3. op'.ended = "DEADLINE" \/ op'.ended = op.ended \/ op'.ended = "NONE"
      BY <1>9, <2>2 DEF PollOperationAt, EndedOperation, NoOperation
    <3>4. IsFlushing => flush'.error = "NONE" BY <1>0, <2>1 DEF OneJob
    <3>5. OperationActive => op'.ended # "STALL" BY <1>0, <3>3 DEF OneJob
    <3> QED BY <1>0, <3>2, <3>4, <3>5 DEF EndsNotEarly, TimesOutInTime, EndsAtDeadline,
         WaitsItsBudget, StallsPatiently
  <2>3. CASE ~(op.phase = "SEND" /\ op.limited /\ DeadlineReached(s, op.deadline))
    <3>1. op' = op \/ op' = NoOperation \/ op' = [op EXCEPT !.latched = TRUE, !.since = s]
      BY <1>9, <2>3 DEF PollOperationAt
    <3>2. op'.ended = op.ended \/ op'.ended = "NONE"
      <4>1. CASE op' = NoOperation BY <4>1 DEF NoOperation
      <4>2. CASE op' # NoOperation BY <1>0, <3>1, <4>2 DEF OperationType
      <4> QED BY <4>1, <4>2
    <3> QED BY <1>1, <2>1, <3>2
  <2> QED BY <2>2, <2>3
<1>10. ASSUME NEW n, PollOperation(n) PROVE EndsNotEarly
  BY <1>9, <1>10 DEF PollOperation
<1>11. CASE RunOperationPolls
  <2>1. ~op.limited BY <1>0, <1>11 DEF RunOperationPolls, Executing, OneJob
  <2> QED BY <1>9, <1>11, <2>1 DEF RunOperationPolls
<1>12. ASSUME NEW s, NEW n, NEW timeout, PollFlushAt(s, n, timeout),
              \/ s = Sample(now) /\ (HasClock \/ wait.kind # "FLUSH")
              \/ ~HasClock /\ wait.kind = "FLUSH" /\ s = wait.start
       PROVE  EndsNotEarly
  <2>1. op' = op /\ IsFlushing BY <1>12 DEF PollFlushAt
  <2>2. CASE JobTimesOut(s)
    <3>1. flush'.error = "TIMEOUT" BY <1>12, <2>2 DEF PollFlushAt, FailedFlush, NoFlush
    <3>2. flush.started /\ now >= flush.startAt + FlushTimeout
      BY <1>12, <2>1, <2>2, TimeoutIsDue
    <3>3. OperationActive => op'.ended = "NONE" BY <1>0, <2>1 DEF OneJob
    <3> QED BY <3>1, <3>2, <3>3 DEF EndsNotEarly, TimesOutInTime, EndsAtDeadline,
         WaitsItsBudget, StallsPatiently
  <2>3. CASE ~JobTimesOut(s)
    <3>1. flush' = Started(s) BY <1>12, <2>3 DEF PollFlushAt
    <3>2. flush'.error = flush.error \/ flush'.error = "NONE"
      BY <1>0, <3>1 DEF Started, FlushType
    <3> QED BY <1>1, <2>1, <3>2
  <2> QED BY <2>2, <2>3
<1>13. ASSUME NEW n, PollFlush(n) PROVE EndsNotEarly
  BY <1>12, <1>13 DEF PollFlush, NoWait
<1>14. CASE WaitFlushTicks
  <2>1. wait.kind = "FLUSH" BY <1>14 DEF WaitFlushTicks, Executing
  <2>2. CASE IsFlushing
    <3>1. \/ NowMs(wait.start) = Sample(now) /\ HasClock
          \/ ~HasClock /\ NowMs(wait.start) = wait.start
      BY DEF NowMs
    <3> QED BY <1>12, <1>14, <2>1, <2>2, <3>1 DEF WaitFlushTicks
  <2>3. CASE ~IsFlushing BY <1>2, <1>14, <2>3 DEF WaitFlushTicks
  <2> QED BY <2>2, <2>3
<1>15. CASE WaitFlushTimesOut
  <2>1. wait.kind = "FLUSH" /\ Elapsed(NowMs(wait.start), wait.start) >= wait.budget
        /\ op' = op
    BY <1>15 DEF WaitFlushTimesOut, Executing
  <2>2. wait.start = Sample(wait.startAt) /\ wait.startAt <= now /\ wait.budget > 0
    BY <2>1 DEF WaitSamples
  <2>3. wait.start \in Words /\ Sample(now) \in Words BY <1>0, SamplesAreWords DEF WaitType
  <2>4. HasClock
    <3> SUFFICES ASSUME ~HasClock PROVE FALSE OBVIOUS
    <3>1. Elapsed(wait.start, wait.start) = 0 BY <2>3, NoTimeElapses
    <3> QED BY <1>0, <2>1, <2>2, <3>1 DEF NowMs
  <2>5. Elapsed(Sample(now), wait.start) <= now - wait.startAt
    BY <1>0, <2>2, ElapsedIsAtMost
  <2>6. Elapsed(Sample(now), wait.start) \in Nat BY <2>3, ElapsedIsAWord
  <2>7. now >= wait.startAt + wait.budget BY <1>0, <2>1, <2>4, <2>5, <2>6 DEF NowMs
  <2>8. IsFlushing => flush'.error = "WAIT"
    BY <1>15 DEF WaitFlushTimesOut, FailedFlush, NoFlush
  <2>9. OperationActive => op'.ended = "NONE" BY <1>0, <2>1 DEF OneJob
  <2> QED
    BY <2>7, <2>8, <2>9 DEF EndsNotEarly, TimesOutInTime, EndsAtDeadline, WaitsItsBudget,
       StallsPatiently
<1>16. CASE WaitStalls
  <2>1. wait.kind # "NONE" /\ wait.stalled + 1 >= Patience
    BY <1>16 DEF WaitStalls, Judges, Executing
  <2>2. Patience >= GuardFloor /\ (Patience >= wait.budget \/ Patience >= GuardCap)
        /\ Patience \in Nat
    BY <2>1, PatienceIsLong
  <2>3. GuardFloor \in Nat /\ GuardCap \in Nat BY ClockAssumption
  <2>4. /\ wait.stalled + 1 >= GuardFloor
        /\ wait.stalled + 1 >= wait.budget \/ wait.stalled + 1 >= GuardCap
    BY <1>0, <2>1, <2>2, <2>3
  <2>5. IsFlushing => flush'.error \in {"STALL", "NONE"}
    BY <1>0, <1>16 DEF WaitStalls, FailedFlush, NoFlush, OneJob
  <2>6. OperationActive => op'.ended \in {"STALL", "NONE"}
    BY <1>0, <1>16 DEF WaitStalls, EndedOperation, NoOperation, OneJob
  <2> QED
    BY <2>4, <2>5, <2>6 DEF EndsNotEarly, TimesOutInTime, EndsAtDeadline, WaitsItsBudget,
       StallsPatiently
<1> QED
  BY Steps, <1>3, <1>4, <1>5, <1>6, <1>7, <1>8, <1>10, <1>11, <1>13, <1>14, <1>15, <1>16

\* A flush times out, an operation ends at its deadline, a wait gives up and a call
\* without progress stalls only when the time or the polls for it are really over.
THEOREM NothingGivesUpEarly == Spec => NothingEndsEarly
<1> DEFINE Inv == Typed /\ WaitSamples /\ FlushSamples /\ DeadlineInv
<1>1. Init => Inv
  <2> SUFFICES ASSUME Init PROVE WaitSamples /\ FlushSamples /\ DeadlineInv
    BY TypedInit
  <2> QED BY DEF Init, WaitSamples, FlushSamples, IsFlushing, NoWait, NoFlush, DeadlineInv,
         DeadlineSamples, EndsByDeadline, OneTry, NoOperation
<1>2. Inv /\ [Next]_vars => Inv'
  BY TypedStep, WaitSamplesStep, FlushSamplesStep, DeadlineStep
<1>3. Inv /\ [Next]_vars => [EndsNotEarly]_vars
  BY EndsNotEarlyStep
<1>4. [][EndsNotEarly]_vars => NothingEndsEarly
  BY PTL DEF NothingEndsEarly, EndsNotEarly, TimesOutInTime, EndsAtDeadline, WaitsItsBudget,
       StallsPatiently
<1> QED BY <1>1, <1>2, <1>3, <1>4, PTL DEF Spec
====
