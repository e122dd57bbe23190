--------------------------------- MODULE Clock ---------------------------------
(***************************************************************************)
(* The driver's arithmetic on 32-bit millisecond clock samples.  The clock *)
(* rolls over; differences are taken modulo its width, durations saturate. *)
(***************************************************************************)
EXTENDS Integers

CONSTANTS
  Modulus,       \* 2^32: number of clock samples
  GuardFactor,   \* 4, 16, 32 and 8192 in the stall guard's formula
  GuardOffset,
  GuardFloor,
  GuardCap

\* A signed difference needs an even modulus.
ASSUME ClockAssumption ==
  /\ Modulus \in Nat /\ Modulus % 2 = 0 /\ Modulus > 0
  /\ {GuardFactor, GuardOffset, GuardFloor, GuardCap} \subseteq 1..(Modulus - 1)
  /\ GuardFloor <= GuardCap

Words == 0..(Modulus - 1)
Half == Modulus \div 2

\* What a millisecond clock shows at time t.
Sample(t) == t % Modulus

\* now - since on unsigned words.
Elapsed(s, since) == (s - since) % Modulus

\* static_cast<int32_t>
Signed(w) == IF w < Half THEN w ELSE w - Modulus

DeadlineReached(s, deadline) == Signed(Elapsed(s, deadline)) >= 0

SaturatedAdd(a, b) == IF b > (Modulus - 1) - a THEN Modulus - 1 ELSE a + b
SaturatedMul(a, b) == IF b # 0 /\ a > (Modulus - 1) \div b THEN Modulus - 1 ELSE a * b

\* waitFlushStallGuardIterations(): idle iterations before a wait gives up.
StallGuard(timeout, i2cTimeout) ==
  LET budget == SaturatedAdd(SaturatedMul(SaturatedAdd(timeout, i2cTimeout), GuardFactor),
                             GuardOffset)
  IN  IF budget < GuardFloor THEN GuardFloor
      ELSE IF budget > GuardCap THEN GuardCap ELSE budget
=============================================================================
