----------------------------- MODULE Attachment -----------------------------
(***************************************************************************)
(* The binding of a driver object: the configuration it holds and the      *)
(* framebuffer it draws into, which it allocates itself or borrows from    *)
(* its owner.  attach() may be called again on a bound object, also with a *)
(* pointer into the storage that the object is about to free.              *)
(***************************************************************************)
EXTENDS Config, FiniteSets

CONSTANTS
  Configs,        \* configurations that the owner passes
  CallerMemory,   \* addresses of the owner's arrays
  HeapMemory,     \* addresses that new can return
  Profiles        \* presets that the owner applies, known or not

\* What the constants are; the module that instantiates this one assumes it.
MemoryAssumption ==
  /\ Configs \subseteq ConfigType
  /\ CallerMemory \subseteq Nat /\ HeapMemory \subseteq Nat
  /\ CallerMemory \cap HeapMemory = {}
  /\ NoBuffer \notin Nat

VARIABLES
  prepared,  \* the configuration that the owner is preparing
  attached,  \* _attached
  held,      \* _config
  buffer,    \* _buffer: first address and size
  owned,     \* _ownsBuffer
  heap,      \* blocks allocated and not freed
  busy,      \* an operation or flush is active, or a result is not taken
  call       \* the last call and what became of it

vars == <<prepared, attached, held, buffer, owned, heap, busy, call>>

Block(at, size) == [at |-> at, size |-> size]
NoBlock == Block(0, 0)
Bytes(b) == b.at..(b.at + b.size - 1)

\* Wrong: only a range that starts inside the second one is found.
ByteRangesOverlapMutant(first, second) ==
  /\ first.size > 0 /\ second.size > 0
  /\ first.at >= second.at /\ first.at - second.at < second.size

\* byteRangesOverlap()
ByteRangesOverlap(first, second) ==
  /\ first.size > 0 /\ second.size > 0
  /\ IF first.at <= second.at THEN second.at - first.at < first.size
     ELSE first.at - second.at < second.size

External(c) == Block(c.externalBuffer, RequiredFramebufferBytes(c))

\* validateConfig(): valid, and no part of the external buffer lies in the
\* storage that attach() would free.
Accepts(c) ==
  /\ ValidConfig(c)
  /\ ~(owned /\ c.externalBuffer # NoBuffer /\ ByteRangesOverlap(External(c), buffer))

\* The owner passes memory that it may use: its own, or what getBuffer() gave.
Usable(c) ==
  c.externalBuffer # NoBuffer =>
    c.externalBuffer..(c.externalBuffer + c.externalBufferSizeBytes - 1)
      \subseteq CallerMemory \cup Bytes(buffer)

\* _resetRuntimeState() frees the block that the object owns.
Freed == IF owned THEN heap \ {buffer} ELSE heap

Bind(c, block, owns) ==
  /\ attached' = TRUE
  /\ held' = [c EXCEPT !.offlineThreshold = IF @ = 0 THEN 1 ELSE @]
  /\ buffer' = block
  /\ owned' = owns
  /\ heap' = Freed \cup (IF owns THEN {block} ELSE {})
  /\ busy' = FALSE

Unbound == UNCHANGED <<attached, held, buffer, owned, heap, busy>>

\* attach(): the new block is allocated before the old one is freed, so that a
\* failed allocation leaves the binding as it was.
AttachAccepted(c) ==
  \/ /\ c.externalBuffer # NoBuffer
     /\ Bind(c, External(c), FALSE)
  \/ /\ c.externalBuffer = NoBuffer
     /\ \E at \in HeapMemory :
          LET block == Block(at, RequiredFramebufferBytes(c))
          IN  /\ Bytes(block) \subseteq HeapMemory \ UNION {Bytes(b) : b \in heap}
              /\ Bind(c, block, TRUE)

Refused(c) == busy \/ ~Accepts(c)

AllocationFails(c) == c.externalBuffer = NoBuffer

Attach ==
  /\ Usable(prepared)
  /\ \/ /\ ~Refused(prepared) /\ AttachAccepted(prepared)
        /\ call' = [kind |-> "attach", done |-> TRUE]
     \/ /\ Refused(prepared) \/ AllocationFails(prepared)
        /\ Unbound
        /\ call' = [kind |-> "attach", done |-> FALSE]
  /\ UNCHANGED prepared

\* Wrong: the clock is required for a full framebuffer that stays off, not for
\* the one that is shown.
NeedsClockMutant(c) == ~c.clearOnBegin /\ ~PageModeOf(c) /\ c.displayOnDelayMs # 0

\* begin() shows the frame at once, and then needs the clock for the delay.
WillResync(c) == c.clearOnBegin /\ ~PageModeOf(c)
NeedsClock(c) == WillResync(c) /\ c.displayOnDelayMs # 0

\* _runBlockingOperation() refuses before any transaction.
BlockingRefused(c, kind) ==
  \/ kind = "RESYNC" /\ PageModeOf(c)
  \/ kind = "RESYNC" /\ c.displayOnDelayMs # 0 /\ ~c.nowMs

\* begin(): every precondition that needs no bus is tested before attach().  The
\* blocking operation that follows ends inside the call, its result taken.
Begin ==
  LET c == prepared
      kind == IF WillResync(c) THEN "RESYNC" ELSE "INITIALIZE"
      refused == (NeedsClock(c) /\ ~c.nowMs) \/ Refused(c)
  IN  /\ Usable(c)
      /\ \/ /\ ~refused /\ AttachAccepted(c)
            /\ call' = [kind |-> "begin", done |-> ~BlockingRefused(c, kind)]
         \/ /\ refused \/ AllocationFails(c)
            /\ Unbound
            /\ call' = [kind |-> "begin", done |-> FALSE]
      /\ UNCHANGED prepared

Detach ==
  /\ attached' = FALSE /\ held' = Defaults
  /\ buffer' = NoBlock /\ owned' = FALSE /\ heap' = Freed
  /\ busy' = FALSE
  /\ call' = [kind |-> "detach", done |-> TRUE]
  /\ UNCHANGED prepared

\* The rest of the driver: work starts, and ends with its result taken.
Work ==
  /\ attached
  /\ busy' = ~busy
  /\ call' = [kind |-> "work", done |-> TRUE]
  /\ UNCHANGED <<prepared, attached, held, buffer, owned, heap>>

Prepare ==
  /\ prepared' \in Configs
  /\ call' = [kind |-> "prepare", done |-> TRUE]
  /\ Unbound

ApplyProfile(profile) ==
  /\ prepared' = ApplyPanelProfile(prepared, profile)
  /\ call' = [kind |-> "profile", done |-> profile \in DOMAIN Preset]
  /\ Unbound

Init ==
  /\ prepared \in Configs
  /\ attached = FALSE /\ held = Defaults
  /\ buffer = NoBlock /\ owned = FALSE /\ heap = {}
  /\ busy = FALSE
  /\ call = [kind |-> "detach", done |-> TRUE]

Next ==
  \/ Prepare
  \/ \E profile \in Profiles : ApplyProfile(profile)
  \/ Attach \/ Begin \/ Detach \/ Work

Spec == Init /\ [][Next]_vars

-----------------------------------------------------------------------------
\* The framebuffer is exactly as large as the geometry needs, and lies in memory
\* that nobody else owns: in a block that the driver allocated and has not freed,
\* or in the owner's memory.  Nothing else stays allocated.
BufferIsLive ==
  /\ attached =>
       /\ buffer.size = RequiredFramebufferBytes(held) /\ buffer.size > 0
       /\ IF owned THEN buffer \in heap ELSE Bytes(buffer) \subseteq CallerMemory
  /\ heap = IF owned THEN {buffer} ELSE {}

\* The bytes of a borrowed framebuffer are bytes that the owner declared.
BorrowsWhatWasGiven ==
  attached /\ ~owned =>
    Bytes(buffer) \subseteq
      held.externalBuffer..(held.externalBuffer + held.externalBufferSizeBytes - 1)

\* Transactions of initialization, flush and direct controls: at most a control
\* byte and three command bytes.
LongestCommand == 4

\* A bound object can do its work: no command of initialization exceeds the
\* transport, every data chunk has a byte, the RAM window is not larger than the
\* display, and the start line lies inside the scroll area that initialization
\* programs.  The other modules assume this of their constants.
AdmittedIsUsable ==
  attached =>
    /\ LongestCommand <= held.maxWriteBytes
    /\ MaxDataBytes(held) >= 1 /\ held.byteBudgetPerTick >= 1
    /\ held.pageBufferPages \in 1..TotalPagesOf(held)
    /\ held.height - 1 \in 15..63
    /\ held.startLine < held.height
    /\ held.offlineThreshold >= 1

\* A call that fails leaves the binding and the framebuffer alone: begin() is
\* never refused for its configuration after it has replaced the binding.
FailedCallKeepsBinding ==
  [][call'.done \/ UNCHANGED <<attached, held, buffer, owned, heap>>]_vars

\* Work in progress keeps the buffer it reads and writes, until the owner
\* detaches.
BufferStableWhileBusy ==
  [][busy => UNCHANGED <<held, buffer>> \/ call'.kind = "detach"]_vars

\* A preset makes no admissible configuration inadmissible, as long as the
\* framebuffer is the driver's own.
PresetKeepsValid ==
  [][call'.kind = "profile" /\ prepared.externalBuffer = NoBuffer
       /\ ValidConfig(prepared) => ValidConfig(prepared')]_vars
===============================================================================
