---------------------------- MODULE MCBookkeeping ----------------------------
(***************************************************************************)
(* A small instance of Bookkeeping.                                        *)
(***************************************************************************)
EXTENDS Bookkeeping

-----------------------------------------------------------------------------
\* The binding: five bytes of the owner's memory are followed by the heap.

\* A display of 2 x 16 pixels; its framebuffer has two or four bytes.
Base ==
  [Defaults EXCEPT !.i2cWrite = TRUE, !.width = 2, !.height = 16, !.startLine = 15,
                   !.maxWriteBytes = 4, !.byteBudgetPerTick = 1, !.pageBufferPages = 2,
                   !.displayOnDelayMs = 0, !.offlineThreshold = 0]

MCCallerMemory == 0..4
MCHeapMemory == 5..12
MCProfiles == {"WISEVISION_EXTERNAL_VCC", "UNKNOWN"}

Geometries ==
  {[Base EXCEPT !.pageBufferPages = p, !.displayOnDelayMs = d, !.clearOnBegin = b,
                !.nowMs = clock] :
     p \in {1, 2}, d \in {0, 100}, b \in BOOLEAN, clock \in BOOLEAN}
    \cup {[Base EXCEPT !.width = 1, !.height = 64, !.startLine = 63, !.pageBufferPages = 8]}

\* External buffers in the owner's memory, across its end, and in the heap.
Borrowing ==
  {[Base EXCEPT !.pageBufferPages = p, !.externalBuffer = at, !.externalBufferSizeBytes = n] :
     p \in {1, 2}, at \in {0, 1, 3, 4, 5, 7}, n \in {1, 4}}

\* One field off its range at a time, and the values next to the limits.
OutOfRange ==
  {[Base EXCEPT !.width = 0], [Base EXCEPT !.height = 8], [Base EXCEPT !.height = 20],
   [Base EXCEPT !.maxWriteBytes = 3], [Base EXCEPT !.maxWriteBytes = 130],
   [Base EXCEPT !.startLine = 16], [Base EXCEPT !.startLine = 64],
   [Base EXCEPT !.pageBufferPages = 0], [Base EXCEPT !.pageBufferPages = 3],
   [Base EXCEPT !.byteBudgetPerTick = 0], [Base EXCEPT !.i2cTimeoutMs = 0],
   [Base EXCEPT !.clockDivide = 17], [Base EXCEPT !.contrast = 0],
   [Base EXCEPT !.i2cWrite = FALSE], [Base EXCEPT !.externalBufferSizeBytes = 4],
   [Base EXCEPT !.iref = "INVALID"]}

MCBoundConfigs == Geometries \cup Borrowing \cup OutOfRange

-----------------------------------------------------------------------------
\* The settings: codes at both ends of their fields.

Wide ==
  [Defaults EXCEPT !.i2cWrite = TRUE, !.height = 16, !.pageBufferPages = 2,
                   !.startLine = 3, !.clockDivide = 16, !.oscFrequency = 15,
                   !.prechargePhase1 = 15, !.prechargePhase2 = 1, !.displayOffset = 63]
Narrow ==
  [Defaults EXCEPT !.i2cWrite = TRUE, !.width = 64, !.maxWriteBytes = 4,
                   !.startLine = 63, !.comPins = "SEQUENTIAL_NO_REMAP"]
MCSetConfigs == {Wide, Narrow}

MCContrasts == {0, 1}
MCToggles == {"flipX"}
MCFades == {<<"BLINK", 15>>, <<"OFF", 16>>}
MCAreas == {<<8, 8>>, <<0, 3>>, <<1, 16>>}
MCOffsets == {0, 7, 8}
MCRawCommands == {[reg |-> "contrast", value |-> 9], [reg |-> "scroll", value |-> TRUE]}

MCPowerOnReset ==
  [display |-> FALSE, addressing |-> "PAGE", startLine |-> 0, flipX |-> FALSE,
   multiplex |-> 63, flipY |-> FALSE, displayOffset |-> 0, comPins |-> 18,
   clock |-> [oscFrequency |-> 8, clockDivide |-> 1],
   precharge |-> [phase1 |-> 2, phase2 |-> 2], vcomh |-> "V_077_VCC", contrast |-> 127,
   iref |-> "IREF_EXTERNAL", chargePump |-> "OFF", scroll |-> FALSE, allOn |-> FALSE,
   fade |-> [mode |-> 0, interval |-> 0], invert |-> FALSE, zoom |-> FALSE,
   area |-> [top |-> 0, rows |-> 64], setup |-> [kind |-> "NONE", offset |-> 0]]

-----------------------------------------------------------------------------
\* Of the parts that are not the subject one initial state is enough.
MCInit ==
  /\ InitBookkeeping
  /\ subject # "BINDING" => prepared = Base
  /\ subject # "SETTINGS" => config = Wide

MCSpec == MCInit /\ [][NextBookkeeping]_all
=============================================================================
