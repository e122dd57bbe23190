----------------------------- MODULE Bookkeeping -----------------------------
(***************************************************************************)
(* What the driver keeps for its owner besides the frame and the power:    *)
(* the binding to a configuration and a framebuffer, the settings of the   *)
(* controller, and the health counters.  The three share no state, so that *)
(* a behaviour follows one of them, its subject, from the start.           *)
(***************************************************************************)
EXTENDS HealthCounters, Config

CONSTANTS
  BoundConfigs, CallerMemory, HeapMemory, Profiles,   \* of the binding
  SetConfigs, Contrasts, Toggles, Fades, Areas, Offsets, RawCommands, PowerOnReset,
  MaxFailures, MaxCalls                               \* of the settings

VARIABLES
  subject,
  prepared, attached, held, buffer, owned, heap, busy, call,
  config, allPixelsOn, scrollActive, scrollRows, ready, doubt, sequence, device,
  asked, failures, calls

health == vars
binding == <<prepared, attached, held, buffer, owned, heap, busy, call>>
settings == <<config, allPixelsOn, scrollActive, scrollRows, ready, doubt, sequence,
              device, asked, failures, calls>>
all == <<subject, health, binding, settings>>

Binding == INSTANCE Attachment WITH Configs <- BoundConfigs

Set == INSTANCE Settings WITH Configs <- SetConfigs, initialized <- ready, op <- sequence

ASSUME BookkeepingAssumption == Binding!MemoryAssumption /\ Set!SettingsAssumption

-----------------------------------------------------------------------------
InitBookkeeping ==
  /\ subject \in {"HEALTH", "BINDING", "SETTINGS"}
  /\ Init /\ Binding!Init /\ Set!Init

OnHealth(A) == subject = "HEALTH" /\ A /\ UNCHANGED <<subject, binding, settings>>
OnBinding(A) == subject = "BINDING" /\ A /\ UNCHANGED <<subject, health, settings>>
OnSettings(A) == subject = "SETTINGS" /\ A /\ UNCHANGED <<subject, health, binding>>

NextBookkeeping == OnHealth(Next) \/ OnBinding(Binding!Next) \/ OnSettings(Set!Next)

SpecBookkeeping == InitBookkeeping /\ [][NextBookkeeping]_all

-----------------------------------------------------------------------------
\* Properties.  (StateIsEarned is that of HealthCounters.)

\* The framebuffer is live memory of the right size, owned or lent, that the
\* configuration in force fits, through any sequence of attach(), begin() and
\* detach(), also when the new buffer lies in the storage that attach() frees.
FramebufferIsSound ==
  /\ Binding!BufferIsLive /\ Binding!BorrowsWhatWasGiven
  /\ Binding!AdmittedIsUsable

\* What works is kept: a call that fails keeps the binding, nothing but detach()
\* changes it under work in progress, and a preset makes no admissible
\* configuration inadmissible.
WhatWorksIsKept ==
  /\ Binding!FailedCallKeepsBinding
  /\ Binding!BufferStableWhileBusy
  /\ Binding!PresetKeepsValid

\* Without doubt and between operations, the registers of the controller, what the
\* driver remembers and what the owner was told are the same; the scroll area holds the
\* start line, and the offset of a vertical scroll that was admitted.
SettingsAreTrue ==
  /\ Set!SettingsHeld /\ Set!MemoryTrue
  /\ Set!AreaHoldsStartLine /\ Set!ScrollStartsInArea
=============================================================================
