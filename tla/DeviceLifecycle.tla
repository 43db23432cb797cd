---------------------------- MODULE DeviceLifecycle ----------------------------
(***************************************************************************)
(* The life of the D3D11 device: SC4 sets and leaves video modes, the GPU  *)
(* may remove the device at any time, and Flush, the frame boundary, tears *)
(* a lost device down and creates another, with a growing delay between    *)
(* attempts that fail.  Recovery has to be invisible to SC4, which keeps   *)
(* the window's handle and its texture names, and plugins have to hear of  *)
(* every device that goes away (SCD3D11_EVENT_BEFORE_DEVICE_DESTROY).      *)
(*                                                                         *)
(* Everything here runs on SC4's one render thread: a call is one step.    *)
(***************************************************************************)
EXTENDS Integers, Textures

CONSTANTS
  Modes,         \* the video modes SC4 can choose
  NoMode,        \* currentVideoMode -1
  Windows,       \* window handles
  NoWindow,
  MaxFailures,   \* the failures that still lengthen the delay (5)
  MaxGeneration  \* bound of the models: nothing breaks the last device

ASSUME NamesAssumption == NoMode \notin Modes /\ NoWindow \notin Windows
ASSUME BoundsAssumption == MaxFailures \in Nat /\ MaxGeneration \in Nat

VARIABLES
  initialized, \* Init has enumerated the video modes
  mode,        \* currentVideoMode
  device,      \* d3dDevice, d3dContext and swapChain exist
  targets,     \* renderTargetView and depthStencilView exist
  removed,     \* the GPU has removed the device
  lost,        \* deviceLost
  generation,  \* deviceGeneration
  window,      \* windowHandle
  client,      \* size of its client area (0: minimized)
  size,        \* windowWidth and windowHeight: what the targets are made for
  failures,    \* deviceRecoveryFailures
  wait,        \* until nextDeviceRecovery, in units of 250 ms
  shown,       \* history: generations whose frames a callback has rendered
  told         \* history: how often (up to 2) each generation was announced
               \* to callbacks as about to be destroyed

deviceVars == <<initialized, mode, device, targets, removed, lost, generation, window,
                client, size, failures, wait, shown, told>>
lifecycleVars == <<deviceVars, textureVars>>

Generations == 0 .. MaxGeneration
Sizes == 1 .. 2
ModeSize == 1

DeviceTypeOK ==
  /\ initialized \in BOOLEAN
  /\ mode \in Modes \cup {NoMode}
  /\ device \in BOOLEAN /\ targets \in BOOLEAN
  /\ removed \in BOOLEAN /\ lost \in BOOLEAN
  /\ generation \in Generations
  /\ window \in Windows \cup {NoWindow}
  /\ client \in Sizes \cup {0} /\ size \in Sizes \cup {0}
  /\ TexturesTypeOK
  /\ failures \in 0 .. MaxFailures /\ wait \in 0 .. 2 ^ MaxFailures
  /\ shown \subseteq Generations
  /\ told \in [Generations -> 0 .. 2]

DeviceInit ==
  /\ initialized = FALSE
  /\ mode = NoMode
  /\ device = FALSE /\ targets = FALSE
  /\ removed = FALSE /\ lost = FALSE
  /\ generation = 0
  /\ window = NoWindow /\ client = 0 /\ size = 0
  /\ TexturesInit
  /\ failures = 0 /\ wait = 0
  /\ shown = {} /\ told = [g \in Generations |-> 0]

IsDeviceReady == device /\ targets
CanBreak == generation < MaxGeneration

-----------------------------------------------------------------------------
(* How DestroyD3D11Context and SetVideoMode leave each part of the state.  *)

\* Mutant of Announce: only a device that could draw is announced.
AnnounceReady(n) ==
  told' = [told EXCEPT ![generation] =
             IF ~IsDeviceReady THEN @ ELSE IF @ + n > 2 THEN 2 ELSE @ + n]

\* n calls of DestroyD3D11Context that find a device, and invoke the callback.
Announce(n) ==
  told' = [told EXCEPT ![generation] = IF @ + n > 2 THEN 2 ELSE @ + n]

\* Mutant of KeepsWindow: every device gets a window of its own.
KeepsNoWindow(keep) == FALSE

\* SetVideoMode uses the window there is, on a recovery.
KeepsWindow(keep) == keep /\ window # NoWindow

(***************************************************************************)
(* What SetVideoMode can end with: the window's style or the window cannot *)
(* be made, no device is created, the device cannot be made ready for      *)
(* drawing (full screen, pipeline, targets), the textures cannot be        *)
(* recreated, or all is well.                                              *)
(***************************************************************************)
Outcomes == {"style", "window", "device", "setup", "textures", "ok"}

\* A window made now is still there at the end: a recovery keeps it for the next
\* attempt, and otherwise it goes with everything else when a step fails.
LeavesWindow(keep, outcome) ==
  outcome = "ok" \/ (keep /\ outcome \notin {"style", "window"})

\* Mutant of NextGeneration: a recovery goes on under the old number.
NextGenerationUnlessKept(keep) == IF keep THEN generation ELSE generation + 1

\* NextD3D11DeviceGeneration, for every device that becomes ready.
NextGeneration(keep) == generation + 1

(***************************************************************************)
(* DestroyD3D11Context, and then the rest of SetVideoMode(m).  keep is     *)
(* recoveringDevice: window and texture names stay, and no new window is   *)
(* needed.  Whatever was made when a step fails is destroyed again.        *)
(* lost, failures and wait are left to the caller.                         *)
(***************************************************************************)
SetUpDevice(m, keep, outcome) ==
  LET ok == outcome = "ok"
      before == IF device THEN 1 ELSE 0
      after == IF outcome \in {"setup", "textures"} THEN 1 ELSE 0
  IN /\ outcome = "window" => ~KeepsWindow(keep)
     /\ outcome = "textures" => keep /\ \E t \in TextureNames : textures[t].shape # 0
     /\ Announce(before + after)
     /\ device' = ok
     /\ targets' = ok
     /\ removed' = FALSE
     /\ mode' = IF ok THEN m ELSE mode
     /\ generation' = IF ok THEN NextGeneration(keep) ELSE generation
     /\ textures' = IF ok THEN Recreated(keep) ELSE Destroyed(keep)
     /\ TexturesLoseDevice(keep)
     /\ CASE KeepsWindow(keep) -> UNCHANGED <<window, client>>
          [] ~KeepsWindow(keep) /\ LeavesWindow(keep, outcome) ->
               window' \in Windows \ {window} /\ client' = ModeSize
          [] OTHER -> window' = NoWindow /\ client' = 0
     /\ size' = IF ~ok THEN size
                ELSE IF KeepsWindow(keep) /\ client # 0 THEN client ELSE ModeSize

\* DestroyD3D11Context(false), on its own.
LeaveDevice ==
  /\ Announce(IF device THEN 1 ELSE 0)
  /\ device' = FALSE /\ targets' = FALSE /\ removed' = FALSE
  /\ textures' = Destroyed(FALSE)
  /\ TexturesLoseDevice(FALSE)
  /\ window' = NoWindow /\ client' = 0
  /\ mode' = NoMode
  /\ size' = 0
  /\ UNCHANGED <<lost, generation, failures, wait, shown>>

-----------------------------------------------------------------------------
(* What SC4 calls.                                                         *)

Initialize ==
  /\ ~initialized
  /\ initialized' = TRUE
  /\ UNCHANGED <<mode, device, targets, removed, lost, generation, window, client,
                 size, textureVars, failures, wait, shown, told>>

SetVideoMode(m, outcome) ==
  /\ initialized
  /\ CanBreak
  /\ SetUpDevice(m, FALSE, outcome)
  /\ lost' = (lost /\ outcome # "ok")
  /\ UNCHANGED <<initialized, failures, wait, shown>>

\* SetVideoMode(-1).
LeaveVideoMode == LeaveDevice /\ UNCHANGED initialized

Shutdown == LeaveDevice /\ initialized' = FALSE

\* A draw or a texture's creation fails with the removed device: NoteDeviceLoss.
NoteDeviceLoss ==
  /\ device /\ removed
  /\ ~lost
  /\ lost' = TRUE
  /\ UNCHANGED <<initialized, mode, device, targets, removed, generation, window,
                 client, size, textureVars, failures, wait, shown, told>>

\* SC4's calls on its textures.  Only the making of a resource can fail for want
\* of the device, and it notes a device that was removed.
MakesResource(created) ==
  /\ created => device /\ ~removed
  /\ lost' = (lost \/ (~created /\ device /\ removed))
  /\ UNCHANGED <<initialized, mode, device, targets, removed, generation, window, client,
                 size, failures, wait, shown, told>>

TextureCalls ==
  /\ \/ \E t \in TextureNames : GenTextures(t) \/ DeleteTextures({t})
     \/ \E s \in Stages, t \in TextureNames \cup {NoTexture} : BindTexture(s, t)
     \/ \E s \in Stages : TexParameter(s)
     \/ device /\ \E t \in TextureNames, level \in Shapes, pixels \in Pixels :
                    LoadTextureLevel(t, level, pixels)
     \/ IsDeviceReady /\ ~lost /\ \E s \in Stages, made \in BOOLEAN : UseTexture(s, made)
  /\ UNCHANGED deviceVars

TextureResources(created) ==
  /\ \E s \in Stages, shape \in Shapes :
       \/ \E t \in TextureNames, n \in 1..shape : CreateTexture(s, t, shape, n, created)
       \/ \E level \in 1..shape, pixels \in Pixels \cup {Blank} :
            TexImage2D(s, level, shape, pixels, created)
  /\ MakesResource(created)

-----------------------------------------------------------------------------
(* Flush, one action for each way through it.  A Flush of a minimized      *)
(* window, or one that waits for the next attempt, changes nothing here.   *)

\* Mutant of FailuresAfterThis: the delay doubles for ever.
FailuresUncapped == failures + 1

\* The failures the next delay is computed from.
FailuresAfterThis == IF failures < MaxFailures THEN failures + 1 ELSE failures

\* RecoverFromDeviceLoss, when an attempt is due.
Recover(outcome) ==
  LET ok == mode # NoMode /\ outcome = "ok"
  IN /\ wait = 0
     /\ IF mode # NoMode
          THEN SetUpDevice(mode, TRUE, outcome)
          ELSE UNCHANGED <<mode, device, targets, removed, generation, window,
                           client, size, told, textureVars>>
     /\ lost' = ~ok
     /\ failures' = IF ok THEN 0 ELSE FailuresAfterThis
     /\ wait' = IF ok THEN 0 ELSE 2 ^ FailuresAfterThis

\* Mutant of FlushRecovers: only a device noted as lost is recovered.
FlushRecoversLost(outcome) ==
  /\ initialized
  /\ lost
  /\ Recover(outcome)
  /\ UNCHANGED <<initialized, shown>>

FlushRecovers(outcome) ==
  /\ initialized
  /\ lost \/ ~IsDeviceReady
  /\ Recover(outcome)
  /\ UNCHANGED <<initialized, shown>>

\* What a Flush that reaches its resize check has found.
Draws == initialized /\ ~lost /\ IsDeviceReady /\ client # 0

\* The frame is shown, after the buffers were resized to the window if need be.
FlushPresents ==
  /\ Draws
  /\ ~removed
  /\ size' = client
  /\ shown' = shown \cup {generation}
  /\ UNCHANGED <<initialized, mode, device, targets, removed, lost, generation, window,
                 client, textureVars, failures, wait, told>>

\* What CreateBackBufferTargets(s) can come to: no targets, or targets of size s,
\* which are there even when the buffer regions cannot be made again after them.
BackBufferTargets(s, outcome) ==
  /\ targets' = (outcome # "none")
  /\ size' = IF outcome = "none" THEN size ELSE s

\* ResizeBuffers fails with a working device, and targets of the old size are
\* made again if they can be; or it succeeds and something of the new size
\* fails.  The frame is not shown.
FlushCannotResize(resized, outcome) ==
  /\ Draws
  /\ ~removed
  /\ client # size
  /\ CanBreak
  /\ BackBufferTargets(IF resized THEN client ELSE size, outcome)
  /\ resized => outcome # "all"
  /\ UNCHANGED <<initialized, mode, device, removed, lost, generation, window, client,
                 textureVars, failures, wait, shown, told>>

\* ResizeBuffers or Present finds the device removed, and the same Flush recovers
\* it, unless the delay left by earlier attempts is not over.
FlushFindsLoss(outcome) ==
  /\ Draws
  /\ removed
  /\ shown' = IF client = size THEN shown \cup {generation} ELSE shown
  /\ IF wait = 0
       THEN Recover(outcome)
       ELSE /\ lost' = TRUE
            /\ targets' = (client = size)
            /\ UNCHANGED <<mode, device, removed, generation, window, client, size,
                           textureVars, failures, wait, told>>
  /\ UNCHANGED initialized

-----------------------------------------------------------------------------
(* The GPU, the player and the clock.                                      *)

RemoveDevice ==
  /\ device /\ ~removed
  /\ CanBreak
  /\ removed' = TRUE
  /\ UNCHANGED <<initialized, mode, device, targets, lost, generation, window, client,
                 size, textureVars, failures, wait, shown, told>>

ResizeWindow(s) ==
  /\ window # NoWindow
  /\ client' = s
  /\ UNCHANGED <<initialized, mode, device, targets, removed, lost, generation, window,
                 size, textureVars, failures, wait, shown, told>>

Tick ==
  /\ wait > 0
  /\ wait' = wait - 1
  /\ UNCHANGED <<initialized, mode, device, targets, removed, lost, generation, window,
                 client, size, textureVars, failures, shown, told>>

DeviceNext ==
  \/ Initialize
  \/ \E m \in Modes, outcome \in Outcomes \ {"textures"} : SetVideoMode(m, outcome)
  \/ LeaveVideoMode
  \/ Shutdown
  \/ NoteDeviceLoss
  \/ TextureCalls
  \/ \E created \in BOOLEAN : TextureResources(created)
  \/ \E outcome \in Outcomes : FlushRecovers(outcome)
  \/ FlushPresents
  \/ \E resized \in BOOLEAN, outcome \in {"none", "no regions", "all"} :
       FlushCannotResize(resized, outcome)
  \/ \E outcome \in Outcomes : FlushFindsLoss(outcome)
  \/ RemoveDevice
  \/ \E s \in Sizes \cup {0} : ResizeWindow(s)
  \/ Tick

DeviceSpec == DeviceInit /\ [][DeviceNext]_lifecycleVars

(***************************************************************************)
(* SC4 calls Flush with every frame and time passes.  The system lets the  *)
(* device be created again some time: an attempt repeated for ever is not  *)
(* refused for ever.                                                       *)
(***************************************************************************)
FairDeviceSpec ==
  /\ DeviceSpec
  /\ WF_lifecycleVars(Tick)
  /\ WF_lifecycleVars(\E outcome \in Outcomes : FlushRecovers(outcome))
  /\ SF_lifecycleVars(FlushRecovers("ok"))

-----------------------------------------------------------------------------
(* "Device recovery keeps the window.  SC4 holds on to its handle": only   *)
(* SC4's own calls may take its window away or put another in its place,   *)
(* or make a texture name it holds invalid.  Recovery is invisible to it.  *)
RecoveryKeepsWhatSC4Holds ==
  [][\/ /\ window \in {NoWindow, window'}
        /\ \A t \in TextureNames : textures[t].named => textures'[t].named
     \/ \E m \in Modes, outcome \in Outcomes : SetVideoMode(m, outcome)
     \/ LeaveVideoMode
     \/ Shutdown
     \/ \E t \in TextureNames : DeleteTextures({t})]_lifecycleVars

\* A draw on a device that is ready finds a texture for every name SC4 gave a
\* size, whichever attempts to recover failed before, and finds the one the map
\* holds, not a view that went with an older device, shape or name.
DrawsFindTheirTextures ==
  /\ IsDeviceReady => \A t \in TextureNames : textures[t].shape # 0 => textures[t].resource
  /\ samplers # {} => device
  /\ CachedPointersAreCurrent

\* No copy of SC4's pixels exists but the texture's own levels: a level that is
\* filled stays filled until SC4 fills it again, gives the texture another shape
\* or deletes it, or the device goes.  Making room for further levels loses none.
LevelsKeepTheirPixels ==
  [][\A t \in TextureNames : \A i \in 1..Len(textures[t].levels) :
       \/ textures[t].levels[i] = Blank
       \/ i <= Len(textures'[t].levels) /\ textures'[t].levels[i] # Blank
       \/ textures'[t].shape # textures[t].shape
       \/ ~device' \/ generation' # generation]_lifecycleVars

\* A plugin that was shown a generation is told before it is destroyed, on every
\* path that destroys it.
ShownGenerationsAreAnnounced ==
  \A g \in shown : told[g] = 0 => device /\ generation = g

\* No frame of a generation is shown after its destruction was announced.
NoFrameAfterAnnouncement ==
  [][FlushPresents => told[generation] = 0]_lifecycleVars

\* A device SC4 has a mode for, that is known to be lost or is not there, comes
\* back, however many attempts fail and whatever SC4 does meanwhile.
DeviceComesBack ==
  (initialized /\ mode # NoMode /\ (lost \/ ~IsDeviceReady))
    ~> (mode = NoMode \/ (IsDeviceReady /\ ~lost))
================================================================================
