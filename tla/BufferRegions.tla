----------------------------- MODULE BufferRegions -----------------------------
(***************************************************************************)
(* The buffer region extension: SC4 saves parts of the color or the depth  *)
(* buffer in regions and draws them again in later frames.  D3D11 cannot   *)
(* copy a part of a depth buffer, so depth goes through a scratch copy of  *)
(* it, which is kept as long as depthRegionScratchValid says that it is    *)
(* still the same.  Pictures have one row.                                 *)
(***************************************************************************)
EXTENDS Naturals, FiniteSets, FiniteSetsExt

CONSTANTS
  MaxRegions,          \* MAX_BUFFER_REGIONS
  Widths,              \* of the window
  Values,              \* of pixels
  Undefined,           \* what a new texture holds
  NoTexture,
  CallbackDrawsDepth   \* a frame callback writes the depth buffer it finds bound

ASSUME WidthsAssumption == MaxRegions \in Nat /\ Widths \subseteq Nat \ {0}
ASSUME FlagsAssumption == CallbackDrawsDepth \in BOOLEAN

VARIABLES
  device,        \* d3dDevice exists
  windowWidth,
  buffers,       \* backBufferTexture and depthStencilTexture
  scratch, scratchValid,
  allocated,     \* bufferRegionFlags
  bufferRegions,
  leftBehind     \* history: the regions that the last resize of these buffers did
                 \* not get to recreate, because one of them found no memory

scratchVars == <<scratch, scratchValid>>
regionVars == <<allocated, bufferRegions, leftBehind>>
vars == <<device, windowWidth, buffers, scratchVars, regionVars>>

Types == {"color", "depth"}
Regions == 1 .. MaxRegions
Pixels == Values \cup {Undefined}

ASSUME NoTextureAssumption == \A w \in Widths : NoTexture \notin [1 .. w -> Pixels]

Pictures == UNION {[1 .. w -> Pixels] : w \in Widths}
Textures == Pictures \cup {NoTexture}

TypeOK ==
  /\ device \in BOOLEAN
  /\ windowWidth \in Widths \cup {0}
  /\ buffers \in [Types -> Textures]
  /\ scratch \in Textures
  /\ scratchValid \in BOOLEAN
  /\ allocated \subseteq Regions
  /\ bufferRegions \in [Regions -> [type : Types, texture : Textures]]
  /\ leftBehind \subseteq Regions

NewTexture(w) == [x \in 1 .. w |-> Undefined]
NoTargets == [t \in Types |-> NoTexture]
NewTargets(w) == [t \in Types |-> NewTexture(w)]

Init ==
  /\ device = FALSE
  /\ windowWidth = 0
  /\ buffers = NoTargets
  /\ scratch = NoTexture
  /\ scratchValid = FALSE
  /\ allocated = {}
  /\ bufferRegions = [r \in Regions |-> [type |-> "color", texture |-> NoTexture]]
  /\ leftBehind = {}

-----------------------------------------------------------------------------
(* D3D11's copies.  One that does not fit its textures is dropped.         *)

CopyResource(destination, source) ==
  IF destination # NoTexture /\ source # NoTexture /\ DOMAIN source = DOMAIN destination
    THEN source
    ELSE destination

\* CopySubresourceRegion: n pixels of source, starting at from, to the
\* destination's, starting at to.
Copied(destination, to, source, from, n) ==
  IF to .. to + n - 1 \subseteq DOMAIN destination /\ from .. from + n - 1 \subseteq DOMAIN source
    THEN [x \in DOMAIN destination |->
            IF x \in to .. to + n - 1 THEN source[from + (x - to)] ELSE destination[x]]
    ELSE destination

-----------------------------------------------------------------------------
IsDeviceReady == device /\ buffers # NoTargets

IsBufferRegion(r) == r \in allocated /\ bufferRegions[r].texture # NoTexture

\* A range of pixels within the window; the texture's own size is not looked at.
RangeFits(first, n) == n > 0 /\ first + n - 1 <= windowWidth

FreeRegions == Regions \ allocated

\* The first free region.  When the texture cannot be created nothing changes.
NewBufferRegion(type) ==
  /\ device /\ windowWidth > 0
  /\ FreeRegions # {}
  /\ LET r == Min(FreeRegions)
     IN /\ bufferRegions' = [bufferRegions EXCEPT ![r] = [type |-> type, texture |-> NewTexture(windowWidth)]]
        /\ allocated' = allocated \cup {r}
  /\ UNCHANGED <<device, windowWidth, buffers, scratchVars, leftBehind>>

DeleteBufferRegion(r) ==
  /\ bufferRegions' = [bufferRegions EXCEPT ![r].texture = NoTexture]
  /\ allocated' = allocated \ {r}
  /\ leftBehind' = leftBehind \ {r}
  /\ UNCHANGED <<device, windowWidth, buffers, scratchVars>>

DeleteAllBufferRegions ==
  /\ bufferRegions' = [r \in Regions |-> [bufferRegions[r] EXCEPT !.texture = NoTexture]]
  /\ allocated' = {}
  /\ leftBehind' = {}
  /\ UNCHANGED <<device, windowWidth, buffers, scratchVars>>

\* EnsureDepthRegionScratch, when it succeeds; otherwise the call ends there.
EnsuredScratch == IF scratch = NoTexture THEN NewTexture(windowWidth) ELSE scratch

RefreshedScratch == IF scratchValid THEN scratch ELSE CopyResource(EnsuredScratch, buffers["depth"])

Transfer(r, from, to, n) ==
  /\ IsBufferRegion(r)
  /\ RangeFits(from, n) /\ RangeFits(to, n)
  /\ UNCHANGED <<device, windowWidth, allocated, leftBehind>>

ReadInto(r, from, to, n, source) ==
  bufferRegions' = [bufferRegions EXCEPT ![r].texture = Copied(@, to, source, from, n)]

ReadColorRegion(r, from, to, n) ==
  /\ bufferRegions[r].type = "color"
  /\ buffers["color"] # NoTexture
  /\ ReadInto(r, from, to, n, buffers["color"])
  /\ UNCHANGED <<buffers, scratchVars>>

ReadDepthRegion(r, from, to, n) ==
  /\ bufferRegions[r].type = "depth"
  /\ scratch' = RefreshedScratch
  /\ scratchValid' = TRUE
  /\ ReadInto(r, from, to, n, scratch')
  /\ UNCHANGED buffers

ReadBufferRegion(r, from, to, n) ==
  /\ Transfer(r, from, to, n)
  /\ ReadColorRegion(r, from, to, n) \/ ReadDepthRegion(r, from, to, n)

DrawColorRegion(r, from, to, n) ==
  /\ bufferRegions[r].type = "color"
  /\ buffers["color"] # NoTexture
  /\ buffers' = [buffers EXCEPT !["color"] = Copied(@, to, bufferRegions[r].texture, from, n)]
  /\ UNCHANGED <<scratchVars, bufferRegions>>

\* Mutant of DrawDepthRegion: the scratch copy is patched as it is.
DrawDepthRegionUnrefreshed(r, from, to, n) ==
  /\ bufferRegions[r].type = "depth"
  /\ scratch' = Copied(EnsuredScratch, to, bufferRegions[r].texture, from, n)
  /\ buffers' = [buffers EXCEPT !["depth"] = CopyResource(@, scratch')]
  /\ scratchValid' = TRUE
  /\ UNCHANGED bufferRegions

DrawDepthRegion(r, from, to, n) ==
  /\ bufferRegions[r].type = "depth"
  /\ scratch' = Copied(RefreshedScratch, to, bufferRegions[r].texture, from, n)
  /\ buffers' = [buffers EXCEPT !["depth"] = CopyResource(@, scratch')]
  /\ scratchValid' = TRUE
  /\ UNCHANGED bufferRegions

DrawBufferRegion(r, from, to, n) ==
  /\ Transfer(r, from, to, n)
  /\ DrawColorRegion(r, from, to, n) \/ DrawDepthRegion(r, from, to, n)

-----------------------------------------------------------------------------
(* What else writes the buffers.                                           *)

Clear(types, v) ==
  /\ device
  /\ buffers' = [t \in Types |->
                   IF t \in types /\ buffers[t] # NoTexture THEN [x \in DOMAIN buffers[t] |-> v] ELSE buffers[t]]
  /\ scratchValid' = (scratchValid /\ ~("depth" \in types /\ buffers["depth"] # NoTexture))
  /\ UNCHANGED <<device, windowWidth, scratch, regionVars>>

\* Pixel x of the buffers of these types.
Painted(types, x, v) ==
  [t \in Types |-> IF t \in types THEN [buffers[t] EXCEPT ![x] = v] ELSE buffers[t]]

\* Mutant of DepthIsWritten: stencil is forgotten.
DepthTestWrites(test, write, stencil) == test /\ write

\* The depth buffer also holds the stencil.
DepthIsWritten(test, write, stencil) == (test /\ write) \/ stencil

\* A draw call whose pipeline was bound, under the state it was bound with.
DrawGeometry(x, v, test, write, stencil) ==
  /\ IsDeviceReady
  /\ \E covers \in {{}, {"color"}, {"depth"}, Types} :
       /\ "depth" \in covers => (test /\ write) \/ stencil
       /\ buffers' = Painted(covers, x, v)
  /\ scratchValid' = (scratchValid /\ ~DepthIsWritten(test, write, stencil))
  /\ UNCHANGED <<device, windowWidth, scratch, regionVars>>

\* FlushFrame's render event, with both buffers bound.
FrameCallbackDraws(x, v) ==
  /\ IsDeviceReady
  /\ buffers' = Painted(IF CallbackDrawsDepth THEN Types ELSE {"color"}, x, v)
  /\ UNCHANGED <<device, windowWidth, scratchVars, regionVars>>

-----------------------------------------------------------------------------
(* The buffers come and go.                                                *)

\* Where RecreateBufferRegions ends: at the first region that fails, or past the last.
RecreationEnds == allocated \cup {MaxRegions + 1}

\* Mutant of Recreated: textures that are there are kept.
RecreatedMissing(w, end) ==
  [r \in Regions |->
     IF r \in allocated /\ r < end /\ bufferRegions[r].texture = NoTexture
       THEN [bufferRegions[r] EXCEPT !.texture = NewTexture(w)]
       ELSE bufferRegions[r]]

Recreated(w, end) ==
  [r \in Regions |->
     IF r \in allocated /\ r < end THEN [bufferRegions[r] EXCEPT !.texture = NewTexture(w)]
     ELSE IF r = end THEN [bufferRegions[r] EXCEPT !.texture = NoTexture]
     ELSE bufferRegions[r]]

\* CreateBackBufferTargets on a working device, once the old targets are gone:
\* for the window's new width, or for the old one if the swap chain kept it.
ResizeBackBuffer(w) ==
  /\ IsDeviceReady
  /\ \E end \in RecreationEnds :
       /\ bufferRegions' = Recreated(w, end)
       /\ leftBehind' = {r \in allocated : r >= end}
  /\ buffers' = NewTargets(w)
  /\ windowWidth' = w
  /\ scratch' = NoTexture
  /\ scratchValid' = FALSE
  /\ UNCHANGED <<device, allocated>>

\* It fails before the depth buffer's view is created, or there.
ResizeLosesTargets ==
  /\ IsDeviceReady
  /\ buffers' = NoTargets
  /\ \/ UNCHANGED scratchVars
     \/ scratch' = NoTexture /\ scratchValid' = FALSE
  /\ UNCHANGED <<device, windowWidth, regionVars>>

\* DestroyD3D11Context, without its end: a recovery keeps the regions' flags.  A
\* device that gets buffers again has recreated every region, or is given up.
Destroyed(preserve) ==
  /\ scratch' = NoTexture
  /\ scratchValid' = FALSE
  /\ allocated' = IF preserve THEN allocated ELSE {}
  /\ leftBehind' = {}

WithoutTextures == [r \in Regions |-> [bufferRegions[r] EXCEPT !.texture = NoTexture]]

LeaveDevice(preserve) ==
  /\ Destroyed(preserve)
  /\ device' = FALSE
  /\ buffers' = NoTargets
  /\ bufferRegions' = WithoutTextures
  /\ windowWidth' \in {windowWidth} \cup Widths  \* a new device may have got as far as its targets

\* SetVideoMode, from SC4 or from a recovery.
SetVideoMode(w, preserve) ==
  /\ Destroyed(preserve)
  /\ device' = TRUE
  /\ windowWidth' = w
  /\ buffers' = NewTargets(w)
  /\ bufferRegions' = [r \in Regions |->
       [WithoutTextures[r] EXCEPT !.texture = IF r \in allocated' THEN NewTexture(w) ELSE @]]

Next ==
  \/ \E type \in Types : NewBufferRegion(type)
  \/ \E r \in Regions : DeleteBufferRegion(r)
  \/ DeleteAllBufferRegions
  \/ \E r \in Regions, from, to, n \in 1 .. windowWidth :
       ReadBufferRegion(r, from, to, n) \/ DrawBufferRegion(r, from, to, n)
  \/ \E types \in {{"color"}, {"depth"}, Types}, v \in Values : Clear(types, v)
  \/ \E x \in 1 .. windowWidth, v \in Values :
       \/ \E test, write, stencil \in BOOLEAN : DrawGeometry(x, v, test, write, stencil)
       \/ FrameCallbackDraws(x, v)
  \/ \E w \in Widths : ResizeBackBuffer(w)
  \/ ResizeLosesTargets
  \/ \E preserve \in BOOLEAN : LeaveDevice(preserve)
  \/ \E w \in Widths, preserve \in BOOLEAN : SetVideoMode(w, preserve)

Spec == Init /\ [][Next]_vars

-----------------------------------------------------------------------------
\* "Plain copy of the depth buffer": whenever the flag says the scratch copy is
\* valid, every draw, clear, copy and resize since has left the two the same.
ScratchIsCurrent ==
  scratchValid /\ buffers["depth"] # NoTexture => scratch = buffers["depth"]

\* As long as there are buffers, every region SC4 holds has a texture of their
\* size, across resizes and recoveries, so that the ranges RangeFits lets through
\* exist: except those from the first that found no memory when the window last
\* changed, up to the next resize, recovery or NewBufferRegion in their place.
RegionsFitWindow ==
  IsDeviceReady => \A r \in allocated \ leftBehind :
    bufferRegions[r].texture # NoTexture /\ DOMAIN bufferRegions[r].texture = 1 .. windowWidth

\* "copy them to an offscreen area, and redraw them at a later time": a read
\* saves exactly the buffer's own pixels, and drawing a region changes those
\* pixels of the buffer and no other.  Nobody can tell that depth takes a detour.
RegionsGiveBackWhatTheySaved ==
  [][\A r \in Regions, from, to, n \in 1 .. windowWidth :
       LET type == bufferRegions[r].type
       IN buffers[type] # NoTexture =>
            /\ ReadBufferRegion(r, from, to, n) =>
                 /\ bufferRegions' = [bufferRegions EXCEPT ![r].texture = Copied(@, to, buffers[type], from, n)]
                 /\ buffers' = buffers
            /\ DrawBufferRegion(r, from, to, n) =>
                 buffers' = [buffers EXCEPT ![type] = Copied(@, to, bufferRegions[r].texture, from, n)]]_vars
================================================================================
