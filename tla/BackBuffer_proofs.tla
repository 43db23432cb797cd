-------------------------- MODULE BackBuffer_proofs ---------------------------
(***************************************************************************)
(* What is in the back buffer when it is shown or given back to SC4.       *)
(*                                                                         *)
(* Regions: the detour that depth takes through the scratch copy cannot be *)
(* told from a direct copy, for any number of regions, any window widths   *)
(* and any sequence of calls, as long as frame callbacks leave the depth   *)
(* buffer alone; the regions it goes through fit the window, but for those *)
(* a resize found no memory for.                                           *)
(*                                                                         *)
(* The end of a scene: shadows are drawn from the geometry, the boxes and  *)
(* the terrain they belong to, and ReShade's effects appear once and with  *)
(* the depth of the scene, for any casters, models, maps and windows and   *)
(* whichever calls fail.                                                   *)
(***************************************************************************)
EXTENDS BufferRegions, SceneEffects, SequenceTheorems, FiniteSetTheorems,
        WellFoundedInduction, TLAPS

-----------------------------------------------------------------------------
(* Buffer regions: the inductive invariant.                                *)

(***************************************************************************)
(* The two buffers come and go together and are of the window's width, and *)
(* so is the scratch copy while they are there: CopyResource between them  *)
(* is never dropped.                                                       *)
(***************************************************************************)
BuffersFit ==
  /\ buffers # NoTargets => /\ windowWidth \in Widths
                            /\ buffers \in [Types -> [1 .. windowWidth -> Pixels]]
  /\ scratch # NoTexture => /\ windowWidth \in Widths
                            /\ scratch \in [1 .. windowWidth -> Pixels]
  /\ scratchValid => scratch # NoTexture

RegionsAreSafe ==
  /\ TypeOK
  /\ BuffersFit
  /\ ScratchIsCurrent
  /\ RegionsFitWindow

\* A function of pixels over a window's width is a picture, and not the missing one.
LEMMA PictureOfWidth ==
  ASSUME NEW w \in Widths, NEW p \in [1 .. w -> Pixels]
  PROVE  p \in Pictures /\ p \in Textures /\ p # NoTexture /\ DOMAIN p = 1 .. w
BY NoTextureAssumption DEF Pictures, Textures

\* A region's new texture is a picture of the window's width.
LEMMA NewTextureIsPicture ==
  ASSUME NEW w \in Widths
  PROVE  NewTexture(w) \in [1 .. w -> Pixels]
BY DEF NewTexture, Pixels

\* The new targets of a window.
LEMMA NewTargetsFit ==
  ASSUME NEW w \in Widths
  PROVE  /\ NewTargets(w) \in [Types -> [1 .. w -> Pixels]]
         /\ NewTargets(w) \in [Types -> Textures]
         /\ NewTargets(w) # NoTargets
<1>1. /\ NewTexture(w) \in [1 .. w -> Pixels]
      /\ NewTexture(w) \in Textures /\ NewTexture(w) # NoTexture
  BY NewTextureIsPicture, PictureOfWidth
<1>2. NewTargets(w)["depth"] # NoTargets["depth"]
  BY <1>1 DEF NewTargets, NoTargets, Types
<1> QED
  BY <1>1, <1>2 DEF NewTargets

\* A partial copy leaves a picture of the same width.
LEMMA CopiedIsPicture ==
  ASSUME NEW p \in Pictures, NEW q \in Pictures, NEW to \in Nat, NEW from \in Nat, NEW n \in Nat
  PROVE  /\ Copied(p, to, q, from, n) \in Pictures
         /\ Copied(p, to, q, from, n) # NoTexture
         /\ DOMAIN Copied(p, to, q, from, n) = DOMAIN p
         /\ \A w \in Widths : p \in [1 .. w -> Pixels] => Copied(p, to, q, from, n) \in [1 .. w -> Pixels]
<1> PICK w \in Widths, v \in Widths : p \in [1 .. w -> Pixels] /\ q \in [1 .. v -> Pixels]
  BY DEF Pictures
<1> DEFINE new == Copied(p, to, q, from, n)
<1>1. new \in [1 .. w -> Pixels]
  <2>1. CASE to .. to + n - 1 \subseteq DOMAIN p /\ from .. from + n - 1 \subseteq DOMAIN q
    <3>1. new = [x \in 1 .. w |-> IF x \in to .. to + n - 1 THEN q[from + (x - to)] ELSE p[x]]
      BY <2>1 DEF Copied
    <3>2. ASSUME NEW x \in 1 .. w, x \in to .. to + n - 1 PROVE q[from + (x - to)] \in Pixels
      <4>1. from + (x - to) \in from .. from + n - 1
        BY <3>2, WidthsAssumption
      <4> QED
        BY <4>1, <2>1
    <3>3. ASSUME NEW x \in 1 .. w PROVE p[x] \in Pixels
      OBVIOUS
    <3> QED
      BY <3>1, <3>2, <3>3
  <2>2. CASE ~(to .. to + n - 1 \subseteq DOMAIN p /\ from .. from + n - 1 \subseteq DOMAIN q)
    BY <2>2 DEF Copied
  <2> QED
    BY <2>1, <2>2
<1>2. ASSUME NEW u \in Widths, p \in [1 .. u -> Pixels] PROVE new \in [1 .. u -> Pixels]
  <2>1. 1 .. u = 1 .. w
    BY <1>2
  <2> QED
    BY <1>1, <2>1
<1> HIDE DEF new
<1> QED
  BY <1>1, <1>2, PictureOfWidth DEF new

-----------------------------------------------------------------------------
(* The scratch copy a call finds.                                          *)

\* A copy between a region and the back buffer has a window and a region to copy from.
LEMMA CallsHaveAWindow ==
  ASSUME RegionsAreSafe, NEW r \in Regions,
         NEW from \in 1 .. windowWidth, NEW to \in 1 .. windowWidth, NEW n \in 1 .. windowWidth,
         Transfer(r, from, to, n)
  PROVE  /\ windowWidth \in Widths /\ windowWidth \in Nat
         /\ from \in Nat /\ to \in Nat /\ n \in Nat
         /\ bufferRegions[r].texture \in Pictures
         /\ r \in allocated
<1>1. windowWidth \in Nat
  BY WidthsAssumption DEF RegionsAreSafe, TypeOK
<1>2. windowWidth # 0
  BY <1>1
<1> QED
  BY <1>1, <1>2 DEF RegionsAreSafe, TypeOK, Transfer, IsBufferRegion, Textures

\* It is a picture of the window's width; when there is a depth buffer, it is
\* that buffer's.
LEMMA RefreshedScratchIsTheDepth ==
  ASSUME RegionsAreSafe, windowWidth \in Widths
  PROVE  /\ RefreshedScratch \in [1 .. windowWidth -> Pixels]
         /\ RefreshedScratch \in Pictures /\ RefreshedScratch # NoTexture
         /\ buffers["depth"] # NoTexture => RefreshedScratch = buffers["depth"]
<1>1. EnsuredScratch \in [1 .. windowWidth -> Pixels]
  BY NewTextureIsPicture DEF EnsuredScratch, RegionsAreSafe, BuffersFit
<1>2. EnsuredScratch # NoTexture
  BY <1>1, PictureOfWidth
<1>3. buffers["depth"] # NoTexture => buffers["depth"] \in [1 .. windowWidth -> Pixels]
  <2>1. buffers["depth"] # NoTexture => buffers # NoTargets
    BY DEF NoTargets, Types
  <2> QED
    BY <2>1 DEF RegionsAreSafe, BuffersFit, Types
<1>4. CASE scratchValid
  BY <1>4, PictureOfWidth DEF RefreshedScratch, RegionsAreSafe, BuffersFit, ScratchIsCurrent
<1>5. CASE ~scratchValid
  <2>1. CASE buffers["depth"] = NoTexture
    BY <1>1, <1>5, <2>1, PictureOfWidth DEF RefreshedScratch, CopyResource
  <2>2. CASE buffers["depth"] # NoTexture
    <3>1. CopyResource(EnsuredScratch, buffers["depth"]) = buffers["depth"]
      BY <1>1, <1>2, <1>3, <2>2 DEF CopyResource
    <3> QED
      BY <1>3, <1>5, <2>2, <3>1, PictureOfWidth DEF RefreshedScratch
  <2> QED
    BY <2>1, <2>2
<1> QED
  BY <1>4, <1>5 DEF RegionsAreSafe, TypeOK

\* What reading and drawing a region do, apart from the scratch copy.
LEMMA TransferStep ==
  ASSUME RegionsAreSafe, NEW r \in Regions,
         NEW from \in 1 .. windowWidth, NEW to \in 1 .. windowWidth, NEW n \in 1 .. windowWidth,
         NEW type, type = bufferRegions[r].type, buffers[type] # NoTexture
  PROVE  /\ ReadBufferRegion(r, from, to, n) =>
              /\ bufferRegions' = [bufferRegions EXCEPT ![r].texture = Copied(@, to, buffers[type], from, n)]
              /\ buffers' = buffers
         /\ DrawBufferRegion(r, from, to, n) =>
              buffers' = [buffers EXCEPT ![type] = Copied(@, to, bufferRegions[r].texture, from, n)]
<1>1. ASSUME ReadBufferRegion(r, from, to, n)
      PROVE  /\ bufferRegions' = [bufferRegions EXCEPT ![r].texture = Copied(@, to, buffers[type], from, n)]
             /\ buffers' = buffers
  <2>1. CASE ReadColorRegion(r, from, to, n)
    BY <2>1 DEF ReadColorRegion, ReadInto
  <2>2. CASE ReadDepthRegion(r, from, to, n)
    BY <1>1, <2>2, CallsHaveAWindow, RefreshedScratchIsTheDepth DEF ReadBufferRegion, ReadDepthRegion, ReadInto
  <2> QED
    BY <1>1, <2>1, <2>2 DEF ReadBufferRegion
<1>2. ASSUME DrawBufferRegion(r, from, to, n)
      PROVE  buffers' = [buffers EXCEPT ![type] = Copied(@, to, bufferRegions[r].texture, from, n)]
  <2>1. CASE DrawColorRegion(r, from, to, n)
    BY <2>1 DEF DrawColorRegion
  <2>2. CASE DrawDepthRegion(r, from, to, n)
    <3> DEFINE patched == Copied(buffers["depth"], to, bufferRegions[r].texture, from, n)
    <3>1. Transfer(r, from, to, n) /\ type = "depth"
      BY <1>2, <2>2 DEF DrawBufferRegion, DrawDepthRegion
    <3>2. /\ RefreshedScratch = buffers["depth"]
          /\ buffers["depth"] \in Pictures
          /\ bufferRegions[r].texture \in Pictures
          /\ from \in Nat /\ to \in Nat /\ n \in Nat
      BY <3>1, CallsHaveAWindow, RefreshedScratchIsTheDepth
    <3>3. /\ patched # NoTexture
          /\ DOMAIN patched = DOMAIN buffers["depth"]
      <4> DEFINE depth == buffers["depth"]
                 texture == bufferRegions[r].texture
      <4>1. /\ depth \in Pictures /\ texture \in Pictures
            /\ from \in Nat /\ to \in Nat /\ n \in Nat
        BY <3>2
      <4> HIDE DEF depth, texture
      <4>2. /\ Copied(depth, to, texture, from, n) # NoTexture
            /\ DOMAIN Copied(depth, to, texture, from, n) = DOMAIN depth
        BY ONLY <4>1, CopiedIsPicture
      <4> QED
        BY <4>2 DEF depth, texture
    <3>4. buffers' = [buffers EXCEPT !["depth"] = CopyResource(@, patched)]
      BY <2>2, <3>2 DEF DrawDepthRegion
    <3>5. CopyResource(buffers["depth"], patched) = patched
      BY <3>1, <3>3 DEF CopyResource
    <3> QED
      BY <3>1, <3>4, <3>5
  <2> QED
    BY <1>2, <2>1, <2>2 DEF DrawBufferRegion
<1> QED
  BY <1>1, <1>2

-----------------------------------------------------------------------------
(* The strengthening is inductive.                                         *)

\* A step that gives every buffer and region it keeps a texture of the window's
\* width, and forgets the scratch copy, is safe.
LEMMA FreshTargetsAreSafe ==
  ASSUME RegionsAreSafe, NEW w \in Widths,
         buffers' = NewTargets(w), windowWidth' = w, device' \in BOOLEAN,
         scratch' = NoTexture, scratchValid' = FALSE,
         allocated' \subseteq Regions,
         bufferRegions' \in [Regions -> [type : Types, texture : Textures]],
         leftBehind' \subseteq Regions,
         \A r \in allocated' \ leftBehind' : bufferRegions'[r].texture = NewTexture(w)
  PROVE  RegionsAreSafe'
<1>1. TypeOK'
  BY NewTargetsFit DEF TypeOK, Textures
<1>2. BuffersFit'
  BY NewTargetsFit DEF BuffersFit
<1>3. ScratchIsCurrent'
  BY DEF ScratchIsCurrent
<1>4. RegionsFitWindow'
  BY NewTextureIsPicture, PictureOfWidth DEF RegionsFitWindow
<1> QED
  BY <1>1, <1>2, <1>3, <1>4 DEF RegionsAreSafe

\* So is one after which there are no buffers, unless the scratch copy changes.
LEMMA NoTargetsAreSafe ==
  ASSUME RegionsAreSafe,
         buffers' = NoTargets, windowWidth' \in Widths \cup {0}, device' \in BOOLEAN,
         \/ UNCHANGED <<windowWidth, scratch, scratchValid>>
         \/ scratch' = NoTexture /\ scratchValid' = FALSE,
         allocated' \subseteq Regions,
         leftBehind' \subseteq Regions,
         bufferRegions' \in [Regions -> [type : Types, texture : Textures]]
  PROVE  RegionsAreSafe'
<1>1. TypeOK'
  BY DEF TypeOK, RegionsAreSafe, NoTargets, Textures
<1>2. BuffersFit'
  BY DEF BuffersFit, RegionsAreSafe
<1>3. ScratchIsCurrent'
  BY DEF ScratchIsCurrent, NoTargets, Types
<1>4. RegionsFitWindow'
  BY DEF RegionsFitWindow, IsDeviceReady
<1> QED
  BY <1>1, <1>2, <1>3, <1>4 DEF RegionsAreSafe

\* Regions without textures are still regions.
LEMMA BlankRegions ==
  ASSUME TypeOK
  PROVE  WithoutTextures \in [Regions -> [type : Types, texture : Textures]]
BY DEF TypeOK, WithoutTextures, Textures

\* A step that only writes pixels of the buffers is safe if it clears the flag
\* whenever it writes depth.
LEMMA PaintingIsSafe ==
  ASSUME RegionsAreSafe, NEW painted, buffers' = painted,
         IF buffers = NoTargets
           THEN painted = NoTargets
           ELSE painted \in [Types -> [1 .. windowWidth -> Pixels]],
         scratchValid' \in BOOLEAN,
         scratchValid' => scratchValid /\ painted["depth"] = buffers["depth"],
         UNCHANGED <<device, windowWidth, scratch, regionVars>>
  PROVE  RegionsAreSafe'
<1>1. CASE buffers = NoTargets
  <2>1. TypeOK'
    BY <1>1 DEF TypeOK, RegionsAreSafe, regionVars
  <2>2. BuffersFit'
    BY <1>1 DEF BuffersFit, RegionsAreSafe
  <2>3. ScratchIsCurrent' /\ RegionsFitWindow'
    BY <1>1 DEF ScratchIsCurrent, RegionsFitWindow, RegionsAreSafe, IsDeviceReady, NoTargets, Types, regionVars
  <2> QED
    BY <2>1, <2>2, <2>3 DEF RegionsAreSafe
<1>2. CASE buffers # NoTargets
  <2>1. windowWidth \in Widths
    BY <1>2 DEF RegionsAreSafe, BuffersFit
  <2>2. painted \in [Types -> Textures]
    BY <1>2, <2>1, PictureOfWidth
  <2>3. TypeOK'
    BY <2>2 DEF TypeOK, RegionsAreSafe, regionVars
  <2>4. BuffersFit'
    BY <1>2, <2>1 DEF BuffersFit, RegionsAreSafe
  <2>5. ScratchIsCurrent'
    BY DEF ScratchIsCurrent, RegionsAreSafe
  <2>6. RegionsFitWindow'
    BY <1>2 DEF RegionsFitWindow, RegionsAreSafe, IsDeviceReady, regionVars
  <2> QED
    BY <2>3, <2>4, <2>5, <2>6 DEF RegionsAreSafe
<1> QED
  BY <1>1, <1>2

\* Min is defined for every set of numbers that is not empty.
LEMMA LeastElement ==
  ASSUME NEW S, S \subseteq Nat, S # {}
  PROVE  \E i \in S : \A j \in S : i <= j
<1> DEFINE less == {p \in Nat \X Nat : p[1] < p[2]}
<1>1. IsWellFoundedOn(less, Nat)
  BY NatLessThanWellFounded DEF OpToRel
<1> HIDE DEF less
<1>2. PICK i \in S : \A j \in S : <<j, i>> \notin less
  BY <1>1, WFMin
<1>3. ASSUME NEW j \in S PROVE i <= j
  <2>1. j < i => <<j, i>> \in less
    BY DEF less
  <2>2. ~(j < i)
    BY <1>2, <2>1
  <2> QED
    BY <2>2
<1> QED
  BY <1>3

\* NewBufferRegion gives out a free region that fits the window.
LEMMA NewRegionStep ==
  ASSUME RegionsAreSafe, NEW type \in Types, NewBufferRegion(type)
  PROVE  RegionsAreSafe'
<1> DEFINE r == Min(FreeRegions)
<1>1. windowWidth \in Widths
  BY DEF NewBufferRegion, RegionsAreSafe, TypeOK
<1>2. NewTexture(windowWidth) \in Textures /\ NewTexture(windowWidth) # NoTexture
      /\ DOMAIN NewTexture(windowWidth) = 1 .. windowWidth
  BY <1>1, NewTextureIsPicture, PictureOfWidth
<1>3. r \in FreeRegions
  <2>1. FreeRegions # {} /\ FreeRegions \subseteq Nat
    BY DEF NewBufferRegion, FreeRegions, Regions
  <2>2. \E i \in FreeRegions : \A j \in FreeRegions : i <= j
    BY <2>1, LeastElement
  <2> QED
    BY <2>2 DEF Min
<1> HIDE DEF r
<1>4. /\ bufferRegions' = [bufferRegions EXCEPT ![r] = [type |-> type, texture |-> NewTexture(windowWidth)]]
      /\ allocated' = allocated \cup {r}
      /\ UNCHANGED <<device, windowWidth, buffers, scratch, scratchValid, leftBehind>>
  BY DEF NewBufferRegion, r, scratchVars
<1>5. TypeOK'
  BY <1>2, <1>3, <1>4 DEF RegionsAreSafe, TypeOK, FreeRegions
<1>6. BuffersFit' /\ ScratchIsCurrent'
  BY <1>4 DEF RegionsAreSafe, BuffersFit, ScratchIsCurrent
<1>7. RegionsFitWindow'
  <2> SUFFICES ASSUME IsDeviceReady, NEW q \in allocated' \ leftBehind'
               PROVE  /\ bufferRegions'[q].texture # NoTexture
                      /\ DOMAIN bufferRegions'[q].texture = 1 .. windowWidth
    BY <1>4 DEF RegionsFitWindow, IsDeviceReady
  <2>1. CASE q = r
    <3>1. bufferRegions'[q].texture = NewTexture(windowWidth)
      BY <1>3, <1>4, <2>1 DEF RegionsAreSafe, TypeOK, FreeRegions
    <3> QED
      BY <1>2, <3>1
  <2>2. CASE q # r
    BY <1>4, <2>2 DEF RegionsAreSafe, RegionsFitWindow, TypeOK
  <2> QED
    BY <2>1, <2>2
<1> QED
  BY <1>5, <1>6, <1>7 DEF RegionsAreSafe

\* ReadBufferRegion writes its own region only, and the scratch copy it refreshes is
\* current.
LEMMA ReadStep ==
  ASSUME RegionsAreSafe, NEW r \in Regions,
         NEW from \in 1 .. windowWidth, NEW to \in 1 .. windowWidth, NEW n \in 1 .. windowWidth,
         ReadBufferRegion(r, from, to, n)
  PROVE  RegionsAreSafe'
<1>1. Transfer(r, from, to, n)
  BY DEF ReadBufferRegion
<1>2. /\ windowWidth \in Widths
      /\ bufferRegions[r].texture \in Pictures /\ r \in allocated
      /\ from \in Nat /\ to \in Nat /\ n \in Nat
  BY <1>1, CallsHaveAWindow
<1>3. ASSUME NEW source \in Pictures, ReadInto(r, from, to, n, source),
             scratch' \in Textures, scratchValid' \in BOOLEAN, BuffersFit', ScratchIsCurrent',
             buffers' = buffers
      PROVE  RegionsAreSafe'
  <2> DEFINE texture == bufferRegions[r].texture
             new == Copied(texture, to, source, from, n)
  <2>1. texture \in Pictures
    BY <1>2
  <2> HIDE DEF texture
  <2>2. new \in Pictures /\ new # NoTexture /\ DOMAIN new = DOMAIN texture
    BY ONLY <2>1, <1>2, <1>3, CopiedIsPicture
  <2> HIDE DEF new
  <2>3. bufferRegions' = [bufferRegions EXCEPT ![r] = [type |-> bufferRegions[r].type, texture |-> new]]
    <3>1. bufferRegions' = [bufferRegions EXCEPT ![r] = [bufferRegions[r] EXCEPT !.texture = new]]
      BY <1>3 DEF ReadInto, new, texture
    <3>2. bufferRegions[r] \in [type : Types, texture : Textures]
      BY DEF RegionsAreSafe, TypeOK
    <3>3. [bufferRegions[r] EXCEPT !.texture = new] = [type |-> bufferRegions[r].type, texture |-> new]
      BY <3>2
    <3> QED
      BY <3>1, <3>3
  <2>4. TypeOK'
    BY <1>1, <1>3, <2>2, <2>3 DEF TypeOK, RegionsAreSafe, Transfer, Textures
  <2>5. RegionsFitWindow'
    BY <1>1, <1>3, <2>2, <2>3 DEF RegionsFitWindow, RegionsAreSafe, Transfer, IsDeviceReady, TypeOK, texture
  <2> QED
    BY <1>3, <2>4, <2>5 DEF RegionsAreSafe
<1>4. CASE ReadColorRegion(r, from, to, n)
  <2>1. buffers["color"] \in Pictures
    BY <1>4 DEF ReadColorRegion, RegionsAreSafe, TypeOK, Textures, Types
  <2>2. BuffersFit' /\ ScratchIsCurrent'
    BY <1>1, <1>4 DEF ReadColorRegion, scratchVars, Transfer, RegionsAreSafe, BuffersFit, ScratchIsCurrent
  <2> QED
    BY <1>3, <1>4, <2>1, <2>2 DEF ReadColorRegion, scratchVars, RegionsAreSafe, TypeOK
<1>5. CASE ReadDepthRegion(r, from, to, n)
  <2>1. /\ scratch' \in Pictures /\ scratch' \in [1 .. windowWidth -> Pixels] /\ scratch' # NoTexture
        /\ buffers["depth"] # NoTexture => scratch' = buffers["depth"]
    BY <1>2, <1>5, RefreshedScratchIsTheDepth DEF ReadDepthRegion
  <2>2. BuffersFit' /\ ScratchIsCurrent'
    BY <1>1, <1>2, <1>5, <2>1 DEF ReadDepthRegion, Transfer, RegionsAreSafe, BuffersFit, ScratchIsCurrent
  <2>3. scratch' \in Textures /\ scratchValid' \in BOOLEAN
    BY <1>5, <2>1 DEF ReadDepthRegion, Textures
  <2>4. ReadInto(r, from, to, n, scratch') /\ buffers' = buffers
    BY <1>5 DEF ReadDepthRegion
  <2> QED
    BY <1>3, <2>1, <2>2, <2>3, <2>4
<1> QED
  BY <1>4, <1>5 DEF ReadBufferRegion

\* DrawBufferRegion changes the buffer of its type, and drops a scratch copy of depth.
LEMMA DrawStep ==
  ASSUME RegionsAreSafe, NEW r \in Regions,
         NEW from \in 1 .. windowWidth, NEW to \in 1 .. windowWidth, NEW n \in 1 .. windowWidth,
         DrawBufferRegion(r, from, to, n)
  PROVE  RegionsAreSafe'
<1> DEFINE texture == bufferRegions[r].texture
<1>1. Transfer(r, from, to, n)
  BY DEF DrawBufferRegion
<1>2. /\ windowWidth \in Widths /\ texture \in Pictures
      /\ from \in Nat /\ to \in Nat /\ n \in Nat
  BY <1>1, CallsHaveAWindow
<1>3. CASE DrawColorRegion(r, from, to, n)
  <2> DEFINE color == buffers["color"]
             new == Copied(color, to, texture, from, n)
  <2>1. buffers # NoTargets
    BY <1>3 DEF DrawColorRegion, NoTargets, Types
  <2>2. color \in Pictures /\ color \in [1 .. windowWidth -> Pixels]
    BY <1>3, <2>1 DEF DrawColorRegion, RegionsAreSafe, TypeOK, BuffersFit, Textures, Types
  <2>3. buffers' = [buffers EXCEPT !["color"] = new]
    BY <1>3 DEF DrawColorRegion
  <2> HIDE DEF texture, color
  <2>4. new \in [1 .. windowWidth -> Pixels]
    BY ONLY <1>2, <2>2, CopiedIsPicture
  <2> HIDE DEF new
  <2>5. buffers' \in [Types -> [1 .. windowWidth -> Pixels]] /\ buffers'["depth"] = buffers["depth"]
    BY <2>1, <2>3, <2>4 DEF RegionsAreSafe, BuffersFit, Types
  <2>6. UNCHANGED <<device, windowWidth, scratch, scratchValid, regionVars>>
    BY <1>1, <1>3 DEF Transfer, DrawColorRegion, scratchVars, regionVars
  <2>7. scratchValid' \in BOOLEAN
    BY <2>6 DEF RegionsAreSafe, TypeOK
  <2> QED
    BY <2>1, <2>5, <2>6, <2>7, PaintingIsSafe
<1>4. CASE DrawDepthRegion(r, from, to, n)
  <2> DEFINE refreshed == RefreshedScratch
             new == Copied(refreshed, to, texture, from, n)
  <2>1. refreshed \in Pictures /\ refreshed \in [1 .. windowWidth -> Pixels]
    BY <1>2, RefreshedScratchIsTheDepth
  <2>2. /\ scratch' = new /\ scratchValid' = TRUE /\ bufferRegions' = bufferRegions
        /\ buffers' = [buffers EXCEPT !["depth"] = CopyResource(@, scratch')]
    BY <1>4 DEF DrawDepthRegion
  <2> HIDE DEF texture, refreshed
  <2>3. new \in [1 .. windowWidth -> Pixels] /\ new \in Pictures /\ new # NoTexture
    BY ONLY <1>2, <2>1, CopiedIsPicture
  <2> HIDE DEF new
  <2>4. UNCHANGED <<device, windowWidth, allocated, leftBehind>>
    BY <1>1 DEF Transfer
  <2>5. CASE buffers = NoTargets
    <3>1. buffers' = buffers
      BY <2>2, <2>5 DEF CopyResource, NoTargets, Types
    <3>2. TypeOK'
      BY <2>2, <2>3, <2>4, <3>1 DEF RegionsAreSafe, TypeOK, Textures
    <3>3. BuffersFit' /\ ScratchIsCurrent' /\ RegionsFitWindow'
      BY <1>2, <2>2, <2>3, <2>4, <2>5, <3>1
         DEF BuffersFit, ScratchIsCurrent, RegionsFitWindow, IsDeviceReady, NoTargets, Types
    <3> QED
      BY <3>2, <3>3 DEF RegionsAreSafe
  <2>6. CASE buffers # NoTargets
    <3>1. buffers \in [Types -> [1 .. windowWidth -> Pixels]]
      BY <2>6 DEF RegionsAreSafe, BuffersFit
    <3>2. buffers["depth"] # NoTexture /\ DOMAIN buffers["depth"] = DOMAIN new
      BY <1>2, <2>3, <3>1, PictureOfWidth DEF Types
    <3>3. CopyResource(buffers["depth"], new) = new
      BY <2>3, <3>2 DEF CopyResource
    <3>4. buffers' = [buffers EXCEPT !["depth"] = new]
      BY <2>2, <3>3
    <3>5. buffers' \in [Types -> [1 .. windowWidth -> Pixels]] /\ buffers'["depth"] = new
      BY <2>3, <3>1, <3>4 DEF Types
    <3>6. buffers' \in [Types -> Textures] /\ buffers' # NoTargets
      <4>1. NoTargets["depth"] = NoTexture
        BY DEF NoTargets, Types
      <4> QED
        BY <1>2, <2>3, <3>5, <4>1, PictureOfWidth
    <3>7. TypeOK'
      BY <2>2, <2>3, <2>4, <3>6 DEF RegionsAreSafe, TypeOK, Textures
    <3>8. BuffersFit' /\ ScratchIsCurrent'
      BY <1>2, <2>2, <2>3, <2>4, <3>5 DEF BuffersFit, ScratchIsCurrent
    <3>9. RegionsFitWindow'
      BY <2>2, <2>4, <2>6 DEF RegionsAreSafe, RegionsFitWindow, IsDeviceReady
    <3> QED
      BY <3>7, <3>8, <3>9 DEF RegionsAreSafe
  <2> QED
    BY <2>5, <2>6
<1> QED
  BY <1>3, <1>4 DEF DrawBufferRegion

\* Regions that are gone take nothing from the others.
LEMMA DeleteStep ==
  ASSUME RegionsAreSafe,
         UNCHANGED <<device, windowWidth, buffers, scratchVars>>,
         allocated' \subseteq allocated,
         leftBehind' \subseteq leftBehind,
         allocated' \ leftBehind' \subseteq allocated \ leftBehind,
         bufferRegions' \in [Regions -> [type : Types, texture : Textures]],
         \A r \in allocated' : bufferRegions'[r].texture = bufferRegions[r].texture
  PROVE  RegionsAreSafe'
<1>1. TypeOK' /\ BuffersFit' /\ ScratchIsCurrent'
  BY DEF RegionsAreSafe, TypeOK, BuffersFit, ScratchIsCurrent, scratchVars
<1>2. RegionsFitWindow'
  BY DEF RegionsAreSafe, RegionsFitWindow, IsDeviceReady
<1> QED
  BY <1>1, <1>2 DEF RegionsAreSafe

\* A drawing that paints some buffers and drops the scratch copy of depth keeps it current.
LEMMA PaintStep ==
  ASSUME RegionsAreSafe, IsDeviceReady, NEW x, NEW v \in Values, NEW types \in SUBSET Types,
         buffers' = Painted(types, x, v),
         scratchValid' \in BOOLEAN, scratchValid' => scratchValid /\ "depth" \notin types,
         UNCHANGED <<device, windowWidth, scratch, regionVars>>
  PROVE  RegionsAreSafe'
<1>1. buffers # NoTargets /\ buffers \in [Types -> [1 .. windowWidth -> Pixels]]
  BY DEF IsDeviceReady, RegionsAreSafe, BuffersFit
<1>2. Painted(types, x, v) \in [Types -> [1 .. windowWidth -> Pixels]]
  BY <1>1 DEF Painted, Pixels
<1>3. "depth" \notin types => Painted(types, x, v)["depth"] = buffers["depth"]
  BY DEF Painted, Types
<1> QED
  BY <1>1, <1>2, <1>3, PaintingIsSafe

\* Clear paints whole buffers, and drops the scratch copy when depth is among them.
LEMMA ClearStep ==
  ASSUME RegionsAreSafe, NEW types \in SUBSET Types, NEW v \in Values, Clear(types, v)
  PROVE  RegionsAreSafe'
<1> DEFINE painted == [t \in Types |-> IF t \in types /\ buffers[t] # NoTexture
                                         THEN [x \in DOMAIN buffers[t] |-> v] ELSE buffers[t]]
<1>1. /\ buffers' = painted
      /\ scratchValid' = (scratchValid /\ ~("depth" \in types /\ buffers["depth"] # NoTexture))
      /\ UNCHANGED <<device, windowWidth, scratch, regionVars>>
  BY DEF Clear
<1>2. CASE buffers = NoTargets
  <2>1. painted = NoTargets
    BY <1>2 DEF NoTargets
  <2>2. scratchValid' \in BOOLEAN /\ (scratchValid' => scratchValid /\ painted["depth"] = buffers["depth"])
    BY <1>1, <1>2, <2>1 DEF RegionsAreSafe, TypeOK
  <2> QED
    BY <1>1, <1>2, <2>1, <2>2, PaintingIsSafe
<1>3. CASE buffers # NoTargets
  <2>1. buffers \in [Types -> [1 .. windowWidth -> Pixels]]
    BY <1>3 DEF RegionsAreSafe, BuffersFit
  <2>2. painted \in [Types -> [1 .. windowWidth -> Pixels]]
    BY <2>1 DEF Pixels
  <2>3. scratchValid' \in BOOLEAN /\ (scratchValid' => scratchValid /\ painted["depth"] = buffers["depth"])
    BY <1>1 DEF RegionsAreSafe, TypeOK, Types
  <2> QED
    BY <1>1, <1>3, <2>2, <2>3, PaintingIsSafe
<1> QED
  BY <1>2, <1>3

\* Resizing the back buffer makes every buffer and the texture of every region it gets
\* to anew, of the new width.
LEMMA ResizeStep ==
  ASSUME RegionsAreSafe, NEW w \in Widths, ResizeBackBuffer(w)
  PROVE  RegionsAreSafe'
<1>1. PICK end \in RecreationEnds : /\ bufferRegions' = Recreated(w, end)
                                    /\ leftBehind' = {r \in allocated : r >= end}
  BY DEF ResizeBackBuffer
<1>2. /\ allocated \subseteq Regions
      /\ bufferRegions \in [Regions -> [type : Types, texture : Textures]]
      /\ end \in Nat /\ Regions \subseteq Nat
  BY WidthsAssumption DEF RegionsAreSafe, TypeOK, RecreationEnds, Regions
<1>3. /\ bufferRegions' \in [Regions -> [type : Types, texture : Textures]]
      /\ \A r \in allocated \ leftBehind' : bufferRegions'[r].texture = NewTexture(w)
  <2>1. NewTexture(w) \in Textures /\ NoTexture \in Textures
    BY NewTextureIsPicture, PictureOfWidth DEF Textures
  <2>2. \A r \in allocated \ leftBehind' : r < end
    BY <1>1, <1>2
  <2> QED
    BY <1>1, <1>2, <2>1, <2>2 DEF Recreated
<1>4. /\ allocated' = allocated /\ leftBehind' \subseteq Regions /\ device' \in BOOLEAN
  BY <1>1, <1>2 DEF ResizeBackBuffer, RegionsAreSafe, TypeOK
<1> QED
  BY <1>2, <1>3, <1>4, FreshTargetsAreSafe DEF ResizeBackBuffer

\* SetVideoMode starts the regions and the buffers over.
LEMMA VideoModeStep ==
  ASSUME RegionsAreSafe, NEW w \in Widths, NEW preserve \in BOOLEAN, SetVideoMode(w, preserve)
  PROVE  RegionsAreSafe'
<1>1. /\ allocated' \subseteq Regions /\ leftBehind' = {}
      /\ scratch' = NoTexture /\ scratchValid' = FALSE
  BY DEF SetVideoMode, Destroyed, RegionsAreSafe, TypeOK
<1>2. /\ bufferRegions' \in [Regions -> [type : Types, texture : Textures]]
      /\ \A r \in allocated' : bufferRegions'[r].texture = NewTexture(w)
  <2>1. NewTexture(w) \in Textures
    BY NewTextureIsPicture, PictureOfWidth
  <2>2. WithoutTextures \in [Regions -> [type : Types, texture : Textures]]
    BY BlankRegions DEF RegionsAreSafe
  <2> QED
    BY <1>1, <2>1, <2>2 DEF SetVideoMode
<1> QED
  BY <1>1, <1>2, FreshTargetsAreSafe DEF SetVideoMode

\* No call makes the regions unsafe.
LEMMA RegionsStep ==
  ASSUME RegionsAreSafe, ~CallbackDrawsDepth, [Next]_vars
  PROVE  RegionsAreSafe'
<1>1. CASE \E type \in Types : NewBufferRegion(type)
  BY <1>1, NewRegionStep
<1>2. CASE \E r \in Regions : DeleteBufferRegion(r)
  <2>1. PICK r \in Regions : DeleteBufferRegion(r)
    BY <1>2
  <2> QED
    BY <2>1, DeleteStep DEF DeleteBufferRegion, RegionsAreSafe, TypeOK, Textures
<1>3. CASE DeleteAllBufferRegions
  BY <1>3, DeleteStep DEF DeleteAllBufferRegions, RegionsAreSafe, TypeOK, Textures
<1>4. CASE \E r \in Regions, from, to, n \in 1 .. windowWidth :
             ReadBufferRegion(r, from, to, n) \/ DrawBufferRegion(r, from, to, n)
  BY <1>4, ReadStep, DrawStep
<1>5. CASE \E types \in {{"color"}, {"depth"}, Types}, v \in Values : Clear(types, v)
  <2>1. PICK types \in SUBSET Types, v \in Values : Clear(types, v)
    BY <1>5 DEF Types
  <2> QED
    BY <2>1, ClearStep
<1>6. CASE \E x \in 1 .. windowWidth, v \in Values, test, write, stencil \in BOOLEAN :
             DrawGeometry(x, v, test, write, stencil)
  <2>1. PICK x \in 1 .. windowWidth, v \in Values, test, write, stencil \in BOOLEAN : DrawGeometry(x, v, test, write, stencil)
    BY <1>6
  <2>2. PICK covers \in SUBSET Types : /\ "depth" \in covers => (test /\ write) \/ stencil
                                       /\ buffers' = Painted(covers, x, v)
    BY <2>1 DEF DrawGeometry, Types
  <2>3. scratchValid' \in BOOLEAN /\ (scratchValid' => scratchValid /\ "depth" \notin covers)
    BY <2>1, <2>2 DEF DrawGeometry, DepthIsWritten, RegionsAreSafe, TypeOK
  <2> QED
    BY <2>1, <2>2, <2>3, PaintStep DEF DrawGeometry
<1>7. CASE \E x \in 1 .. windowWidth, v \in Values : FrameCallbackDraws(x, v)
  <2>1. PICK x \in 1 .. windowWidth, v \in Values : FrameCallbackDraws(x, v)
    BY <1>7
  <2>2. /\ IsDeviceReady /\ buffers' = Painted({"color"}, x, v)
        /\ UNCHANGED <<device, windowWidth, scratch, regionVars, scratchValid>>
    BY <2>1 DEF FrameCallbackDraws, scratchVars
  <2>3. {"color"} \in SUBSET Types /\ "depth" \notin {"color"} /\ scratchValid' \in BOOLEAN
    BY <2>2 DEF Types, RegionsAreSafe, TypeOK
  <2> QED
    BY <2>2, <2>3, PaintStep
<1>8. CASE \E w \in Widths : ResizeBackBuffer(w)
  BY <1>8, ResizeStep
<1>9. CASE ResizeLosesTargets
  BY <1>9, NoTargetsAreSafe DEF ResizeLosesTargets, scratchVars, regionVars, RegionsAreSafe, TypeOK
<1>10. CASE \E preserve \in BOOLEAN : LeaveDevice(preserve)
  BY <1>10, NoTargetsAreSafe, BlankRegions DEF LeaveDevice, Destroyed, RegionsAreSafe, TypeOK
<1>11. CASE \E w \in Widths, preserve \in BOOLEAN : SetVideoMode(w, preserve)
  BY <1>11, VideoModeStep
<1>12. CASE UNCHANGED vars
  BY <1>12 DEF vars, scratchVars, regionVars, RegionsAreSafe, TypeOK, BuffersFit, ScratchIsCurrent,
               RegionsFitWindow, IsDeviceReady
<1> QED
  BY <1>1, <1>2, <1>3, <1>4, <1>5, <1>6, <1>7, <1>8, <1>9, <1>10, <1>11, <1>12 DEF Next

\* A driver that has just been constructed has no regions.
LEMMA InitialRegions == Init => RegionsAreSafe
<1> SUFFICES ASSUME Init PROVE RegionsAreSafe
  OBVIOUS
<1>1. TypeOK
  BY DEF Init, TypeOK, NoTargets, Types, Textures
<1>2. BuffersFit /\ ScratchIsCurrent /\ RegionsFitWindow
  BY DEF Init, BuffersFit, ScratchIsCurrent, RegionsFitWindow, IsDeviceReady
<1> QED
  BY <1>1, <1>2 DEF RegionsAreSafe

-----------------------------------------------------------------------------
\* The strengthening holds throughout.
THEOREM RegionsAreSafeAlways == ~CallbackDrawsDepth /\ Spec => []RegionsAreSafe
<1> DEFINE Inv == ~CallbackDrawsDepth /\ RegionsAreSafe
<1>1. Inv /\ [Next]_vars => Inv'
  BY RegionsStep
<1>2. ~CallbackDrawsDepth /\ Init => Inv
  BY InitialRegions
<1>3. Inv => RegionsAreSafe
  OBVIOUS
<1> QED
  BY <1>1, <1>2, <1>3, PTL DEF Spec

\* Every state is well typed.
THEOREM RegionsTypeCorrect == ~CallbackDrawsDepth /\ Spec => []TypeOK
<1>1. RegionsAreSafe => TypeOK
  BY DEF RegionsAreSafe
<1> QED
  BY <1>1, RegionsAreSafeAlways, PTL

\* A scratch copy whose flag says it is valid equals the depth buffer, after any
\* sequence of draws, clears, copies, resizes and recoveries.
THEOREM ScratchStaysCurrent == ~CallbackDrawsDepth /\ Spec => []ScratchIsCurrent
<1>1. RegionsAreSafe => ScratchIsCurrent
  BY DEF RegionsAreSafe
<1> QED
  BY <1>1, RegionsAreSafeAlways, PTL

\* Whatever the window does, SC4's regions have textures of its size.
THEOREM RegionsAlwaysFitWindow == ~CallbackDrawsDepth /\ Spec => []RegionsFitWindow
<1>1. RegionsAreSafe => RegionsFitWindow
  BY DEF RegionsAreSafe
<1> QED
  BY <1>1, RegionsAreSafeAlways, PTL

\* Reading a region saves the buffer's pixels and drawing it changes those pixels
\* and no other, for depth as for color.
THEOREM RegionsAlwaysGiveBack ==
  ~CallbackDrawsDepth /\ Spec => RegionsGiveBackWhatTheySaved
<1> DEFINE Gives ==
      \A r \in Regions, from, to, n \in 1 .. windowWidth :
        LET type == bufferRegions[r].type
        IN buffers[type] # NoTexture =>
             /\ ReadBufferRegion(r, from, to, n) =>
                  /\ bufferRegions' = [bufferRegions EXCEPT ![r].texture = Copied(@, to, buffers[type], from, n)]
                  /\ buffers' = buffers
             /\ DrawBufferRegion(r, from, to, n) =>
                  buffers' = [buffers EXCEPT ![type] = Copied(@, to, bufferRegions[r].texture, from, n)]
<1>1. RegionsAreSafe /\ [Next]_vars => [Gives]_vars
  BY TransferStep
<1> QED
  BY <1>1, RegionsAreSafeAlways, PTL DEF Spec, RegionsGiveBackWhatTheySaved

-----------------------------------------------------------------------------
(* What passes keep, and ReShade's effects: the inductive invariant.       *)

Arenas == [buffers : BOOLEAN, capacity : Nat, cursor : Nat, generation : Nat,
           holds : UNION {[D -> Casters \X Versions] : D \in SUBSET Nat}]
BoxBuffers == [capacity : Nat, view : BOOLEAN, holds : Seq(SUBSET Models), unmade : BOOLEAN]
TerrainTextures == [size : Nat, holds : Nat]
Pipelines == [created : BOOLEAN, arena : Arenas, boxes : BoxBuffers,
              terrainMap : TerrainTextures, terrainAltitude : TerrainTextures,
              terrainMapGeneration : Nat]

Composites == [casters : BOOLEAN, owners : BOOLEAN, tested : BOOLEAN, spared : BOOLEAN,
               terrain : BOOLEAN]

\* What is in the arena is within its buffers.
ArenaFits(arena) ==
  /\ arena.cursor <= arena.capacity /\ arena.capacity <= MaxArena
  /\ DOMAIN arena.holds \subseteq 0 .. (arena.capacity - 1)

\* A caster that is placed in this arena lies below the cursor, as it was placed.
Stands(arena, entry, k) ==
  entry.generation # 0 /\ entry.generation = arena.generation =>
    entry.first + Size[k] <= arena.cursor /\ DrawsItself(arena, entry, k)

ShadowsTyped ==
  /\ city \in Cities /\ ready \in BOOLEAN /\ worldCastersValid \in BOOLEAN
  /\ arenaGenerations \in 0 .. MaxRebuilds
  /\ pipeline \in Pipelines
  /\ \E S \in SUBSET Casters : draws \in [S -> Versions]
  /\ \E S \in SUBSET Casters : worldCasters \in [S -> Entries]
  /\ terrain \in [generation : 0 .. MaxTerrains, size : Nat]
  /\ terrain.size \in city.sizes \cup {0}
  /\ composite \in Composites

\* No generation is used again, so an entry of another one is of no arena to come.
ArenaInv ==
  /\ ArenaFits(pipeline.arena)
  /\ pipeline.arena.generation <= arenaGenerations
  /\ \A k \in DOMAIN worldCasters :
       /\ worldCasters[k].generation <= arenaGenerations
       /\ Stands(pipeline.arena, worldCasters[k], k)

\* A buffer of boxes without a view is one that the next pass makes again, or one
\* that could not be created when a pass last needed a larger one.
BoxesKept(boxes) == boxes.unmade \/ boxes.view \/ boxes.capacity = 0

BoxesInv == BoxesKept(pipeline.boxes)

\* Textures that count as the current map's hold it, once both are there.
TerrainInv ==
  /\ pipeline.terrainMapGeneration <= terrain.generation
  /\ pipeline.terrainMapGeneration = terrain.generation =>
       \A texture \in {pipeline.terrainMap, pipeline.terrainAltitude} :
         texture.size # 0 => texture.holds = terrain.generation

\* Every composite there was, was right.
CompositeInv ==
  composite.casters /\ composite.owners /\ composite.terrain /\ composite.tested

ShadowsInv == ShadowsTyped /\ ArenaInv /\ BoxesInv /\ TerrainInv /\ CompositeInv

Depths == [created : BOOLEAN, size : Windows \cup {0},
           constants : FarPlanes \cup {0}, encoded : FarPlanes \cup {0}]
Frames == [times : 0 .. 1, rendered : BOOLEAN, depth : BOOLEAN]

FrameTyped ==
  /\ window \in Windows
  /\ runtime \in BOOLEAN /\ rendered \in BOOLEAN
  /\ effectsInBackBuffer \in BOOLEAN /\ effectsThisFrame \in BOOLEAN
  /\ farPlane \in FarPlanes
  /\ sceneDepth \in Depths
  /\ held = "none"
  /\ applied \in 0 .. 1
  /\ shown \in Frames

\* The mark on a back buffer that can be shown is right, and effects of this
\* frame were rendered through the runtime there is.
EffectsKnown ==
  /\ applied = 1 => effectsInBackBuffer
  /\ ready /\ effectsInBackBuffer => applied = 1 /\ runtime
  /\ runtime /\ effectsInBackBuffer /\ effectsThisFrame => rendered

\* What the constants are believed to hold they hold, and the effects had it.
DepthKnown ==
  /\ sceneDepth.encoded # 0 => sceneDepth.constants = sceneDepth.encoded
  /\ shown.depth

FrameInv == FrameTyped /\ EffectsKnown /\ DepthKnown /\ EffectsAppearOnce

SceneInv == ShadowsInv /\ FrameInv

\* The smallest of the windows' sizes is one of them.
LEMMA MinIsLeast ==
  ASSUME NEW S, S \subseteq Nat, S # {}
  PROVE  Min(S) \in S /\ \A j \in S : Min(S) <= j
<1>1. \E i \in S : \A j \in S : i <= j
  BY LeastElement
<1> QED
  BY <1>1 DEF Min

\* The shadows' steps leave the frame as it is.
LEMMA FrameStays ==
  ASSUME FrameInv, UNCHANGED frameVars, ready' => ready
  PROVE  FrameInv'
<1>1. FrameTyped'
  BY DEF FrameInv, FrameTyped, frameVars
<1>2. EffectsKnown' /\ DepthKnown' /\ EffectsAppearOnce'
  BY DEF FrameInv, EffectsKnown, DepthKnown, EffectsAppearOnce, frameVars
<1> QED
  BY <1>1, <1>2 DEF FrameInv

\* How the depth for the effects is brought up to date, as far as it gets.
LEMMA UpdatedDepth ==
  ASSUME FrameInv, NEW outcome \in Outcomes
  PROVE  LET depth == UpdateSceneDepth(outcome) IN
         /\ depth \in Depths
         /\ depth.encoded # 0 => depth.constants = depth.encoded
         /\ outcome = "updated" => depth.size = window /\ depth.constants = farPlane
<1> DEFINE depth == UpdateSceneDepth(outcome)
           made == [sceneDepth EXCEPT !.created = TRUE]
           sized == [made EXCEPT !.size = window]
           unsized == [made EXCEPT !.size = 0]
<1>1. /\ sceneDepth \in Depths /\ window \in Windows /\ farPlane \in FarPlanes /\ farPlane # 0
      /\ sceneDepth.encoded # 0 => sceneDepth.constants = sceneDepth.encoded
  BY WindowsAssumption DEF FrameInv, FrameTyped, DepthKnown
<1>2. made \in Depths /\ made.constants = sceneDepth.constants /\ made.encoded = sceneDepth.encoded
  BY <1>1 DEF Depths
<1> HIDE DEF made
<1>3. /\ sized \in Depths /\ sized.size = window
      /\ sized.constants = sceneDepth.constants /\ sized.encoded = sceneDepth.encoded
      /\ unsized \in Depths
      /\ unsized.constants = sceneDepth.constants /\ unsized.encoded = sceneDepth.encoded
  BY <1>1, <1>2 DEF Depths
<1> HIDE DEF sized, unsized
<1>4. CASE outcome = "pipeline"
  BY <1>1, <1>4 DEF UpdateSceneDepth, NoDepth, Depths
<1>5. CASE outcome = "texture"
  <2>1. depth = unsized
    BY <1>5 DEF UpdateSceneDepth, unsized, made
  <2> QED
    BY <1>1, <1>3, <1>5, <2>1
<1>6. CASE outcome = "updated"
  <2>1. depth = Encoded(sized)
    BY <1>6 DEF UpdateSceneDepth, sized, made
  <2>2. /\ Encoded(sized) \in Depths /\ Encoded(sized).size = window
        /\ Encoded(sized).constants = farPlane /\ Encoded(sized).encoded = farPlane
    <3>1. CASE sized.encoded = farPlane
      BY <1>1, <1>3, <3>1 DEF Encoded, Depths
    <3>2. CASE sized.encoded # farPlane
      BY <1>1, <1>3, <3>2 DEF Encoded, Depths
    <3> QED
      BY <3>1, <3>2
  <2> QED
    BY <2>1, <2>2
<1> QED
  BY <1>4, <1>5, <1>6 DEF Outcomes

\* RenderSceneEffects applies them to a scene that has just been painted, once.
LEMMA SceneEndsKept ==
  ASSUME FrameInv, NEW outcome \in Outcomes, NEW shadows, RenderSceneEffects(shadows, outcome),
         ready' = ready
  PROVE  FrameInv'
<1>1. FrameTyped /\ EffectsKnown /\ DepthKnown /\ EffectsAppearOnce
  BY DEF FrameInv
<1>2. UNCHANGED <<window, runtime, farPlane>>
  BY DEF RenderSceneEffects
<1>3. CASE runtime /\ ready
  <2> DEFINE depth == UpdateSceneDepth(outcome)
             fits == outcome = "updated" => sceneDepth'.size = window
                                            /\ sceneDepth'.constants = farPlane
  <2>1. /\ sceneDepth' = depth /\ held' = HeldAfterEffects(outcome)
        /\ effectsInBackBuffer' = TRUE /\ effectsThisFrame' = TRUE
        /\ applied' = 1 /\ rendered' = TRUE
        /\ shown' = [shown EXCEPT !.depth = fits]
    BY <1>3 DEF RenderSceneEffects
  <2>2. held' = "none"
    BY <1>1, <2>1 DEF HeldAfterEffects, Released, FrameTyped
  <2>3. /\ sceneDepth' \in Depths
        /\ sceneDepth'.encoded # 0 => sceneDepth'.constants = sceneDepth'.encoded
        /\ fits
    BY <2>1, UpdatedDepth
  <2> HIDE DEF fits
  <2>4. /\ shown' \in Frames
        /\ shown'.depth = TRUE /\ shown'.times = shown.times /\ shown'.rendered = shown.rendered
    <3>1. fits = TRUE
      BY <2>3
    <3> QED
      BY <1>1, <2>1, <3>1 DEF FrameTyped, Frames
  <2> QED
    BY <1>1, <1>2, <1>3, <2>1, <2>2, <2>3, <2>4
       DEF FrameInv, FrameTyped, EffectsKnown, DepthKnown, EffectsAppearOnce
<1>4. CASE ~(runtime /\ ready)
  <2>1. /\ applied' = 0
        /\ UNCHANGED <<sceneDepth, held, effectsInBackBuffer, effectsThisFrame, rendered, shown>>
    BY <1>4 DEF RenderSceneEffects
  <2> QED
    BY <1>1, <1>2, <1>4, <2>1
       DEF FrameInv, FrameTyped, EffectsKnown, DepthKnown, EffectsAppearOnce
<1> QED
  BY <1>3, <1>4

\* FlushFrame: effects that are still on the back buffer are not applied again.
LEMMA FlushFrameKept ==
  ASSUME FrameInv, FlushFrame
  PROVE  FrameInv'
<1> DEFINE appliedAtPresent == IF runtime /\ ~rendered /\ ~Marks THEN 1 ELSE 0
           times == applied + appliedAtPresent
           seen == rendered \/ ~runtime
<1>1. FrameTyped /\ EffectsKnown /\ DepthKnown
  BY DEF FrameInv
<1>2. /\ shown' = [shown EXCEPT !.times = times, !.rendered = seen]
      /\ effectsThisFrame' = FALSE /\ rendered' = FALSE /\ ready
      /\ UNCHANGED <<window, runtime, farPlane, sceneDepth, held, effectsInBackBuffer, applied>>
      /\ ready' = ready
  BY DEF FlushFrame, shadowVars
<1>3. times \in 0 .. 1 /\ seen \in BOOLEAN /\ (times = 0 => seen)
  BY <1>1, <1>2 DEF FrameTyped, EffectsKnown, Marks
<1> HIDE DEF times, seen
<1>4. /\ shown' \in Frames
      /\ shown'.times = times /\ shown'.rendered = seen /\ shown'.depth = shown.depth
  BY <1>1, <1>2, <1>3 DEF FrameTyped, Frames
<1>5. FrameTyped'
  BY <1>1, <1>2, <1>4 DEF FrameTyped
<1>6. EffectsKnown'
  BY <1>1, <1>2 DEF EffectsKnown, FrameTyped
<1>7. DepthKnown' /\ EffectsAppearOnce'
  BY <1>1, <1>2, <1>3, <1>4 DEF DepthKnown, EffectsAppearOnce
<1> QED
  BY <1>5, <1>6, <1>7 DEF FrameInv

\* Every step keeps what is known of the frame, whatever the shadows do.
LEMMA FrameKept ==
  ASSUME FrameInv, SceneNext
  PROVE  FrameInv'
<1>1. FrameTyped /\ EffectsKnown /\ DepthKnown /\ EffectsAppearOnce
  BY DEF FrameInv
<1>2. CASE DestroyD3D11Context
  <2>1. sceneDepth' = NoDepth /\ held' = "none" /\ ready' = FALSE
    BY <1>1, <1>2 DEF DestroyD3D11Context, DestroyShadows, WithoutDepth, Released, FrameTyped
  <2>2. /\ runtime' = FALSE /\ rendered' = FALSE /\ applied' = 0
        /\ UNCHANGED <<window, farPlane, effectsInBackBuffer, effectsThisFrame, shown>>
    BY <1>2 DEF DestroyD3D11Context
  <2>3. NoDepth \in Depths
    BY DEF NoDepth, Depths
  <2>4. FrameTyped'
    <3>1. runtime' \in BOOLEAN /\ rendered' \in BOOLEAN
      BY <2>2
    <3>2. applied' \in 0 .. 1
      BY <2>2
    <3>3. UNCHANGED <<window, farPlane, effectsInBackBuffer, effectsThisFrame, shown>>
      BY <2>2
    <3> QED
      BY <1>1, <2>1, <2>3, <3>1, <3>2, <3>3 DEF FrameTyped
  <2>5. EffectsKnown' /\ DepthKnown' /\ EffectsAppearOnce'
    BY <1>1, <2>1, <2>2 DEF EffectsKnown, DepthKnown, EffectsAppearOnce, NoDepth
  <2> QED
    BY <2>4, <2>5 DEF FrameInv
<1>3. ASSUME NEW size \in Windows, CreateBackBufferTargets(size)
      PROVE  FrameInv'
  <2>1. /\ window' = size /\ effectsInBackBuffer' = FALSE /\ applied' = 0
        /\ UNCHANGED <<sceneDepth, held, effectsThisFrame, shown>>
    BY <1>3 DEF CreateBackBufferTargets
  <2>2. runtime' \in BOOLEAN /\ farPlane' \in FarPlanes /\ rendered' \in BOOLEAN
    BY <1>1, <1>3 DEF CreateBackBufferTargets, NewRuntime, FrameTyped
  <2>3. FrameTyped'
    <3>1. effectsInBackBuffer' \in BOOLEAN /\ window' \in Windows
      BY <2>1
    <3>2. applied' \in 0 .. 1
      BY <2>1
    <3>3. UNCHANGED <<sceneDepth, held, effectsThisFrame, shown>>
      BY <2>1
    <3> QED
      BY <1>1, <2>2, <3>1, <3>2, <3>3 DEF FrameTyped
  <2>4. EffectsKnown' /\ DepthKnown' /\ EffectsAppearOnce'
    BY <1>1, <2>1 DEF EffectsKnown, DepthKnown, EffectsAppearOnce
  <2> QED
    BY <2>3, <2>4 DEF FrameInv
<1>4. CASE LoseBackBuffer
  BY <1>1, <1>4 DEF LoseBackBuffer, LoseTargets, FrameInv, FrameTyped, EffectsKnown, DepthKnown,
                    EffectsAppearOnce
<1>5. ASSUME NEW far \in FarPlanes, OnReloadedEffects(far)
      PROVE  FrameInv'
  BY <1>1, <1>5 DEF OnReloadedEffects, FrameInv, FrameTyped, EffectsKnown, DepthKnown,
                    EffectsAppearOnce, shadowVars
<1>6. CASE ClearColor
  <2>1. /\ effectsInBackBuffer' = FALSE /\ applied' = 0
        /\ UNCHANGED <<window, runtime, farPlane, sceneDepth, held, effectsThisFrame, rendered,
                       shown>>
    BY <1>6 DEF ClearColor, Cleared
  <2>2. FrameTyped'
    <3>1. effectsInBackBuffer' \in BOOLEAN
      BY <2>1
    <3>2. applied' \in 0 .. 1
      BY <2>1
    <3>3. UNCHANGED <<window, runtime, farPlane, sceneDepth, held, effectsThisFrame, rendered,
                      shown>>
      BY <2>1
    <3> QED
      BY <1>1, <3>1, <3>2, <3>3 DEF FrameTyped
  <2>3. EffectsKnown' /\ DepthKnown' /\ EffectsAppearOnce'
    BY <1>1, <2>1 DEF EffectsKnown, DepthKnown, EffectsAppearOnce
  <2> QED
    BY <2>2, <2>3 DEF FrameInv
<1>7. CASE ShadowsOnly
  <2>1. ready' = ready /\ UNCHANGED frameVars
    BY <1>7 DEF ShadowsOnly, CaptureLiveShadowDraw, UpdateTerrain, PausedPass
  <2> QED
    BY <2>1, FrameStays
<1>8. ASSUME NEW pass, PassEnds(pass)
      PROVE  ready' = ready
  <2>1. CASE PassDrawsNothing(pass)
    BY <2>1 DEF PassDrawsNothing
  <2>2. ASSUME NEW created, PassCannotDraw(pass, created)
        PROVE  ready' = ready
    BY <2>2 DEF PassCannotDraw
  <2>3. ASSUME NEW S, NEW R, NEW shaded, NEW failed, PassDraws(pass, S, R, shaded, failed)
        PROVE  ready' = ready
    BY <2>3, Zenon DEF PassDraws
  <2> QED
    BY <1>8, <2>1, <2>2, <2>3, Zenon DEF PassEnds
<1>9. CASE StaticPass
  BY <1>8, <1>9, FrameStays DEF StaticPass
<1>10. CASE SceneEnds
  <2>1. PICK pass \in Passes, outcome \in Outcomes : RenderSceneEffects(PassEnds(pass), outcome)
    BY <1>10 DEF SceneEnds
  <2>2. PassEnds(pass)
    BY <2>1 DEF RenderSceneEffects
  <2> QED
    BY <1>8, <2>1, <2>2, SceneEndsKept
<1>11. CASE FlushFrame
  BY <1>11, FlushFrameKept
<1> QED
  BY <1>2, <1>3, <1>4, <1>5, <1>6, <1>7, <1>9, <1>10, <1>11 DEF SceneNext

-----------------------------------------------------------------------------
(* The arena.                                                              *)

\* A set of captures has so much geometry, and no more for its parts.
LEMMA GeometryIsFinite ==
  ASSUME NEW S, S \subseteq Casters
  PROVE  IsFiniteSet(Geometry(S)) /\ Total(S) \in Nat
<1> DEFINE of == [k \in S |-> {k} \X (1 .. Size[k])]
           parts == {{k} \X (1 .. Size[k]) : k \in S}
<1>1. IsFiniteSet(S)
  BY CastersAssumption, FS_Subset
<1>2. of \in Surjection(S, parts)
  BY DEF Surjection
<1>3. IsFiniteSet(parts)
  <2> HIDE DEF of, parts
  <2> QED
    BY <1>1, <1>2, FS_Surjection
<1>4. ASSUME NEW k \in S
      PROVE  IsFiniteSet({k} \X (1 .. Size[k]))
  <2>1. Size[k] \in Int /\ 1 \in Int
    BY CastersAssumption
  <2>2. IsFiniteSet({k})
    BY FS_Singleton
  <2>3. IsFiniteSet(1 .. Size[k])
    BY <2>1, FS_Interval
  <2> QED
    BY <2>2, <2>3, FS_Product
<1>5. \A part \in parts : IsFiniteSet(part)
  BY <1>4
<1>6. IsFiniteSet(UNION parts)
  <2> HIDE DEF parts
  <2> QED
    BY <1>3, <1>5, FS_UNION
<1>7. IsFiniteSet(Geometry(S))
  BY <1>6 DEF Geometry
<1> QED
  BY <1>7, FS_CardinalityType DEF Total

\* A part of the captures has no more geometry.
LEMMA TotalGrows ==
  ASSUME NEW T, T \subseteq Casters, NEW S, S \subseteq T
  PROVE  Total(S) <= Total(T)
<1>1. Geometry(S) \subseteq Geometry(T)
  BY DEF Geometry
<1> QED
  BY <1>1, GeometryIsFinite, FS_Subset DEF Total

\* One more capture adds its own.
LEMMA TotalOfOneMore ==
  ASSUME NEW S, S \subseteq Casters, NEW k \in Casters, k \notin S
  PROVE  Total(S \cup {k}) = Total(S) + Size[k]
<1> DEFINE own == {k} \X (1 .. Size[k])
<1>1. Geometry(S \cup {k}) = Geometry(S) \cup own
  BY DEF Geometry
<1>2. Geometry(S) \cap own = {}
  BY DEF Geometry
<1>3. IsFiniteSet(own) /\ Cardinality(own) = Size[k]
  <2>1. Size[k] \in Nat /\ Size[k] # 0
    BY CastersAssumption
  <2>2. IsFiniteSet({k}) /\ Cardinality({k}) = 1
    BY FS_Singleton
  <2>3. IsFiniteSet(1 .. Size[k]) /\ Cardinality(1 .. Size[k]) = Size[k]
    BY <2>1, FS_Interval
  <2>4. IsFiniteSet(own) /\ Cardinality(own) = Cardinality({k}) * Cardinality(1 .. Size[k])
    BY <2>2, <2>3, FS_Product
  <2> QED
    BY <2>1, <2>2, <2>3, <2>4
<1>4. IsFiniteSet(Geometry(S)) /\ Total(S) \in Nat
  BY GeometryIsFinite
<1> HIDE DEF own
<1>5. Cardinality(Geometry(S) \cup own) = Cardinality(Geometry(S)) + Cardinality(own)
                                          - Cardinality(Geometry(S) \cap own)
  BY <1>3, <1>4, FS_Union
<1>6. Cardinality(Geometry(S) \cap own) = 0
  BY <1>2, FS_EmptySet
<1>7. Size[k] \in Nat
  BY CastersAssumption
<1>8. Cardinality(Geometry(S \cup {k})) = Cardinality(Geometry(S) \cup own)
  BY <1>1, Zenon
<1>9. Total(S) = Cardinality(Geometry(S)) /\ Total(S \cup {k}) = Cardinality(Geometry(S \cup {k}))
  BY DEF Total
<1> QED
  BY <1>3, <1>4, <1>5, <1>6, <1>7, <1>8, <1>9

\* ArenaAppend puts casters one behind the other: from the cursor on, none over
\* another's end, and all of them before the new cursor.
LEMMA PlacesAreApart ==
  ASSUME NEW arena, arena.cursor \in Nat, NEW S, S \subseteq Casters, NEW k \in S
  PROVE  /\ First(arena, S, k) \in Nat /\ Size[k] \in Nat \ {0}
         /\ arena.cursor <= First(arena, S, k)
         /\ First(arena, S, k) + Size[k] <= arena.cursor + Total(S)
         /\ \A j \in S : k < j => First(arena, S, k) + Size[k] <= First(arena, S, j)
<1> DEFINE before(j) == {i \in S : i < j}
<1>1. Size[k] \in Nat \ {0} /\ S \subseteq Nat
  BY CastersAssumption
<1>2. Total(before(k)) \in Nat /\ Total(S) \in Nat /\ \A j \in S : Total(before(j)) \in Nat
  BY GeometryIsFinite
<1>3. Total(before(k) \cup {k}) = Total(before(k)) + Size[k]
  <2>1. before(k) \subseteq Casters /\ k \in Casters
    OBVIOUS
  <2>2. k \notin before(k)
    BY <1>1
  <2> HIDE DEF before
  <2> QED
    BY <2>1, <2>2, TotalOfOneMore, Zenon
<1>4. Total(before(k) \cup {k}) <= Total(S)
  BY TotalGrows
<1>5. ASSUME NEW j \in S, k < j
      PROVE  Total(before(k) \cup {k}) <= Total(before(j))
  <2>1. before(k) \cup {k} \subseteq before(j)
    <3>1. ASSUME NEW i \in before(k)
          PROVE  i \in before(j)
      <4>1. i \in Nat /\ j \in Nat /\ k \in Nat /\ i \in S /\ i < k
        BY <1>1
      <4> QED
        BY <1>5, <4>1
    <3> QED
      BY <1>5, <3>1
  <2> QED
    BY <2>1, TotalGrows
<1>6. \A j \in S : First(arena, S, j) = arena.cursor + Total(before(j))
  BY DEF First
<1> HIDE DEF before
<1> QED
  BY <1>1, <1>2, <1>3, <1>4, <1>5, <1>6

\* What ArenaAppend leaves: the old casters where they were, the new ones whole.
LEMMA AppendKept ==
  ASSUME NEW arena \in Arenas, ArenaFits(arena), NEW P, P \subseteq Casters,
         NEW pool \in [P -> Entries], NEW S, S \subseteq P,
         arena.cursor + Total(S) <= arena.capacity
  PROVE  LET a == ArenaAppend(arena, pool, S)
             placed == PlacedCasters(arena, pool, S)
         IN /\ a \in Arenas /\ ArenaFits(a) /\ a.generation = arena.generation
            /\ placed \in [P -> Entries]
            /\ \A k \in P \ S : placed[k] = pool[k]
            /\ \A k \in S : /\ placed[k].generation = arena.generation
                            /\ Stands(a, placed[k], k)
            /\ \A e \in Entries, k \in Casters : Stands(arena, e, k) => Stands(a, e, k)
<1> DEFINE a == ArenaAppend(arena, pool, S)
           placed == PlacedCasters(arena, pool, S)
           cursor == arena.cursor + Total(S)
           covered == UNION {Covers(arena, S, k) : k \in S}
           holds == [i \in DOMAIN arena.holds \cup covered |->
                       IF \E k \in S : i \in Covers(arena, S, k)
                         THEN LET k == CHOOSE j \in S : i \in Covers(arena, S, j)
                              IN <<k, pool[k].version>>
                         ELSE arena.holds[i]]
<1>1. /\ arena.cursor \in Nat /\ arena.capacity \in Nat /\ arena.generation \in Nat
      /\ S \subseteq Casters /\ Total(S) \in Nat /\ cursor \in Nat /\ cursor <= arena.capacity
      /\ MaxArena \in Nat
  BY GeometryIsFinite, BoundsAssumption DEF Arenas
<1>2. a = [arena EXCEPT !.cursor = cursor, !.holds = holds]
  BY DEF ArenaAppend
<1>3. \A k \in S :
        /\ First(arena, S, k) \in Nat /\ Size[k] \in Nat \ {0}
        /\ arena.cursor <= First(arena, S, k) /\ First(arena, S, k) + Size[k] <= cursor
        /\ \A j \in S : k < j => First(arena, S, k) + Size[k] <= First(arena, S, j)
  BY <1>1, PlacesAreApart
<1>4. \A k \in S : Covers(arena, S, k) = First(arena, S, k) .. (First(arena, S, k) + Size[k] - 1)
  BY DEF Covers
<1>5. covered \subseteq Nat /\ \A i \in covered : arena.cursor <= i /\ i < cursor
  <2> HIDE DEF cursor
  <2>1. ASSUME NEW k \in S, NEW i \in Covers(arena, S, k)
        PROVE  i \in Nat /\ arena.cursor <= i /\ i < cursor
    BY <1>1, <1>3, <1>4, <2>1
  <2> QED
    BY <2>1
<1>6. ASSUME NEW k \in S, NEW i \in Covers(arena, S, k)
      PROVE  holds[i] = <<k, pool[k].version>> /\ i \in covered
  <2>1. \A j \in S : i \in Covers(arena, S, j) => j = k
    <3> SUFFICES ASSUME NEW j \in S, i \in Covers(arena, S, j), j # k
                 PROVE  FALSE
      OBVIOUS
    <3>1. k \in Nat /\ j \in Nat
      BY <1>1, CastersAssumption
    <3>2. /\ i \in Int
          /\ First(arena, S, k) <= i /\ i < First(arena, S, k) + Size[k]
          /\ First(arena, S, j) <= i /\ i < First(arena, S, j) + Size[j]
      BY <1>3, <1>4, <1>6
    <3>3. CASE j < k
      BY <1>3, <3>2, <3>3
    <3>4. CASE k < j
      BY <1>3, <3>2, <3>4
    <3> QED
      BY <3>1, <3>3, <3>4
  <2>2. (CHOOSE j \in S : i \in Covers(arena, S, j)) = k
    BY <2>1, <1>6
  <2> QED
    BY <1>6, <2>2
<1>7. ASSUME NEW i \in DOMAIN arena.holds, i \notin covered
      PROVE  holds[i] = arena.holds[i]
  BY <1>7
<1>8. /\ holds \in UNION {[D -> Casters \X Versions] : D \in SUBSET Nat}
      /\ DOMAIN holds = DOMAIN arena.holds \cup covered
      /\ DOMAIN arena.holds \subseteq Nat
  <2>1. PICK D \in SUBSET Nat : arena.holds \in [D -> Casters \X Versions]
    BY DEF Arenas
  <2>2. ASSUME NEW i \in D \cup covered
        PROVE  holds[i] \in Casters \X Versions
    <3>1. CASE i \in covered
      <4>1. PICK k \in S : i \in Covers(arena, S, k)
        BY <3>1
      <4>2. pool[k].version \in Versions /\ k \in Casters
        BY <1>1 DEF Entries
      <4> QED
        BY <1>6, <4>1, <4>2
    <3>2. CASE i \notin covered
      BY <1>7, <2>1, <2>2, <3>2
    <3> QED
      BY <3>1, <3>2
  <2>3. DOMAIN arena.holds = D /\ D \cup covered \in SUBSET Nat
    BY <1>5, <2>1
  <2>4. holds \in [D \cup covered -> Casters \X Versions]
    BY <2>2, <2>3
  <2> HIDE DEF holds, covered
  <2> QED
    BY <2>3, <2>4
<1> HIDE DEF a, holds, cursor
<1>9. /\ a \in Arenas /\ a.cursor = cursor /\ a.holds = holds
      /\ a.generation = arena.generation /\ a.capacity = arena.capacity
  BY <1>1, <1>2, <1>8 DEF Arenas
<1>10. ArenaFits(a)
  <2>1. DOMAIN a.holds \subseteq 0 .. (arena.capacity - 1)
    <3>1. covered \subseteq 0 .. (arena.capacity - 1)
      <4> HIDE DEF covered
      <4>1. \A i \in covered : i \in Nat /\ i < arena.capacity
        BY <1>1, <1>5
      <4> QED
        BY <1>1, <4>1
    <3>2. DOMAIN arena.holds \subseteq 0 .. (arena.capacity - 1)
      BY DEF ArenaFits
    <3> HIDE DEF covered
    <3> QED
      BY <1>8, <1>9, <3>1, <3>2
  <2> QED
    BY <1>1, <1>9, <2>1 DEF ArenaFits
<1>11. /\ DOMAIN placed = P
       /\ \A k \in P \ S : placed[k] = pool[k]
       /\ \A k \in S : placed[k] = [pool[k] EXCEPT !.generation = arena.generation,
                                                   !.first = First(arena, S, k)]
  BY DEF PlacedCasters
<1>12. ASSUME NEW k \in S
       PROVE  /\ placed[k] \in Entries /\ placed[k].generation = arena.generation
              /\ placed[k].first = First(arena, S, k) /\ placed[k].version = pool[k].version
  <2> DEFINE first == First(arena, S, k)
             entry == pool[k]
  <2>1. placed[k] = [entry EXCEPT !.generation = arena.generation, !.first = first]
    BY <1>11
  <2>2. entry \in Entries /\ first \in Nat /\ arena.generation \in Nat
    BY <1>1, <1>3
  <2> HIDE DEF entry, first, placed
  <2>3. /\ placed[k] \in Entries /\ placed[k].generation = arena.generation
        /\ placed[k].first = first /\ placed[k].version = entry.version
    BY <2>1, <2>2 DEF Entries
  <2> QED
    BY <2>3 DEF entry, first
<1>13. placed \in [P -> Entries]
  <2>1. \A k \in P : placed[k] \in Entries
    BY <1>11, <1>12
  <2>2. placed = [k \in P |-> placed[k]]
    BY DEF PlacedCasters
  <2> HIDE DEF placed
  <2> QED
    BY <2>1, <2>2
<1>14. \A k \in S : Stands(a, placed[k], k)
  BY <1>1, <1>3, <1>4, <1>6, <1>8, <1>9, <1>12 DEF Stands, DrawsItself
<1>15. ASSUME NEW e \in Entries, NEW k \in Casters, Stands(arena, e, k)
       PROVE  Stands(a, e, k)
  <2>1. /\ e.first \in Nat /\ Size[k] \in Nat
    BY CastersAssumption DEF Entries
  <2>2. SUFFICES ASSUME e.generation # 0, e.generation = arena.generation
                 PROVE  e.first + Size[k] <= a.cursor /\ DrawsItself(a, e, k)
    BY <1>9 DEF Stands
  <2>3. /\ e.first + Size[k] <= arena.cursor
        /\ \A i \in e.first .. (e.first + Size[k] - 1) :
             i \in DOMAIN arena.holds /\ arena.holds[i] = <<k, e.version>>
    BY <1>15, <2>2 DEF Stands, DrawsItself
  <2>4. ASSUME NEW i \in e.first .. (e.first + Size[k] - 1)
        PROVE  i \in DOMAIN a.holds /\ a.holds[i] = <<k, e.version>>
    <3>1. i \in DOMAIN arena.holds /\ arena.holds[i] = <<k, e.version>> /\ i < arena.cursor
      BY <1>1, <2>1, <2>3
    <3>2. i \notin covered
      <4>1. i \in Int
        BY <2>1
      <4> HIDE DEF covered
      <4> QED
        BY <1>1, <1>5, <3>1, <4>1
    <3> QED
      BY <1>7, <1>8, <1>9, <3>1, <3>2
  <2>5. a.cursor = cursor /\ arena.cursor <= cursor
    BY <1>1, <1>9 DEF cursor
  <2> QED
    BY <1>1, <2>1, <2>3, <2>4, <2>5 DEF DrawsItself
<1> QED
  BY <1>9, <1>10, <1>11, <1>12, <1>13, <1>14, <1>15 DEF a

\* The largest of three sizes is one of them, and no less than any.
LEMMA MaxOfThree ==
  ASSUME NEW a \in Nat, NEW b \in Nat, NEW c \in Nat
  PROVE  LET m == Max({a, b, c}) IN m \in {a, b, c} /\ m >= a /\ m >= b /\ m >= c
<1>1. \E m \in {a, b, c} : \A n \in {a, b, c} : m >= n
  <2>1. CASE a >= b /\ a >= c
    BY <2>1
  <2>2. CASE b >= a /\ b >= c
    BY <2>2
  <2>3. CASE c >= a /\ c >= b
    BY <2>3
  <2> QED
    BY <2>1, <2>2, <2>3
<1> QED
  BY <1>1 DEF Max

\* ArenaRebuild leaves nothing of a generation there was.
LEMMA RebuildKept ==
  ASSUME NEW arena \in Arenas, ArenaFits(arena), NEW need \in Nat, NEW created,
         arenaGenerations \in Nat
  PROVE  LET a == ArenaRebuild(arena, need, created) IN
         /\ a \in Arenas /\ ArenaFits(a)
         /\ a.generation \in {0, arenaGenerations + 1}
<1> DEFINE a == ArenaRebuild(arena, need, created)
           capacity == Max({arena.capacity, 2 * need, ArenaSize})
           next == NextGeneration(arena)
           emptied == [arena EXCEPT !.cursor = 0, !.generation = next]
           abandoned == [emptied EXCEPT !.generation = 0]
           made == [emptied EXCEPT !.buffers = TRUE, !.capacity = capacity, !.holds = NoCasters]
           Contents == UNION {[D -> Casters \X Versions] : D \in SUBSET Nat}
<1>1. /\ arena.capacity \in Nat /\ ArenaSize \in Nat /\ MaxArena \in Nat /\ 2 * need \in Nat
      /\ arena.capacity <= MaxArena /\ DOMAIN arena.holds \subseteq 0 .. (arena.capacity - 1)
  BY BoundsAssumption DEF Arenas, ArenaFits
<1>2. capacity \in Nat /\ capacity >= arena.capacity
  BY <1>1, MaxOfThree
<1>3. NoCasters \in Contents /\ DOMAIN NoCasters = {}
  <2>1. NoCasters \in [{} -> Casters \X Versions] /\ {} \in SUBSET Nat
    BY DEF NoCasters
  <2> QED
    BY <2>1
<1>4. Arenas = [buffers : BOOLEAN, capacity : Nat, cursor : Nat, generation : Nat,
                holds : Contents]
  BY DEF Arenas
<1>5. next \in Nat /\ next = arenaGenerations + 1
  BY DEF NextGeneration
<1>6. a = CASE capacity > MaxArena -> abandoned
            [] capacity <= MaxArena /\ arena.buffers /\ capacity = arena.capacity -> emptied
            [] OTHER -> IF created THEN made ELSE NoArena
  BY DEF ArenaRebuild
<1> HIDE DEF Contents, capacity, next, a
<1>7. /\ emptied \in Arenas /\ emptied.cursor = 0 /\ emptied.generation = next
      /\ emptied.capacity = arena.capacity /\ emptied.holds = arena.holds
  BY <1>4, <1>5
<1> HIDE DEF emptied
<1>8. /\ abandoned \in Arenas /\ abandoned.cursor = 0 /\ abandoned.generation = 0
      /\ abandoned.capacity = arena.capacity /\ abandoned.holds = arena.holds
  BY <1>4, <1>7
<1>9. /\ made \in Arenas /\ made.cursor = 0 /\ made.generation = next
      /\ made.capacity = capacity /\ made.holds = NoCasters
  BY <1>2, <1>3, <1>4, <1>7
<1>10. /\ NoArena \in Arenas /\ NoArena.cursor = 0 /\ NoArena.generation = 0
       /\ NoArena.capacity = 0 /\ NoArena.holds = NoCasters
  BY <1>3, <1>4 DEF NoArena
<1> HIDE DEF abandoned, made
<1>11. \/ a = abandoned
       \/ a = emptied
       \/ a = made /\ capacity <= MaxArena
       \/ a = NoArena
  BY <1>1, <1>2, <1>6
<1>12. a \in Arenas /\ ArenaFits(a) /\ a.generation \in {0, next}
  <2>1. CASE a = abandoned
    BY <1>1, <1>8, <2>1 DEF ArenaFits
  <2>2. CASE a = emptied
    BY <1>1, <1>7, <2>2 DEF ArenaFits
  <2>3. CASE a = made /\ capacity <= MaxArena
    BY <1>1, <1>2, <1>3, <1>9, <2>3 DEF ArenaFits
  <2>4. CASE a = NoArena
    BY <1>1, <1>3, <1>10, <2>4 DEF ArenaFits
  <2> QED
    BY <1>11, <2>1, <2>2, <2>3, <2>4
<1> QED
  BY <1>5, <1>12 DEF a

\* placeCasters: whoever it says can be drawn is in the arena as it was captured,
\* and an entry it does not touch is no worse than before.
LEMMA PlacementKept ==
  ASSUME NEW arena \in Arenas, ArenaFits(arena), arena.generation <= arenaGenerations,
         arenaGenerations \in Nat,
         NEW P, P \subseteq Casters, NEW pool \in [P -> Entries],
         \A k \in P : pool[k].generation <= arenaGenerations /\ Stands(arena, pool[k], k),
         NEW S, S \subseteq P, NEW created
  PROVE  LET placement == Placement(arena, pool, S, created)
             latest == arenaGenerations + (IF Rebuilds(arena, pool, S) THEN 1 ELSE 0)
         IN /\ placement.arena \in Arenas /\ ArenaFits(placement.arena)
            /\ placement.arena.generation <= latest
            /\ placement.pool \in [P -> Entries]
            /\ \A k \in P : /\ placement.pool[k].generation <= latest
                            /\ Stands(placement.arena, placement.pool[k], k)
            /\ placement.ready \in BOOLEAN
            /\ placement.ready =>
                 \A k \in S : DrawsItself(placement.arena, placement.pool[k], k)
            /\ \A e \in Entries, k \in Casters :
                 e.generation <= arenaGenerations /\ Stands(arena, e, k)
                   => Stands(placement.arena, e, k)
<1> DEFINE rebuilds == Rebuilds(arena, pool, S)
           latest == arenaGenerations + (IF rebuilds THEN 1 ELSE 0)
           base == IF rebuilds THEN ArenaRebuild(arena, Total(S), created) ELSE arena
           new == Unplaced(base, pool, S)
           placement == Placement(arena, pool, S, created)
<1>1. S \subseteq Casters /\ Total(S) \in Nat /\ arena.generation \in Nat
  BY GeometryIsFinite DEF Arenas
<1>2. /\ base \in Arenas /\ ArenaFits(base) /\ base.generation <= latest
      /\ \A e \in Entries, k \in Casters :
           e.generation <= arenaGenerations /\ Stands(arena, e, k) => Stands(base, e, k)
  <2>1. CASE rebuilds
    <3>1. base = ArenaRebuild(arena, Total(S), created) /\ latest = arenaGenerations + 1
      BY <2>1
    <3>2. base \in Arenas /\ ArenaFits(base) /\ base.generation \in {0, arenaGenerations + 1}
      BY <1>1, <3>1, RebuildKept
    <3>3. \A e \in Entries : e.generation \in Nat
      BY DEF Entries
    <3> HIDE DEF base, latest
    <3> QED
      BY <3>1, <3>2, <3>3 DEF Stands
  <2>2. CASE ~rebuilds
    BY <1>1, <2>2
  <2> QED
    BY <2>1, <2>2
<1>3. placement = IF new = {} \/ HasRoom(base, new)
                  THEN [ready |-> TRUE, arena |-> ArenaAppend(base, pool, new),
                        pool |-> PlacedCasters(base, pool, new)]
                  ELSE [ready |-> FALSE, arena |-> base, pool |-> pool]
  BY DEF Placement
<1>4. latest \in Nat /\ arenaGenerations <= latest
  OBVIOUS
<1>5. \A k \in P : pool[k] \in Entries /\ k \in Casters /\ pool[k].generation <= latest
                   /\ Stands(base, pool[k], k)
  <2>1. \A k \in P : pool[k] \in Entries /\ k \in Casters /\ pool[k].generation \in Nat
    BY DEF Entries
  <2> HIDE DEF base, latest
  <2> QED
    BY <1>2, <1>4, <2>1
<1>6. /\ new \subseteq S
      /\ \A k \in S \ new : pool[k].generation # 0 /\ pool[k].generation = base.generation
  BY DEF Unplaced
<1> HIDE DEF base, new, latest, placement, rebuilds
<1>7. base.cursor \in Nat /\ base.cursor <= base.capacity
  BY <1>2 DEF Arenas, ArenaFits
<1>8. /\ placement.arena \in Arenas /\ ArenaFits(placement.arena)
      /\ placement.arena.generation <= latest
      /\ placement.pool \in [P -> Entries]
      /\ \A k \in P : /\ placement.pool[k].generation <= latest
                      /\ Stands(placement.arena, placement.pool[k], k)
      /\ placement.ready \in BOOLEAN
      /\ placement.ready =>
           \A k \in S : DrawsItself(placement.arena, placement.pool[k], k)
      /\ \A e \in Entries, k \in Casters :
           e.generation <= arenaGenerations /\ Stands(arena, e, k)
             => Stands(placement.arena, e, k)
  <2>1. CASE new = {} \/ HasRoom(base, new)
    <3> DEFINE a == ArenaAppend(base, pool, new)
               placed == PlacedCasters(base, pool, new)
    <3>1. placement = [ready |-> TRUE, arena |-> a, pool |-> placed]
      BY <1>3, <2>1
    <3>2. base.cursor + Total(new) <= base.capacity
      <4>1. CASE new = {}
        <5>1. Total(new) = 0
          BY <4>1, FS_EmptySet DEF Total, Geometry
        <5> QED
          BY <1>7, <5>1
      <4>2. CASE HasRoom(base, new)
        BY <4>2 DEF HasRoom
      <4> QED
        BY <2>1, <4>1, <4>2
    <3>3. /\ a \in Arenas /\ ArenaFits(a) /\ a.generation = base.generation
          /\ placed \in [P -> Entries]
          /\ \A k \in P \ new : placed[k] = pool[k]
          /\ \A k \in new : placed[k].generation = base.generation /\ Stands(a, placed[k], k)
          /\ \A e \in Entries, k \in Casters : Stands(base, e, k) => Stands(a, e, k)
      BY <1>2, <1>6, <3>2, AppendKept
    <3>4. /\ placement.ready = TRUE /\ placement.arena = a /\ placement.pool = placed
      BY <3>1
    <3> HIDE DEF a, placed
    <3>5. \A k \in P : placed[k].generation <= latest /\ Stands(a, placed[k], k)
      BY <1>2, <1>5, <3>3
    <3>6. \A k \in S : placed[k].generation # 0 /\ placed[k].generation = a.generation
      BY <1>6, <2>1, <3>3 DEF HasRoom
    <3>7. \A k \in S : DrawsItself(a, placed[k], k)
      BY <3>5, <3>6 DEF Stands
    <3> QED
      BY <1>2, <3>3, <3>4, <3>5, <3>7
  <2>2. CASE ~(new = {} \/ HasRoom(base, new))
    <3>1. placement.ready = FALSE /\ placement.arena = base /\ placement.pool = pool
      BY <1>3, <2>2
    <3> QED
      BY <1>2, <1>5, <3>1
  <2> QED
    BY <2>1, <2>2
<1> QED
  BY <1>8 DEF placement, latest, rebuilds

-----------------------------------------------------------------------------
(* Whom a pass draws, and what it keeps of them.                           *)

\* The casters of a pass are as good as the ones that were kept: a capture of
\* this repaint has no place yet.
LEMMA PoolStands ==
  ASSUME ShadowsTyped, ArenaInv, NEW pass
  PROVE  \E P \in SUBSET Casters :
           /\ Pool(pass) \in [P -> Entries]
           /\ \A k \in P : /\ Pool(pass)[k].generation <= arenaGenerations
                           /\ Stands(pipeline.arena, Pool(pass)[k], k)
<1>1. PICK D \in SUBSET Casters : draws \in [D -> Versions]
  BY DEF ShadowsTyped
<1>2. PICK W \in SUBSET Casters : worldCasters \in [W -> Entries]
  BY DEF ShadowsTyped
<1>3. arenaGenerations \in Nat
  BY DEF ShadowsTyped
<1> DEFINE fresh(k) == [version |-> draws[k], generation |-> 0, first |-> 0]
<1>4. \A k \in D : /\ fresh(k) \in Entries /\ fresh(k).generation <= arenaGenerations
                   /\ Stands(pipeline.arena, fresh(k), k)
  BY <1>1, <1>3 DEF Entries, Stands
<1>5. \A k \in W : /\ worldCasters[k] \in Entries
                   /\ worldCasters[k].generation <= arenaGenerations
                   /\ Stands(pipeline.arena, worldCasters[k], k)
  BY <1>2 DEF ArenaInv
<1>6. Fresh(DOMAIN draws) = [k \in D |-> fresh(k)] /\ \A k : Fresh({k})[k] = fresh(k)
  BY <1>1 DEF Fresh
<1> DEFINE P == (W \ pass.gone) \cup D
           tracked == [k \in P |-> IF k \in D THEN fresh(k) ELSE worldCasters[k]]
<1>7. Pool(pass) = [k \in D |-> fresh(k)] \/ Pool(pass) = tracked
  BY <1>1, <1>2, <1>6 DEF Pool, Tracked
<1> HIDE DEF fresh
<1>8. CASE Pool(pass) = [k \in D |-> fresh(k)]
  BY <1>4, <1>8
<1>9. CASE Pool(pass) = tracked
  <2>1. \A k \in P : /\ tracked[k] \in Entries /\ tracked[k].generation <= arenaGenerations
                     /\ Stands(pipeline.arena, tracked[k], k)
    BY <1>4, <1>5
  <2>2. tracked = [k \in P |-> tracked[k]] /\ P \in SUBSET Casters
    OBVIOUS
  <2> HIDE DEF tracked, P
  <2>3. tracked \in [P -> Entries]
    BY <2>1, <2>2
  <2> QED
    BY <1>9, <2>1, <2>2, <2>3
<1> QED
  BY <1>7, <1>8, <1>9

\* What a pass leaves of the set of casters: the old ones or those it placed.
LEMMA CastersKept ==
  ASSUME ShadowsTyped, ArenaInv, NEW pass, NEW P \in SUBSET Casters, NEW pool \in [P -> Entries],
         Keeps(pass, pool),
         arenaGenerations' \in Nat, arenaGenerations <= arenaGenerations',
         \A k \in P : /\ pool[k].generation <= arenaGenerations'
                      /\ Stands(pipeline'.arena, pool[k], k),
         \A e \in Entries, k \in Casters :
           e.generation <= arenaGenerations /\ Stands(pipeline.arena, e, k)
             => Stands(pipeline'.arena, e, k)
  PROVE  /\ worldCastersValid' \in BOOLEAN
         /\ \E S \in SUBSET Casters : worldCasters' \in [S -> Entries]
         /\ \A k \in DOMAIN worldCasters' :
              /\ worldCasters'[k].generation <= arenaGenerations'
              /\ Stands(pipeline'.arena, worldCasters'[k], k)
<1>1. PICK W \in SUBSET Casters : worldCasters \in [W -> Entries]
  BY DEF ShadowsTyped
<1>2. worldCastersValid' \in BOOLEAN
  BY DEF Keeps, ShadowsTyped
<1>3. worldCasters' = pool \/ worldCasters' = worldCasters
  BY DEF Keeps
<1>4. CASE worldCasters' = pool
  BY <1>2, <1>4
<1>5. CASE worldCasters' = worldCasters
  <2>1. \A k \in W : /\ worldCasters[k] \in Entries /\ worldCasters[k].generation \in Nat
                     /\ worldCasters[k].generation <= arenaGenerations
                     /\ Stands(pipeline.arena, worldCasters[k], k)
    BY <1>1 DEF ArenaInv, Entries
  <2>2. arenaGenerations \in Nat
    BY DEF ShadowsTyped
  <2>3. \A k \in W : /\ worldCasters[k].generation <= arenaGenerations'
                     /\ Stands(pipeline'.arena, worldCasters[k], k)
    BY <2>1, <2>2
  <2> QED
    BY <1>1, <1>2, <1>5, <2>3
<1> QED
  BY <1>3, <1>4, <1>5

-----------------------------------------------------------------------------
(* The terrain's textures.                                                 *)

\* What the shadows of the terrain need of a pipeline.
TerrainHeld(p) ==
  /\ p.terrainMapGeneration <= terrain.generation
  /\ p.terrainMapGeneration = terrain.generation =>
       \A texture \in {p.terrainMap, p.terrainAltitude} :
         texture.size # 0 => texture.holds = terrain.generation

\* A pass that finds another map uploads it to both textures or believes neither.
LEMMA TerrainKept ==
  ASSUME terrain.generation \in Nat, terrain.size \in Nat, NEW p \in Pipelines, TerrainHeld(p),
         NEW failed
  PROVE  LET next == WithTerrain(p, failed) IN
         /\ next \in Pipelines /\ TerrainHeld(next)
         /\ next.arena = p.arena /\ next.boxes = p.boxes /\ next.created = p.created
         /\ TerrainBound(next) =>
              {next.terrainMap.holds, next.terrainAltitude.holds} = {terrain.generation}
<1> DEFINE map == Remade(p.terrainMap, terrain.size, "map" \notin failed)
           altitude == Remade(p.terrainAltitude, terrain.size, "altitude" \notin failed)
           made == [p EXCEPT !.terrainMap = map, !.terrainAltitude = altitude]
           mapped == [map EXCEPT !.holds = terrain.generation]
           raised == [altitude EXCEPT !.holds = terrain.generation]
           uploaded == [made EXCEPT !.terrainMap.holds = terrain.generation,
                                    !.terrainAltitude.holds = terrain.generation,
                                    !.terrainMapGeneration = terrain.generation]
           next == WithTerrain(p, failed)
<1>1. \A texture \in TerrainTextures : \A created :
         Remade(texture, terrain.size, created) \in TerrainTextures
  BY DEF Remade, TerrainTextures, NoTerrainTexture
<1>2. /\ p.terrainMap \in TerrainTextures /\ p.terrainAltitude \in TerrainTextures
      /\ p.terrainMapGeneration \in Nat
  BY DEF Pipelines
<1>3. map \in TerrainTextures /\ altitude \in TerrainTextures
  BY <1>1, <1>2
<1>4. next = CASE p.terrainMapGeneration = terrain.generation -> p
               [] p.terrainMapGeneration # terrain.generation
                    /\ map.size # 0 /\ altitude.size # 0 /\ "memory" \notin failed -> uploaded
               [] OTHER -> made
  BY DEF WithTerrain
<1> HIDE DEF map, altitude, next
<1>5. /\ made \in Pipelines /\ made.terrainMapGeneration = p.terrainMapGeneration
      /\ made.arena = p.arena /\ made.boxes = p.boxes /\ made.created = p.created
      /\ made.terrainMap = map /\ made.terrainAltitude = altitude
  BY <1>2, <1>3 DEF Pipelines
<1>6. uploaded = [made EXCEPT !.terrainMap = mapped, !.terrainAltitude = raised,
                              !.terrainMapGeneration = terrain.generation]
  BY <1>5 DEF Pipelines
<1> HIDE DEF made
<1>7. /\ mapped \in TerrainTextures /\ mapped.holds = terrain.generation
      /\ raised \in TerrainTextures /\ raised.holds = terrain.generation
  BY <1>3 DEF TerrainTextures
<1> HIDE DEF uploaded, mapped, raised
<1>8. /\ uploaded \in Pipelines /\ uploaded.terrainMapGeneration = terrain.generation
      /\ uploaded.arena = p.arena /\ uploaded.boxes = p.boxes /\ uploaded.created = p.created
      /\ uploaded.terrainMap = mapped /\ uploaded.terrainAltitude = raised
  BY <1>5, <1>6, <1>7 DEF Pipelines
<1>9. /\ next \in Pipelines /\ TerrainHeld(next)
      /\ next.arena = p.arena /\ next.boxes = p.boxes /\ next.created = p.created
  <2>1. CASE next = p
    BY <2>1
  <2>2. CASE next = uploaded
    BY <1>7, <1>8, <2>2 DEF TerrainHeld
  <2>3. CASE next = made /\ p.terrainMapGeneration # terrain.generation
    BY <1>2, <1>5, <2>3 DEF TerrainHeld
  <2> QED
    BY <1>4, <2>1, <2>2, <2>3
<1>10. TerrainBound(next) =>
         next.terrainMap.holds = terrain.generation /\ next.terrainAltitude.holds = terrain.generation
  BY <1>9 DEF TerrainBound, TerrainHeld
<1> QED
  BY <1>9, <1>10 DEF next

-----------------------------------------------------------------------------
(* The boxes of the models' occupants.                                     *)

\* Every model has one first model of its occupant, the same for all of them.
LEMMA OneFirst ==
  ASSUME NEW S, S \subseteq Models, NEW m \in S
  PROVE  LET first == CHOOSE f \in Firsts(S) : Occupant[f] = Occupant[m] IN
         /\ first \in Firsts(S) /\ Occupant[first] = Occupant[m]
         /\ \A f \in Firsts(S) : Occupant[f] = Occupant[m] => f = first
<1> DEFINE own == {j \in S : Occupant[j] = Occupant[m]}
           first == CHOOSE f \in Firsts(S) : Occupant[f] = Occupant[m]
<1>1. S \subseteq Nat
  BY CastersAssumption
<1>2. own \subseteq Nat /\ own # {}
  BY <1>1
<1>3. \E i \in own : \A j \in own : i <= j
  <2> HIDE DEF own
  <2> QED
    BY <1>2, LeastElement
<1>4. \E f \in Firsts(S) : Occupant[f] = Occupant[m]
  <2>1. PICK i \in own : \A j \in own : i <= j
    BY <1>3
  <2>2. ASSUME NEW j \in S, j < i
        PROVE  Occupant[j] # Occupant[i]
    <3>1. i \in Nat /\ j \in Nat
      BY <1>1
    <3> QED
      BY <2>1, <2>2, <3>1
  <2> QED
    BY <2>2 DEF Firsts
<1>5. first \in Firsts(S) /\ Occupant[first] = Occupant[m]
  BY <1>4
<1>6. ASSUME NEW f \in Firsts(S), Occupant[f] = Occupant[m]
      PROVE  f = first
  <2>1. /\ f \in S /\ \A j \in S : j < f => Occupant[j] # Occupant[f]
        /\ first \in S /\ \A j \in S : j < first => Occupant[j] # Occupant[first]
    BY <1>5 DEF Firsts
  <2>2. f \in Nat /\ first \in Nat
    BY <1>1, <2>1
  <2> HIDE DEF first
  <2>3. ~(f < first) /\ ~(first < f)
    BY <1>5, <1>6, <2>1
  <2> QED
    BY <2>2, <2>3
<1> QED
  BY <1>5, <1>6

\* Numbers count the occupants: two of them never share one.
LEMMA NumbersTellApart ==
  ASSUME NEW S, S \subseteq Models, NEW m \in S, NEW p \in S, NumberOf(S, m) # 0
  PROVE  /\ NumberOf(S, m) \in 1 .. Numbered(S)
         /\ NumberOf(S, m) = NumberOf(S, p) <=> Occupant[m] = Occupant[p]
<1> DEFINE upTo(f) == {g \in Firsts(S) : g <= f}
           first(q) == CHOOSE f \in Firsts(S) : Occupant[f] = Occupant[q]
           number(q) == Cardinality(upTo(first(q)))
<1>1. S \subseteq Nat /\ IsFiniteSet(S)
  BY CastersAssumption, FS_Subset
<1>2. Firsts(S) \subseteq S
  BY DEF Firsts
<1>3. IsFiniteSet(Firsts(S)) /\ Cardinality(Firsts(S)) \in Nat
  BY <1>1, <1>2, FS_Subset, FS_CardinalityType
<1>4. \A q \in S : /\ first(q) \in Firsts(S) /\ Occupant[first(q)] = Occupant[q]
                   /\ \A f \in Firsts(S) : Occupant[f] = Occupant[q] => f = first(q)
  BY OneFirst
<1>5. \A q \in S : NumberOf(S, q) = IF number(q) <= MaxOccupants THEN number(q) ELSE 0
  BY DEF NumberOf
<1> HIDE DEF first
<1>6. ASSUME NEW f \in Firsts(S)
      PROVE  /\ IsFiniteSet(upTo(f)) /\ Cardinality(upTo(f)) \in Nat
             /\ 1 <= Cardinality(upTo(f)) /\ Cardinality(upTo(f)) <= Cardinality(Firsts(S))
  <2>1. upTo(f) \in SUBSET Firsts(S)
    OBVIOUS
  <2>2. f \in upTo(f)
    <3>1. f \in Nat
      BY <1>1, <1>2
    <3>2. f <= f
      BY <3>1
    <3> QED
      BY <3>2
  <2> HIDE DEF upTo
  <2>3. IsFiniteSet(upTo(f)) /\ Cardinality(upTo(f)) <= Cardinality(Firsts(S))
    BY <1>3, <2>1, FS_Subset
  <2>4. Cardinality(upTo(f)) \in Nat
    BY <2>3, FS_CardinalityType
  <2>5. Cardinality(upTo(f)) # 0
    BY <2>2, <2>3, FS_EmptySet
  <2> QED
    BY <2>3, <2>4, <2>5
<1>7. ASSUME NEW f \in Firsts(S), NEW g \in Firsts(S), f < g
      PROVE  Cardinality(upTo(f)) # Cardinality(upTo(g))
  <2>1. f \in Nat /\ g \in Nat /\ \A h \in Firsts(S) : h \in Nat
    BY <1>1, <1>2
  <2>2. upTo(f) \in SUBSET upTo(g)
    <3>1. \A h \in Firsts(S) : h <= f => h <= g
      BY <1>7, <2>1
    <3> QED
      BY <3>1
  <2>3. g \in upTo(g) /\ g \notin upTo(f)
    BY <1>7, <2>1
  <2>4. IsFiniteSet(upTo(g))
    BY <1>6
  <2> HIDE DEF upTo
  <2> QED
    BY <2>2, <2>3, <2>4, FS_Subset
<1>8. ASSUME NEW f \in Firsts(S), NEW g \in Firsts(S), Cardinality(upTo(f)) = Cardinality(upTo(g))
      PROVE  f = g
  <2>1. f \in Nat /\ g \in Nat
    BY <1>1, <1>2
  <2>2. ~(f < g) /\ ~(g < f)
    <3> HIDE DEF upTo
    <3> QED
      BY <1>7, <1>8
  <2> QED
    BY <2>1, <2>2
<1>9. number(m) \in Nat /\ number(p) \in Nat /\ 1 <= number(m) /\ 1 <= number(p)
      /\ number(m) <= Cardinality(Firsts(S))
  BY <1>4, <1>6
<1>10. number(m) = number(p) <=> Occupant[m] = Occupant[p]
  <2>1. first(m) = first(p) => Occupant[m] = Occupant[p]
    BY <1>4
  <2>2. Occupant[m] = Occupant[p] => first(m) = first(p)
    BY <1>4
  <2>3. number(m) = number(p) => first(m) = first(p)
    BY <1>4, <1>8
  <2> QED
    BY <2>1, <2>2, <2>3
<1>11. NumberOf(S, m) = number(m) /\ number(m) <= MaxOccupants
  BY <1>5
<1>12. NumberOf(S, p) = IF number(p) <= MaxOccupants THEN number(p) ELSE 0
  BY <1>5
<1>13. MaxOccupants \in Nat
  BY BoundsAssumption
<1>14. Numbered(S) \in {Cardinality(Firsts(S)), MaxOccupants}
  <2>1. {Cardinality(Firsts(S)), MaxOccupants} \subseteq Nat
    BY <1>3, <1>13
  <2> QED
    BY <2>1, MinIsLeast DEF Numbered
<1> HIDE DEF number
<1>15. NumberOf(S, m) \in 1 .. Numbered(S)
  BY <1>3, <1>9, <1>11, <1>13, <1>14
<1>16. NumberOf(S, m) = NumberOf(S, p) <=> number(m) = number(p)
  BY <1>9, <1>11, <1>12, <1>13
<1> QED
  BY <1>10, <1>15, <1>16

\* A pass that draws models has numbers for some of them.
LEMMA SomeAreNumbered ==
  ASSUME NEW S, S \subseteq Models
  PROVE  /\ Numbered(S) \in Nat
         /\ S # {} => Numbered(S) # 0
<1>1. IsFiniteSet(S)
  BY CastersAssumption, FS_Subset
<1>2. Firsts(S) \in SUBSET S
  BY DEF Firsts
<1>3. IsFiniteSet(Firsts(S)) /\ Cardinality(Firsts(S)) \in Nat
  BY <1>1, <1>2, FS_Subset, FS_CardinalityType
<1>4. S # {} => Cardinality(Firsts(S)) # 0
  <2> SUFFICES ASSUME NEW m \in S
               PROVE  Cardinality(Firsts(S)) # 0
    OBVIOUS
  <2>1. Firsts(S) # {}
    BY OneFirst, Zenon
  <2> QED
    BY <1>3, <2>1, FS_EmptySet
<1>5. MaxOccupants \in Nat /\ MaxOccupants # 0
  BY BoundsAssumption
<1>6. Numbered(S) \in {Cardinality(Firsts(S)), MaxOccupants}
  <2>1. {Cardinality(Firsts(S)), MaxOccupants} \subseteq Nat
    BY <1>3, <1>5
  <2> QED
    BY <2>1, MinIsLeast DEF Numbered
<1> QED
  BY <1>3, <1>4, <1>5, <1>6

\* With the boxes of the models it numbers, a pass knows every model's own.
LEMMA BoxesTellApart ==
  ASSUME NEW S, S \subseteq Models, NEW boxes, boxes.holds = OccupantBoxes(S)
  PROVE  OwnersAreKnown(boxes, S)
<1> SUFFICES ASSUME NEW m \in S, NEW p \in S, NumberOf(S, m) # 0
             PROVE  Own(boxes, NumberOf(S, m), p) <=> Occupant[m] = Occupant[p]
  BY DEF OwnersAreKnown
<1>1. /\ NumberOf(S, m) \in 1 .. Numbered(S)
      /\ NumberOf(S, m) = NumberOf(S, p) <=> Occupant[m] = Occupant[p]
  BY NumbersTellApart
<1>2. /\ DOMAIN boxes.holds = 1 .. Numbered(S)
      /\ \A n \in 1 .. Numbered(S) : boxes.holds[n] = {q \in S : NumberOf(S, q) = n}
  BY DEF OccupantBoxes
<1> QED
  BY <1>1, <1>2 DEF Own

\* What a buffer of boxes has after a pass, and that it is this pass's own.
LEMMA FilledKept ==
  ASSUME NEW boxes \in BoxBuffers, NEW S, S \subseteq Models, NEW failed,
         BoxesKept(boxes)
  PROVE  LET filled == FilledBoxes(boxes, S, failed) IN
         /\ filled.boxes \in BoxBuffers /\ filled.ready \in BOOLEAN
         /\ BoxesKept(filled.boxes)
         /\ filled.ready => filled.boxes.holds = OccupantBoxes(S)
         /\ S # {} /\ failed = {} /\ ~filled.boxes.unmade => filled.ready
<1> DEFINE need == Numbered(S)
           grown == GrownBoxes(boxes, need, failed)
           more == Max({need + need \div 2, FirstBoxes})
           fills == grown.view /\ "boxMap" \notin failed
           holds == Refilled(grown, boxes, S)
           full == [grown EXCEPT !.holds = holds]
           filled == FilledBoxes(boxes, S, failed)
<1>1. need \in Nat /\ (S # {} => need # 0)
  BY SomeAreNumbered
<1>2. more \in Nat
  <2>1. need + need \div 2 \in Nat /\ FirstBoxes \in Nat
    BY <1>1, BoundsAssumption
  <2> DEFINE a == need + need \div 2
  <2> HIDE DEF need, a
  <2>2. Max({a, FirstBoxes, FirstBoxes}) \in {a, FirstBoxes, FirstBoxes}
    BY <2>1, MaxOfThree DEF a
  <2>3. {a, FirstBoxes, FirstBoxes} = {a, FirstBoxes}
    OBVIOUS
  <2> QED
    BY <2>1, <2>2, <2>3 DEF a
<1>3. holds = OccupantBoxes(S) /\ holds \in Seq(SUBSET Models)
  <2>1. OccupantBoxes(S) \in [1 .. need -> SUBSET Models]
    BY DEF OccupantBoxes
  <2>2. OccupantBoxes(S) \in Seq(SUBSET Models)
    <3> HIDE DEF need
    <3> QED
      BY <1>1, <2>1
  <2> QED
    BY <2>2 DEF Refilled
<1>4. /\ grown \in BoxBuffers
      /\ BoxesKept(grown)
      /\ S # {} /\ failed = {} /\ ~grown.unmade => grown.view
  <2>1. /\ boxes.capacity \in Nat /\ boxes.view \in BOOLEAN /\ boxes.holds \in Seq(SUBSET Models)
        /\ boxes.unmade \in BOOLEAN
        /\ <<>> \in Seq(SUBSET Models)
    BY DEF BoxBuffers
  <2> HIDE DEF more, need
  <2> DEFINE unmade == [boxes EXCEPT !.view = FALSE, !.unmade = TRUE, !.capacity = more]
             unseen == [boxes EXCEPT !.view = FALSE, !.capacity = 0, !.unmade = FALSE]
             new == [capacity |-> more, view |-> TRUE, holds |-> <<>>, unmade |-> FALSE]
  <2>2. grown = CASE boxes.capacity >= need -> boxes
                  [] boxes.capacity < need /\ "boxes" \in failed -> unmade
                  [] boxes.capacity < need /\ "boxes" \notin failed /\ "boxView" \in failed ->
                       unseen
                  [] OTHER -> new
    BY DEF GrownBoxes, WithoutView, more
  <2>3. unmade \in BoxBuffers /\ unmade.unmade
    BY <1>2, <2>1 DEF BoxBuffers
  <2>4. unseen \in BoxBuffers /\ unseen.capacity = 0
    BY <2>1 DEF BoxBuffers
  <2>5. new \in BoxBuffers /\ new.view
    BY <1>2, <2>1 DEF BoxBuffers
  <2> HIDE DEF unmade, unseen, new, grown
  <2>6. \/ grown = boxes /\ boxes.capacity >= need
        \/ grown = unmade /\ "boxes" \in failed
        \/ grown = unseen /\ "boxView" \in failed
        \/ grown = new
    BY <1>1, <2>1, <2>2
  <2>7. CASE grown = boxes /\ boxes.capacity >= need
    BY <1>1, <2>1, <2>7 DEF BoxesKept
  <2>8. CASE grown = unmade /\ "boxes" \in failed
    BY <2>3, <2>8 DEF BoxesKept
  <2>9. CASE grown = unseen /\ "boxView" \in failed
    BY <2>4, <2>9 DEF BoxesKept
  <2>10. CASE grown = new
    BY <2>5, <2>10 DEF BoxesKept
  <2> QED
    BY <2>6, <2>7, <2>8, <2>9, <2>10
<1>5. filled = [ready |-> fills, boxes |-> IF fills THEN full ELSE grown]
  BY DEF FilledBoxes
<1> HIDE DEF filled, grown, holds, need
<1>6. full \in BoxBuffers /\ full.holds = holds /\ full.view = grown.view
      /\ full.capacity = grown.capacity /\ full.unmade = grown.unmade
  BY <1>3, <1>4 DEF BoxBuffers
<1>7. fills \in BOOLEAN
  BY <1>4 DEF BoxBuffers
<1> HIDE DEF full
<1>8. filled.ready = fills /\ filled.boxes = IF fills THEN full ELSE grown
  BY <1>5
<1> QED
  BY <1>3, <1>4, <1>6, <1>7, <1>8 DEF filled, BoxesKept

-----------------------------------------------------------------------------
(* The invariant of what passes keep.                                      *)

\* It does not speak of the frame, and not of where a pass comes from.
LEMMA ShadowsStay ==
  ASSUME ShadowsInv, UNCHANGED shadowVars
  PROVE  ShadowsInv'
<1>1. ShadowsTyped'
  BY DEF ShadowsInv, ShadowsTyped, shadowVars
<1>2. ArenaInv'
  BY DEF ShadowsInv, ArenaInv, Stands, DrawsItself, ArenaFits, shadowVars
<1>3. BoxesInv' /\ TerrainInv' /\ CompositeInv'
  BY DEF ShadowsInv, BoxesInv, TerrainInv, CompositeInv, shadowVars
<1> QED
  BY <1>1, <1>2, <1>3 DEF ShadowsInv

\* Nor of the captures that wait for the next pass, nor of the targets.
LEMMA CapturesAndTargetsKept ==
  ASSUME ShadowsInv, ready' \in BOOLEAN, \E S \in SUBSET Casters : draws' \in [S -> Versions],
         UNCHANGED <<city, pipeline, arenaGenerations, worldCasters, worldCastersValid, terrain,
                     composite>>
  PROVE  ShadowsInv'
<1>1. ShadowsTyped'
  BY DEF ShadowsInv, ShadowsTyped
<1>2. ArenaInv'
  BY DEF ShadowsInv, ArenaInv, Stands, DrawsItself, ArenaFits
<1>3. BoxesInv' /\ TerrainInv' /\ CompositeInv'
  BY DEF ShadowsInv, BoxesInv, TerrainInv, CompositeInv
<1> QED
  BY <1>1, <1>2, <1>3 DEF ShadowsInv

\* A pass that draws nothing forgets its captures, too.
LEMMA NoCapturesLeft ==
  ASSUME draws' = NoCasters
  PROVE  \E S \in SUBSET Casters : draws' \in [S -> Versions]
<1>1. NoCasters \in [{} -> Versions]
  BY DEF NoCasters
<1> QED
  BY <1>1

\* An empty pipeline is one that holds nothing.
LEMMA NoPipelineIsOne ==
  /\ NoPipeline \in Pipelines /\ ArenaFits(NoPipeline.arena)
  /\ NoPipeline.arena.generation = 0
  /\ NoPipeline.boxes.capacity = 0
  /\ NoPipeline.terrainMapGeneration = 0
  /\ NoPipeline.terrainMap.size = 0 /\ NoPipeline.terrainAltitude.size = 0
<1>1. NoCasters \in [{} -> Casters \X Versions] /\ DOMAIN NoCasters = {}
  BY DEF NoCasters
<1>2. NoArena \in Arenas
  BY <1>1 DEF NoArena, Arenas
<1>3. ArenaFits(NoArena) /\ NoArena.generation = 0
  BY <1>1, BoundsAssumption DEF NoArena, ArenaFits
<1>4. NoBoxes \in BoxBuffers /\ NoBoxes.capacity = 0
  BY DEF NoBoxes, BoxBuffers
<1>5. NoTerrainTexture \in TerrainTextures /\ NoTerrainTexture.size = 0
  BY DEF NoTerrainTexture, TerrainTextures
<1> QED
  BY <1>2, <1>3, <1>4, <1>5 DEF NoPipeline, Pipelines

\* Captures, maps, targets and devices that come and go.
LEMMA BetweenPassesKept ==
  ASSUME ShadowsInv
  PROVE  /\ \A k \in Casters, v \in Versions : CaptureLiveShadowDraw(k, v) => ShadowsInv'
         /\ \A size \in city.sizes : UpdateTerrain(size) => ShadowsInv'
         /\ PausedPass => ShadowsInv'
         /\ LoseTargets => ShadowsInv'
         /\ CreateTargets => ShadowsInv'
         /\ DestroyShadows => ShadowsInv'
<1>1. ShadowsTyped /\ ArenaInv /\ BoxesInv /\ TerrainInv /\ CompositeInv
  BY DEF ShadowsInv
<1>2. ASSUME NEW k \in Casters, NEW v \in Versions, CaptureLiveShadowDraw(k, v)
      PROVE  ShadowsInv'
  <2>1. PICK S \in SUBSET Casters : draws \in [S -> Versions]
    BY <1>1 DEF ShadowsTyped
  <2>2. draws' = [j \in S \cup {k} |-> IF j = k THEN v ELSE draws[j]]
    BY <1>2, <2>1 DEF CaptureLiveShadowDraw
  <2>3. draws' \in [S \cup {k} -> Versions] /\ S \cup {k} \in SUBSET Casters
    BY <2>1, <2>2
  <2>4. ready' \in BOOLEAN
    BY <1>1, <1>2 DEF CaptureLiveShadowDraw, ShadowsTyped
  <2> QED
    BY <1>2, <2>3, <2>4, CapturesAndTargetsKept DEF CaptureLiveShadowDraw
<1>3. ASSUME NEW size \in city.sizes, UpdateTerrain(size)
      PROVE  ShadowsInv'
  <2>1. /\ terrain' = [generation |-> terrain.generation + 1, size |-> size]
        /\ terrain.generation < MaxTerrains
        /\ UNCHANGED <<city, ready, pipeline, arenaGenerations, draws, worldCasters,
                       worldCastersValid, composite>>
    BY <1>3 DEF UpdateTerrain
  <2>2. city \in Cities /\ terrain.generation \in 0 .. MaxTerrains /\ MaxTerrains \in Nat
    BY <1>1, BoundsAssumption DEF ShadowsTyped
  <2>3. size \in Nat
    BY <2>2, CastersAssumption
  <2>4. terrain.generation + 1 \in 0 .. MaxTerrains
    BY <2>1, <2>2
  <2>5. terrain' \in [generation : 0 .. MaxTerrains, size : Nat] /\ terrain'.size \in city.sizes
    BY <2>1, <2>3, <2>4
  <2>6. ShadowsTyped'
    BY <1>1, <2>1, <2>5 DEF ShadowsTyped
  <2>7. ArenaInv'
    BY <1>1, <2>1 DEF ArenaInv, Stands, DrawsItself, ArenaFits
  <2>8. BoxesInv' /\ CompositeInv'
    BY <1>1, <2>1 DEF BoxesInv, CompositeInv
  <2>9. TerrainInv'
    <3>1. pipeline.terrainMapGeneration \in Nat /\ terrain.generation \in Nat
      BY <1>1, <2>2 DEF ShadowsTyped, Pipelines
    <3>2. terrain'.generation = terrain.generation + 1
      BY <2>1
    <3> QED
      BY <1>1, <2>1, <3>1, <3>2 DEF TerrainInv
  <2> QED
    BY <2>6, <2>7, <2>8, <2>9 DEF ShadowsInv
<1>4. PausedPass => ShadowsInv'
  BY <1>1, NoCapturesLeft, CapturesAndTargetsKept DEF PausedPass, ShadowsTyped
<1>5. LoseTargets => ShadowsInv'
  <2> SUFFICES ASSUME LoseTargets
               PROVE  ShadowsInv'
    OBVIOUS
  <2>1. ready' \in BOOLEAN
    BY DEF LoseTargets
  <2>2. \E S \in SUBSET Casters : draws' \in [S -> Versions]
    BY <1>1 DEF LoseTargets, ShadowsTyped
  <2> QED
    BY <2>1, <2>2, CapturesAndTargetsKept DEF LoseTargets
<1>6. CreateTargets => ShadowsInv'
  <2> SUFFICES ASSUME CreateTargets
               PROVE  ShadowsInv'
    OBVIOUS
  <2>1. ready' \in BOOLEAN
    BY DEF CreateTargets
  <2>2. \E S \in SUBSET Casters : draws' \in [S -> Versions]
    BY <1>1 DEF CreateTargets, ShadowsTyped
  <2> QED
    BY <2>1, <2>2, CapturesAndTargetsKept DEF CreateTargets
<1>7. ASSUME DestroyShadows
      PROVE  ShadowsInv'
  <2>1. /\ pipeline' = NoPipeline /\ draws' = NoCasters /\ worldCasters' = NoCasters
        /\ UNCHANGED <<city, arenaGenerations, terrain, composite>>
    BY <1>7 DEF DestroyShadows
  <2>2. ready' \in BOOLEAN /\ worldCastersValid' \in BOOLEAN
    BY <1>7 DEF DestroyShadows
  <2>3. /\ \E S \in SUBSET Casters : draws' \in [S -> Versions]
        /\ \E S \in SUBSET Casters : worldCasters' \in [S -> Entries]
    <3>1. NoCasters \in [{} -> Versions] /\ NoCasters \in [{} -> Entries]
      BY DEF NoCasters
    <3> QED
      BY <2>1, <3>1
  <2>4. ShadowsTyped'
    BY <1>1, <2>1, <2>2, <2>3, NoPipelineIsOne DEF ShadowsTyped
  <2>5. ArenaInv'
    <3>1. DOMAIN worldCasters' = {}
      BY <2>1 DEF NoCasters
    <3>2. arenaGenerations \in Nat
      BY <1>1 DEF ShadowsTyped
    <3> QED
      BY <2>1, <3>1, <3>2, NoPipelineIsOne DEF ArenaInv
  <2>6. BoxesInv' /\ CompositeInv'
    BY <1>1, <2>1, NoPipelineIsOne DEF BoxesInv, BoxesKept, CompositeInv
  <2>7. TerrainInv'
    <3>1. terrain.generation \in Nat
      BY <1>1 DEF ShadowsTyped
    <3> QED
      BY <2>1, <3>1, NoPipelineIsOne DEF TerrainInv
  <2> QED
    BY <2>4, <2>5, <2>6, <2>7 DEF ShadowsInv
<1> QED
  BY <1>2, <1>3, <1>4, <1>5, <1>6, <1>7

\* A pass that draws nothing at all, or makes the pipeline and stops there.
LEMMA IdlePassKept ==
  ASSUME ShadowsInv, NEW pass
  PROVE  /\ PassDrawsNothing(pass) => ShadowsInv'
         /\ \A created \in BOOLEAN : PassCannotDraw(pass, created) => ShadowsInv'
<1>1. ShadowsTyped /\ ArenaInv /\ BoxesInv /\ TerrainInv /\ CompositeInv
  BY DEF ShadowsInv
<1>2. ASSUME Keeps(pass, Pool(pass)), draws' = NoCasters,
             pipeline' \in Pipelines, pipeline'.arena = pipeline.arena,
             pipeline'.boxes = pipeline.boxes, pipeline'.terrainMap = pipeline.terrainMap,
             pipeline'.terrainAltitude = pipeline.terrainAltitude,
             pipeline'.terrainMapGeneration = pipeline.terrainMapGeneration,
             UNCHANGED <<city, ready, arenaGenerations, terrain, composite>>
      PROVE  ShadowsInv'
  <2>1. PICK P \in SUBSET Casters :
          /\ Pool(pass) \in [P -> Entries]
          /\ \A k \in P : /\ Pool(pass)[k].generation <= arenaGenerations
                          /\ Stands(pipeline.arena, Pool(pass)[k], k)
    BY <1>1, PoolStands
  <2> DEFINE pool == Pool(pass)
  <2>2. arenaGenerations \in Nat /\ arenaGenerations' = arenaGenerations
    BY <1>1, <1>2 DEF ShadowsTyped
  <2>3. pool \in [P -> Entries] /\ Keeps(pass, pool)
    BY <1>2, <2>1
  <2>4. \A k \in P : /\ pool[k].generation <= arenaGenerations'
                     /\ Stands(pipeline'.arena, pool[k], k)
    BY <1>2, <2>1
  <2>5. \A e \in Entries, k \in Casters :
          e.generation <= arenaGenerations /\ Stands(pipeline.arena, e, k)
            => Stands(pipeline'.arena, e, k)
    BY <1>2
  <2> HIDE DEF pool
  <2>6. /\ worldCastersValid' \in BOOLEAN
        /\ \E S \in SUBSET Casters : worldCasters' \in [S -> Entries]
        /\ \A k \in DOMAIN worldCasters' :
             /\ worldCasters'[k].generation <= arenaGenerations'
             /\ Stands(pipeline'.arena, worldCasters'[k], k)
    BY <1>1, <2>2, <2>3, <2>4, <2>5, CastersKept
  <2>7. ShadowsTyped'
    BY <1>1, <1>2, <2>6, NoCapturesLeft DEF ShadowsTyped
  <2>8. ArenaInv'
    BY <1>1, <1>2, <2>6 DEF ArenaInv, ArenaFits
  <2>9. BoxesInv' /\ TerrainInv' /\ CompositeInv'
    BY <1>1, <1>2 DEF BoxesInv, TerrainInv, CompositeInv
  <2> QED
    BY <2>7, <2>8, <2>9 DEF ShadowsInv
<1>3. pipeline \in Pipelines
  BY <1>1 DEF ShadowsTyped
<1>4. PassDrawsNothing(pass) => ShadowsInv'
  BY <1>2, <1>3 DEF PassDrawsNothing
<1>5. ASSUME NEW created \in BOOLEAN, PassCannotDraw(pass, created)
      PROVE  ShadowsInv'
  <2>1. pipeline' = [pipeline EXCEPT !.created = created]
    BY <1>5 DEF PassCannotDraw
  <2>2. /\ pipeline' \in Pipelines /\ pipeline'.arena = pipeline.arena
        /\ pipeline'.boxes = pipeline.boxes /\ pipeline'.terrainMap = pipeline.terrainMap
        /\ pipeline'.terrainAltitude = pipeline.terrainAltitude
        /\ pipeline'.terrainMapGeneration = pipeline.terrainMapGeneration
    BY <1>3, <2>1 DEF Pipelines
  <2> QED
    BY <1>2, <1>5, <2>2 DEF PassCannotDraw
<1> QED
  BY <1>4, <1>5

\* A pass that draws, whichever of its calls fail.
LEMMA DrawingPassKept ==
  ASSUME ShadowsInv, NEW pass, NEW S, NEW R, NEW shaded \in BOOLEAN, NEW failed,
         PassDraws(pass, S, R, shaded, failed)
  PROVE  ShadowsInv'
<1> DEFINE pool == Pool(pass)
           created == "arena" \notin failed
           placement == Placement(pipeline.arena, pool, S, created)
           filled == FilledBoxes(pipeline.boxes, R, failed)
           selfTest == FillsBoxes(R, failed) /\ filled.ready
           boxes == IF FillsBoxes(R, failed) THEN filled.boxes ELSE pipeline.boxes
           drawn == [pipeline EXCEPT !.created = TRUE, !.arena = placement.arena,
                                     !.boxes = boxes]
           final == IF shaded THEN WithTerrain(drawn, failed) ELSE drawn
           bound == shaded /\ TerrainBound(final)
           rebuilds == Rebuilds(pipeline.arena, pool, S)
           latest == arenaGenerations + (IF rebuilds THEN 1 ELSE 0)
<1>1. ShadowsTyped /\ ArenaInv /\ BoxesInv /\ TerrainInv /\ CompositeInv
  BY DEF ShadowsInv
<1>2. /\ S \subseteq DOMAIN pool /\ R \in city.reaches
      /\ failed \subseteq Calls(rebuilds, R, shaded)
      /\ rebuilds => arenaGenerations < MaxRebuilds
      /\ arenaGenerations' = IF rebuilds THEN arenaGenerations + 1 ELSE arenaGenerations
      /\ Keeps(pass, placement.pool)
      /\ pipeline' = final /\ draws' = NoCasters
      /\ composite' = IF S = {} /\ R = {} /\ ~bound THEN composite
                      ELSE Composited(final, placement, S, R, selfTest, bound, failed)
      /\ UNCHANGED <<city, ready, terrain>>
  BY Zenon DEF PassDraws, Drawn, Reached
<1>3. /\ pipeline \in Pipelines /\ pipeline.arena \in Arenas /\ pipeline.boxes \in BoxBuffers
      /\ arenaGenerations \in Nat /\ arenaGenerations \in 0 .. MaxRebuilds /\ MaxRebuilds \in Nat
      /\ terrain.generation \in Nat /\ terrain.size \in Nat
      /\ city \in Cities
  BY <1>1, BoundsAssumption DEF ShadowsTyped, Pipelines
<1>4. R \subseteq Models
  BY <1>2, <1>3, CastersAssumption
<1>5. PICK P \in SUBSET Casters :
        /\ pool \in [P -> Entries]
        /\ \A k \in P : /\ pool[k].generation <= arenaGenerations
                        /\ Stands(pipeline.arena, pool[k], k)
  BY <1>1, PoolStands
<1>6. latest = arenaGenerations' /\ latest \in Nat /\ arenaGenerations <= latest
      /\ latest \in 0 .. MaxRebuilds
  <2>1. CASE rebuilds
    <3>1. latest = arenaGenerations + 1 /\ arenaGenerations' = arenaGenerations + 1
          /\ arenaGenerations < MaxRebuilds
      BY <1>2, <2>1, Zenon
    <3> HIDE DEF latest
    <3> QED
      BY <1>3, <3>1
  <2>2. CASE ~rebuilds
    <3>1. latest = arenaGenerations + 0 /\ arenaGenerations' = arenaGenerations
      BY <1>2, <2>2, Zenon
    <3> HIDE DEF latest
    <3> QED
      BY <1>3, <3>1
  <2> QED
    BY <2>1, <2>2
<1>7. /\ placement.arena \in Arenas /\ ArenaFits(placement.arena)
      /\ placement.arena.generation <= latest
      /\ placement.pool \in [P -> Entries]
      /\ \A k \in P : /\ placement.pool[k].generation <= latest
                      /\ Stands(placement.arena, placement.pool[k], k)
      /\ placement.ready \in BOOLEAN
      /\ placement.ready =>
           \A k \in S : DrawsItself(placement.arena, placement.pool[k], k)
      /\ \A e \in Entries, k \in Casters :
           e.generation <= arenaGenerations /\ Stands(pipeline.arena, e, k)
             => Stands(placement.arena, e, k)
  <2>1. S \subseteq P
    BY <1>2, <1>5
  <2>2. ArenaFits(pipeline.arena) /\ pipeline.arena.generation <= arenaGenerations
    BY <1>1 DEF ArenaInv
  <2> HIDE DEF pool, created
  <2> QED
    BY <1>3, <1>5, <2>1, <2>2, PlacementKept
<1>8. /\ filled.boxes \in BoxBuffers /\ filled.ready \in BOOLEAN
      /\ BoxesKept(filled.boxes)
      /\ filled.ready => filled.boxes.holds = OccupantBoxes(R)
      /\ R # {} /\ failed = {} /\ ~filled.boxes.unmade => filled.ready
  BY <1>1, <1>3, <1>4, FilledKept DEF BoxesInv
<1> HIDE DEF pool, created, placement, filled, rebuilds, latest
<1>9. /\ boxes \in BoxBuffers
      /\ BoxesKept(boxes)
      /\ selfTest => boxes.holds = OccupantBoxes(R)
  BY <1>1, <1>3, <1>8 DEF BoxesInv
<1>10. selfTest \in BOOLEAN /\ (R # {} /\ failed = {} /\ ~boxes.unmade => selfTest)
  BY <1>8 DEF FillsBoxes, RegistryDrawn
<1> HIDE DEF boxes, selfTest
<1>11. /\ drawn \in Pipelines /\ drawn.arena = placement.arena /\ drawn.boxes = boxes
       /\ drawn.terrainMap = pipeline.terrainMap
       /\ drawn.terrainAltitude = pipeline.terrainAltitude
       /\ drawn.terrainMapGeneration = pipeline.terrainMapGeneration
  BY <1>3, <1>7, <1>9 DEF Pipelines
<1> HIDE DEF drawn
<1>12. TerrainHeld(drawn)
  BY <1>1, <1>11 DEF TerrainInv, TerrainHeld
<1>13. /\ final \in Pipelines /\ TerrainHeld(final)
       /\ final.arena = placement.arena /\ final.boxes = boxes
       /\ bound => {final.terrainMap.holds, final.terrainAltitude.holds} = {terrain.generation}
  <2>1. CASE shaded
    <3>1. final = WithTerrain(drawn, failed)
      BY <2>1
    <3>2. LET next == WithTerrain(drawn, failed) IN
          /\ next \in Pipelines /\ TerrainHeld(next)
          /\ next.arena = drawn.arena /\ next.boxes = drawn.boxes
          /\ TerrainBound(next) =>
               {next.terrainMap.holds, next.terrainAltitude.holds} = {terrain.generation}
      BY <1>3, <1>11, <1>12, TerrainKept
    <3> HIDE DEF final
    <3> QED
      BY <1>11, <3>1, <3>2
  <2>2. CASE ~shaded
    BY <1>11, <1>12, <2>2
  <2> QED
    BY <2>1, <2>2
<1>14. bound \in BOOLEAN
  BY DEF TerrainBound
<1> HIDE DEF final, bound
<1>15. /\ worldCastersValid' \in BOOLEAN
       /\ \E Q \in SUBSET Casters : worldCasters' \in [Q -> Entries]
       /\ \A k \in DOMAIN worldCasters' :
            /\ worldCasters'[k].generation <= arenaGenerations'
            /\ Stands(pipeline'.arena, worldCasters'[k], k)
  <2>1. pipeline'.arena = placement.arena
    BY <1>2, <1>13
  <2> DEFINE placed == placement.pool
  <2>2. placed \in [P -> Entries] /\ Keeps(pass, placed)
    BY <1>2, <1>7
  <2>3. \A k \in P : /\ placed[k].generation <= arenaGenerations'
                     /\ Stands(pipeline'.arena, placed[k], k)
    BY <1>6, <1>7, <2>1
  <2>4. \A e \in Entries, k \in Casters :
          e.generation <= arenaGenerations /\ Stands(pipeline.arena, e, k)
            => Stands(pipeline'.arena, e, k)
    BY <1>7, <2>1
  <2>5. arenaGenerations' \in Nat /\ arenaGenerations <= arenaGenerations'
    BY <1>6
  <2> HIDE DEF placed
  <2> QED
    BY <1>1, <2>2, <2>3, <2>4, <2>5, CastersKept
<1>16. /\ composite' \in Composites
       /\ composite'.casters /\ composite'.owners /\ composite'.terrain /\ composite'.tested
  <2>1. CASE composite' = composite
    BY <1>1, <2>1 DEF ShadowsTyped, CompositeInv
  <2>2. CASE composite' = Composited(final, placement, S, R, selfTest, bound, failed)
    <3> DEFINE casters == placement.ready =>
                            \A k \in S : DrawsItself(placement.arena, placement.pool[k], k)
               owners == selfTest => OwnersAreKnown(final.boxes, R)
               tested == R # {} /\ failed = {} /\ ~final.boxes.unmade => selfTest
               spared == R # {} /\ failed = {} => selfTest
               current == bound => {final.terrainMap.holds, final.terrainAltitude.holds}
                                     = {terrain.generation}
    <3>1. composite' = [casters |-> casters, owners |-> owners, tested |-> tested,
                        spared |-> spared, terrain |-> current]
      BY <2>2 DEF Composited
    <3>2. casters = TRUE
      BY <1>7
    <3>3. owners = TRUE
      <4>1. selfTest => OwnersAreKnown(final.boxes, R)
        BY <1>4, <1>9, <1>13, BoxesTellApart
      <4> QED
        BY <4>1
    <3>4. current = TRUE
      BY <1>13
    <3>5. tested = TRUE /\ spared \in BOOLEAN
      <4>1. final.boxes = boxes
        BY <1>13
      <4> QED
        BY <1>10, <4>1
    <3> HIDE DEF casters, owners, tested, spared, current
    <3> QED
      BY <3>1, <3>2, <3>3, <3>4, <3>5 DEF Composites
  <2> QED
    BY <1>2, <2>1, <2>2
<1>17. ShadowsTyped'
  <2>1. arenaGenerations' \in 0 .. MaxRebuilds
    BY <1>6
  <2>2. pipeline' \in Pipelines
    BY <1>2, <1>13
  <2>3. /\ city' \in Cities /\ ready' \in BOOLEAN
        /\ terrain' \in [generation : 0 .. MaxTerrains, size : Nat]
        /\ terrain'.size \in city'.sizes \cup {0}
    BY <1>1, <1>2 DEF ShadowsTyped
  <2>4. \E Q \in SUBSET Casters : draws' \in [Q -> Versions]
    BY <1>2, NoCapturesLeft
  <2> QED
    BY <1>15, <1>16, <2>1, <2>2, <2>3, <2>4 DEF ShadowsTyped
<1>18. ArenaInv'
  <2>1. pipeline'.arena = placement.arena
    BY <1>2, <1>13
  <2>2. ArenaFits(pipeline'.arena) /\ pipeline'.arena.generation <= arenaGenerations'
    BY <1>6, <1>7, <2>1
  <2> QED
    BY <1>15, <2>2 DEF ArenaInv, ArenaFits
<1>19. BoxesInv'
  <2>1. pipeline'.boxes = boxes
    BY <1>2, <1>13
  <2> QED
    BY <1>9, <2>1 DEF BoxesInv, BoxesKept
<1>20. TerrainInv'
  BY <1>2, <1>13 DEF TerrainInv, TerrainHeld
<1>21. CompositeInv'
  BY <1>16 DEF CompositeInv
<1> QED
  BY <1>17, <1>18, <1>19, <1>20, <1>21 DEF ShadowsInv

\* However a pass ends.
LEMMA PassEndsKept ==
  ASSUME ShadowsInv, NEW pass, PassEnds(pass)
  PROVE  ShadowsInv'
<1>1. ASSUME NEW S \in SUBSET Casters, NEW R \in city.reaches, NEW shaded \in BOOLEAN,
             NEW failed \in Failing(R, shaded), PassDraws(pass, S, R, shaded, failed)
      PROVE  ShadowsInv'
  BY <1>1, DrawingPassKept
<1> QED
  BY <1>1, IdlePassKept, Zenon DEF PassEnds

\* No step of the scene's leaves the invariant.
LEMMA SceneKept ==
  ASSUME SceneInv, SceneNext
  PROVE  SceneInv'
<1>1. ShadowsInv /\ FrameInv
  BY DEF SceneInv
<1>2. ShadowsInv'
  <2>1. CASE DestroyD3D11Context
    BY <1>1, <2>1, BetweenPassesKept DEF DestroyD3D11Context
  <2>2. ASSUME NEW size \in Windows, CreateBackBufferTargets(size)
        PROVE  ShadowsInv'
    BY <1>1, <2>2, BetweenPassesKept DEF CreateBackBufferTargets
  <2>3. CASE LoseBackBuffer
    BY <1>1, <2>3, BetweenPassesKept DEF LoseBackBuffer
  <2>4. CASE UNCHANGED shadowVars
    BY <1>1, <2>4, ShadowsStay
  <2>5. CASE ShadowsOnly
    BY <1>1, <2>5, BetweenPassesKept DEF ShadowsOnly
  <2>6. CASE StaticPass
    BY <1>1, <2>6, PassEndsKept DEF StaticPass
  <2>7. CASE SceneEnds
    <3>1. PICK pass \in Passes, outcome \in Outcomes : RenderSceneEffects(PassEnds(pass), outcome)
      BY <2>7 DEF SceneEnds
    <3>2. PassEnds(pass)
      BY <3>1 DEF RenderSceneEffects
    <3> QED
      BY <1>1, <3>2, PassEndsKept
  <2> QED
    BY <2>1, <2>2, <2>3, <2>4, <2>5, <2>6, <2>7
       DEF SceneNext, OnReloadedEffects, ClearColor, FlushFrame
<1>3. FrameInv'
  BY <1>1, FrameKept
<1> QED
  BY <1>2, <1>3 DEF SceneInv

\* Nothing has been drawn or shown at first.
LEMMA SceneStarts ==
  ASSUME SceneInit
  PROVE  SceneInv
<1>1. ShadowsTyped
  <2>1. /\ city \in Cities /\ ready = FALSE /\ worldCastersValid = FALSE /\ arenaGenerations = 0
        /\ pipeline = NoPipeline /\ draws = NoCasters /\ worldCasters = NoCasters
        /\ terrain = [generation |-> 0, size |-> 0] /\ composite = Right
    BY DEF SceneInit, ShadowsInit
  <2>2. NoCasters \in [{} -> Versions] /\ NoCasters \in [{} -> Entries]
    BY DEF NoCasters
  <2>3. 0 \in 0 .. MaxRebuilds /\ 0 \in 0 .. MaxTerrains
    BY BoundsAssumption
  <2>4. ready \in BOOLEAN /\ worldCastersValid \in BOOLEAN /\ arenaGenerations \in 0 .. MaxRebuilds
    BY <2>1, <2>3
  <2>5. composite \in Composites
    BY <2>1 DEF Right, Composites
  <2>6. terrain \in [generation : 0 .. MaxTerrains, size : Nat] /\ terrain.size = 0
    BY <2>1, <2>3
  <2>7. /\ \E S \in SUBSET Casters : draws \in [S -> Versions]
        /\ \E S \in SUBSET Casters : worldCasters \in [S -> Entries]
    BY <2>1, <2>2
  <2> QED
    BY <2>1, <2>4, <2>5, <2>6, <2>7, NoPipelineIsOne DEF ShadowsTyped
<1>2. ArenaInv /\ BoxesInv /\ TerrainInv /\ CompositeInv
  <2>1. /\ arenaGenerations = 0 /\ pipeline = NoPipeline /\ worldCasters = NoCasters
        /\ terrain.generation = 0 /\ composite = Right
    BY DEF SceneInit, ShadowsInit
  <2>2. DOMAIN worldCasters = {}
    BY <2>1 DEF NoCasters
  <2>3. ArenaInv
    BY <2>1, <2>2, NoPipelineIsOne DEF ArenaInv
  <2>4. BoxesInv
    BY <2>1, NoPipelineIsOne DEF BoxesInv, BoxesKept
  <2>5. TerrainInv
    BY <2>1, NoPipelineIsOne DEF TerrainInv
  <2>6. CompositeInv
    BY <2>1 DEF CompositeInv, Right
  <2> QED
    BY <2>3, <2>4, <2>5, <2>6
<1>3. FrameInv
  <2>1. /\ window = Min(Windows) /\ farPlane = Min(FarPlanes)
        /\ sceneDepth = NoDepth /\ held = "none" /\ shown = Fine
        /\ runtime = FALSE /\ effectsInBackBuffer = FALSE /\ effectsThisFrame = FALSE
        /\ applied = 0 /\ rendered = FALSE
    BY DEF SceneInit
  <2>2. window \in Windows /\ farPlane \in FarPlanes
    BY <2>1, MinIsLeast, WindowsAssumption
  <2>3. sceneDepth \in Depths /\ sceneDepth.encoded = 0
    BY <2>1 DEF NoDepth, Depths
  <2>4. shown \in Frames /\ shown.depth /\ shown.times = 1
    BY <2>1 DEF Fine, Frames
  <2>5. /\ runtime \in BOOLEAN /\ rendered \in BOOLEAN
        /\ effectsInBackBuffer \in BOOLEAN /\ effectsThisFrame \in BOOLEAN
    BY <2>1
  <2>6. applied \in 0 .. 1
    BY <2>1
  <2>7. FrameTyped
    BY <2>1, <2>2, <2>3, <2>4, <2>5, <2>6 DEF FrameTyped
  <2>8. EffectsKnown
    BY <2>1 DEF EffectsKnown
  <2>9. DepthKnown /\ EffectsAppearOnce
    BY <2>3, <2>4 DEF DepthKnown, EffectsAppearOnce
  <2> QED
    BY <2>7, <2>8, <2>9 DEF FrameInv
<1> QED
  BY <1>1, <1>2, <1>3 DEF ShadowsInv, SceneInv

\* Everything that passes keep from one to the next (the arena, the boxes, the
\* terrain's textures and the set of casters) and everything the driver keeps of
\* ReShade's effects fits together after any sequence of passes, whichever of
\* their calls fail, and of resizes and lost devices.
THEOREM SceneInvAlways == SceneSpec => []SceneInv
<1>1. SceneInit => SceneInv
  BY SceneStarts
<1>2. SceneInv /\ [SceneNext]_sceneVars => SceneInv'
  <2>1. ASSUME SceneInv, UNCHANGED sceneVars
        PROVE  SceneInv'
    <3>1. UNCHANGED shadowVars /\ UNCHANGED frameVars
      BY <2>1 DEF sceneVars
    <3>2. ready' = ready
      BY <3>1 DEF shadowVars
    <3> QED
      BY <2>1, <3>1, <3>2, ShadowsStay, FrameStays DEF SceneInv
  <2> QED
    BY <2>1, SceneKept
<1> QED
  BY <1>1, <1>2, PTL DEF SceneSpec

\* The type of the scene's state (SceneTypeOK): also that the arena never
\* outgrows its limit, nor what it holds the arena.
THEOREM SceneTypeOKAlways == SceneSpec => []SceneTypeOK
<1>1. SceneInv => SceneTypeOK
  <2> SUFFICES ASSUME SceneInv
               PROVE  SceneTypeOK
    OBVIOUS
  <2>1. ShadowsTyped /\ ArenaInv /\ FrameTyped
    BY DEF SceneInv, ShadowsInv, FrameInv
  <2>2. composite \in [DOMAIN Right -> BOOLEAN]
    <3>1. DOMAIN Right = {"casters", "owners", "tested", "spared", "terrain"}
      BY DEF Right
    <3>2. composite \in [{"casters", "owners", "tested", "spared", "terrain"} -> BOOLEAN]
      BY <2>1 DEF ShadowsTyped, Composites
    <3> QED
      BY <3>1, <3>2
  <2>3. pipeline.arena.generation \in 0 .. arenaGenerations
    BY <2>1 DEF ShadowsTyped, ArenaInv, Pipelines, Arenas
  <2>4. DOMAIN worldCasters \subseteq Casters
        /\ \A k \in DOMAIN worldCasters : worldCasters[k] \in Entries
    BY <2>1 DEF ShadowsTyped
  <2>5. terrain.generation \in 0 .. MaxTerrains
    BY <2>1 DEF ShadowsTyped
  <2>6. ShadowsTypeOK
    BY <2>1, <2>2, <2>3, <2>4, <2>5 DEF ShadowsTypeOK, ShadowsTyped, ArenaInv, ArenaFits
  <2>7. shown.times \in 0 .. 2
    BY <2>1 DEF FrameTyped, Frames
  <2> QED
    BY <2>1, <2>6, <2>7 DEF SceneTypeOK, FrameTyped, Depths
<1> QED
  BY <1>1, SceneInvAlways, PTL

\* A capture is drawn from its own place in the arena with the geometry it was
\* last captured with (CastersDrawThemselves), for any captures of any sizes.
THEOREM CastersDrawThemselvesAlways == SceneSpec => []CastersDrawThemselves
<1>1. SceneInv => CastersDrawThemselves
  BY DEF SceneInv, ShadowsInv, CompositeInv, CastersDrawThemselves
<1> QED
  BY <1>1, SceneInvAlways, PTL

\* The numbers a pass has drawn lead to its own boxes (ModelsKnowTheirOwn): no
\* model shades its own picture, and all others do, for any number of models.
THEOREM ModelsKnowTheirOwnAlways == SceneSpec => []ModelsKnowTheirOwn
<1>1. SceneInv => ModelsKnowTheirOwn
  BY DEF SceneInv, ShadowsInv, CompositeInv, ModelsKnowTheirOwn
<1> QED
  BY <1>1, SceneInvAlways, PTL

\* A pass in which nothing fails makes the self test, whatever failed before it,
\* as long as the boxes' buffer could be created when one was last needed
\* (SelfTestComesBack).
THEOREM SelfTestComesBackAlways == SceneSpec => []SelfTestComesBack
<1>1. SceneInv => SelfTestComesBack
  BY DEF SceneInv, ShadowsInv, CompositeInv, SelfTestComesBack
<1> QED
  BY <1>1, SceneInvAlways, PTL

\* The composite reads the current map's textures or none (TerrainIsCurrent).
THEOREM TerrainIsCurrentAlways == SceneSpec => []TerrainIsCurrent
<1>1. SceneInv => TerrainIsCurrent
  BY DEF SceneInv, ShadowsInv, CompositeInv, TerrainIsCurrent
<1> QED
  BY <1>1, SceneInvAlways, PTL

\* No frame's pixels go through the effects twice, nor without a reason not at
\* all (EffectsAppearOnce), for any window sizes and any reloads.
THEOREM EffectsAppearOnceAlways == SceneSpec => []EffectsAppearOnce
<1>1. SceneInv => EffectsAppearOnce
  BY DEF SceneInv, FrameInv
<1> QED
  BY <1>1, SceneInvAlways, PTL

\* The effects never hold a released view, and the depth they are given is of
\* the window's size and for their far plane (DepthIsForTheseEffects).
THEOREM DepthIsForTheseEffectsAlways == SceneSpec => []DepthIsForTheseEffects
<1>1. SceneInv => DepthIsForTheseEffects
  BY DEF SceneInv, FrameInv, FrameTyped, DepthKnown, DepthIsForTheseEffects
<1> QED
  BY <1>1, SceneInvAlways, PTL
===============================================================================
