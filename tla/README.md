# Specifications of SCD3D11

SCD3D11 is a Direct3D 11 driver for SimCity 4 (SC4): a DLL that implements the
game's `cIGZGDriver` interface (an OpenGL 1.x shaped API) on a D3D11 device. This
directory holds TLA+ models of the parts of the driver whose correctness depends
on order: on what the GPU has finished, on which step failed, on which thread came
first. TLC checks them on small instances; TLAPS proves the most important
properties for every instance.

Run a model with `tlc -config X.cfg M`, a proof with `tlapm M_proofs.tla`.
`PROJECT.json` lists the runs, the theorems, the source lines of every definition
(`map`), a mutation of the code each property catches (`mutants`), where the code
departs from its own documentation (`findings`) and the
hazards the properties are for.

## The system

SC4 is one render thread that calls the driver. Around it are the GPU, which
executes queued commands some frames later; the system, which can take the device
away; plugins, which register a frame callback on threads of their own; a watchdog
thread; and hooks the driver installs into the game for live shadows.

| Component | State | Operations | What is hard | What makes it correct |
|---|---|---|---|---|
| Geometry cache (`cGDriver_Geometry.cpp`), one for vertices and one for indices | a ring of dynamic buffers (cursor, capacity, last frame of use, keys), a table from digests to offsets, trimmed or not, the last upload's buffer | `UseCachedBuffer`, `UploadCachedBuffer`, `TrimGeometryCachesIfLow`, reset with the device | the GPU reads frames behind; allocation and mapping fail half way; 32-bit address space | no write touches what a queued draw reads; a hit returns its key's bytes; the budget holds |
| Frame fences (same file) | `currentFrame`, `completedFrame`, eight event queries | `EndFrameFence`, `FrameCompleted` | slots reused while pending, queries that cannot be created or answer late | `completedFrame` never runs ahead of the GPU |
| Terrain stream and vertex buffer extension (`ext/cGDriver_VertexBuffers.cpp`) | a reservation of a fixed buffer; a ring of four stream buffers | `GetVertices`, `ContinueVertices`, `ReleaseVertices`, `DrawPrims*`, `StreamUpload` | as for the cache, and wrap-around | no write touches what a queued draw reads; reservations stay inside |
| Device lifecycle (`cGDriver_Init.cpp`, `cGDriver_Viewport.cpp`) | device, targets, mode, window, `deviceLost`, backoff, generation, texture names | `Init`, `SetVideoMode`, `Shutdown`, `Flush`, `NoteDeviceLoss`, texture calls | loss at any point, failures at any step of a recovery, resizes | recovery is invisible to SC4 and announced to plugins, and succeeds in the end |
| Frame callback service (`SCD3D11Service.cpp`) | one callback, the count in flight, a thread-local flag | register, unregister, invoke | unloading races with an invocation; nested invocations | unregistration is a barrier that returns |
| Draw state cache (`cGDriver_Geometry.cpp`, `cGDriver_State.cpp`) | marked groups of constants, constants as refreshed and as uploaded, what is believed bound | setters, `BindGeometryPipeline`, `ApplyRenderStates`, `RestoreOwnedContextState`, `DrawBlit`, `Present` | overlays, callbacks and blits change the context; uploads and state objects fail half way; new devices | a draw is made with what SC4 has set |
| Textures (`cGDriver_Textures.cpp`, `BoundTextureView` in `cGDriver_Geometry.cpp`) | names, shapes, resources and their levels; bound names; the view and sampler each stage last looked up | `GenTextures`, `TexImage2D`, `LoadTextureLevel`, `CreateTexture`, `DeleteTextures`, binding, draws | raw pointers kept between draws; pixels exist once; new devices | a draw uses the texture the name stands for; growing a chain loses no level |
| Buffer regions (`ext/cGDriver_BufferRegions.cpp`) | eight regions, a scratch copy of the depth buffer and whether it is valid | new, delete, read, draw, resize | a stale scratch copy; a resize that fails half way | a region gives back what was saved in it |
| Cache table (`GeometryCache.h`) | an open-addressed table | find, insert, erase, grow, shrink | erasing without tombstones | behaves as a map |
| Live shadows (`cGDriver_LiveShadows.cpp`, the hook of `cSC43DRender::Draw` in `cGDriver_ReShade.cpp`) | the casters of the picture SC4 keeps of the city, and whether they are known; causes for a new picture; the arena their geometry stays in, boxes of models, terrain textures | a static pass, full or partial; a dynamic one with each frame | SC4 repaints rectangles, shadows cross their edges; resources that fail and come back | what is left standing shows the shadows of the casters there are, each drawn from its own geometry |
| Shadow registry and game hooks (`ShadowRegistry.cpp`, `LiveShadowHooks.cpp`) | records of static shadows, per manager; prop signatures | hooks of SC4's own functions, on its threads | stale records, events while loading, cities that close | a record stands for a shadow SC4 has |
| Terrain shadows (`TerrainShadow*.cpp`) | the height field and the map built from it | update with each static pass | a map that is older than the terrain | the map is rebuilt when what it shows has changed |
| Watchdog and diagnostics (`Diagnostics.cpp`) | the tick of the last frame, the stop event, the log's mutex, the thread's count of frames, stall and reports | start, stop, note a frame, log; wake up, judge, suspend and report | it suspends a thread that may hold the log's mutex or be about to join it; stale ticks | every stall is reported, loading is not, and the game is never left waiting |
| ReShade (`cGDriver_ReShade.cpp`) | the runtime and its far plane, the scene's depth texture, what is in the back buffer and what was rendered in this frame | scene end, clear, frame end, resize, reload | the back buffer outlives a frame, ReShade counts by `Present`; views that are released | the effects appear once, with the depth of this scene |
| Viewport culling, conversions, settings, doctor, crash dump, AMD ring fix, focus guard, COM director | little or none | pure functions, start-up I/O, patches | arithmetic | unit tests |

They interact by calls on the render thread. The geometry cache and the stream ask
the fences before a refill. `Flush` ends the frame's fence, trims the caches,
resizes, calls the frame callback and presents, or recovers the device.
`DestroyD3D11Context` resets all of them. The end of a scene draws shadows and then
ReShade's effects; `Flush` also notes the frame for the watchdog. Several threads enter
the frame callback service, the watchdog with the log's mutex, and the registry.

## Modules

**`FrameFences`** holds the fences and the frame numbers. It has no specification of
its own: `GeometryCache` and `TerrainStream` extend it and take its steps with
theirs. `gpuDone` is the GPU's progress; a slot's `query` is the frame whose
commands precede the query's `End`, kept beside the label `frame` because the two
are different things the code must keep equal. `GetData` may answer late or fail,
so `PollFences` relates a call of `FrameCompleted` to every `completedFrame` it can
leave.

**`GeometryCache`** is one cache. `cache` is a record of the segments, the table, the
active segment, the trimmed flag, and the segment the last upload's raw pointer
points into. A call that succeeds and the draw that then reads it are one step (the
driver has one thread); `UploadFindsNoMemory` and `UploadCannotMap` are the two ways
`UploadCachedBuffer` fails after it has changed something. Two fields of a segment
are history: `reads`, what queued draws read, and `spans`, what the buffer's current
copy holds. A rename (WRITE_DISCARD) leaves queued draws their old copy, so it
empties both.

**`TerrainStream`** is the vertex buffer extension's reservation and the ring its
draws stream through. Lengths are vertices. A map may fail on a device that is not
lost: reads that are queued in the segment at that moment are `exposed` until the segment
is renamed, and `overwritten` is the history of which reads a write went over.

**`FrameCallback`** is the callback service. A step is one critical section or one
write of `g_insideCallback`. `stack` holds the render thread's invocations, more
than one when a callback calls back into the driver. `unloaded` is history: what a
plugin may have unloaded, because its unregistration returned.

**`DeviceLifecycle`** is the device's life. `SetUpDevice` is `SetVideoMode` from
`DestroyD3D11Context` on, with one outcome for each place it can fail; `Flush` is one
action for each way through it. The delay between attempts is counted in units of
250 ms. `shown` and `told` are history. The targets' sizes are those of a window
or exclusive full screen; borderless full screen, which skips the resize check, is
not modelled.

**`Textures`** is what SC4 keeps in the driver and what draws make of it. It has no
specification of its own: `DeviceLifecycle` extends it and takes its steps between the
device's. A *shape* is a size and format, named by the length of its full mip chain. A
level holds `Pixels` or is `Blank`; `Grown` is the longer chain `TexImage2D` makes for
a level past the end, with the old levels copied into it. `views` is what
`BoundTextureView` has cached for each stage: it is `"gone"` once the resource behind
the raw pointer is released, unless something (`ForgetViews`, the step of
`textureViewsGeneration`) has made the driver look again.

**`LookupTable`** is a map, and **`FlatTable`** the open-addressed table that has to
behave as one: `FlatTable` maps what `find` answers for every key to the map's state
and implements its specification. A key's mixed bits are any number, so every
pattern of collisions is an initial state. The hash function itself is not modelled.
Its names begin with `Table` where `GeometryCache` has the same ones, since
`GeometryCache_proofs` proves both. The loops of `Rehash` (`Rehashing`), `erase`
(`Pulling`) and `shrink_to_fit` (`Doubled`) are functions of how far they have come.

**`BufferRegions`** holds the saved regions, the two buffers and the scratch copy of
depth. Pictures have one row, and pixels two values. Everything that writes depth is
an action: geometry under any combination of depth test, depth write and stencil,
clears, drawn regions, callbacks, and the creation of new targets, which may fail
at each of its stages. `leftBehind` is the history of which regions a failed recreation
did not reach. D3D11's copies drop what does not fit, as its runtime does.

**`DrawState`** is what draws are made with. A *slot* is one binding or render state
the driver keeps a belief of (`applied`, beside `context.slots`, what is bound), a
*group* is a `ConstantGroup`. `Flags` stands for the constants that
`BindGeometryPipeline` works out from textures, lighting and the vertex format and no
setter marks. `BindGeometryPipeline` ends in four ways, each an action: without the
draw constants, without the state constants, without the n-th render state, or in a
draw, and what it has changed until then is part of the action. `drawnRight` is
history: it compares what the last draw read with what SC4 had set. A hook of
`Present` leaves any of the changes in `Overlays`, without the driver being told.

**`LiveShadows`** is the picture of the city and the casters the driver believes in it.
The screen is a set of cells; a caster has a box, where it is drawn, and for each
camera the cells it shades. What SC4 does is modelled from how the driver relies on
it: it repaints the places of things that change, not the places they shade; a
scroll shifts what it has; it repaints any rectangle of what is dirty, in any
order, and may end a draw with some left. `FullPass`, `TrackedPass`, `UntrackedPass`
and `PausedPass` are the ways through `RenderLivePropShadows`: the whole window; a
rectangle the set of casters can follow; one it cannot; and one while live shadows
are paused. `Updates` is when `TerrainShadows::Update` builds a new map. A terraform changes
the heights of any stretch of cells, and the height field the driver reads may be the old
one: `ViewMayBeUnknown` says when a pass without shadow records then has no view, which
is at the city's edge and wherever the terrain is newer than the field. Any of a pass's
redisplays may fail. `missed` is the history of what these leave wrong: the cells of passes
that could not follow their casters and of redisplays that failed, until they are
repainted. Shadows that
SC4's own records bring are drawn with every pass that needs them and are left out;
so are failures to create the shadow map, which lose a pass's shadows.

**`ShadowDrawing`** is the second half of `DrawLivePropShadows`: with what a pass draws the
casters it has. The arena's contents are a function from places to the caster whose
geometry is there and the version it was drawn in, so `CastersDrawThemselves` can ask
what a draw reads and need not trust `generation`. `PassDrawsNothing`,
`PassCannotDraw` and `PassDraws` are its ways through; `failed` is the set of calls
that fail, at most `MaxFailing` per pass. `composite` is history: what the last
composite was right about; `unmade` says the boxes' capacity is that of a buffer that
could not be created. Which casters reach the viewport is arithmetic, so a pass
may draw any subset of its captures, and any of `city.reaches` of the registry's. Where
shadows fall, and which rectangles are repainted, is `LiveShadows`'.

**`SceneEffects`** is what a frame shows, on top of `ShadowDrawing`: ReShade's effects at
the end of a scene and `FinishReShadeFrame` before `Present`. ReShade is modelled from
how the driver uses it: it applies its effects at `Present` unless something was
rendered through it since the last. `applied` counts the effects that are on the pixels
of the back buffer, and `shown` what a frame showed. What a resize, a clear or a new
device does to the back buffer is in the same actions that do it to shadows.

**`Watchdog`** is the watchdog thread beside the render thread. A step is what one
thread does between two operations the other can see; time is counted in wake-ups of
half a second. `SuspendThread` may come between any two steps of the render thread,
while it holds the log's mutex and while it stops the watchdog too. `noted`, `flow`
and `reported` are history.

**`ShadowRegistry`** is who draws a shadow: SC4, or the driver. `records` is SC4's
overlay manager, modelled from what the registry relies on; each record has a number
(`birth`), and so has the caster registered for it, which is how a property can tell a
caster from the shadow that has its slot. `AddShadow` makes the record and starts a
`call`; `Register` or `FailToRegister` ends it. Between the two the other thread may
draw, and nothing else may run on the thread that adds and removes: SC4 calls AddShadow
and RemoveOverlay from one thread at a time, and the model has the two never overlap.
`DrawShadows` is one call of either hook with any list of ids in any view: what is in
view is any set of occupants, since whether a caster reaches the view is arithmetic.
`EndPass` is `RenderLivePropShadows`, as far as it takes the pass. `GatherRunsOut` is
the gathering that memory runs out in, at any point: what it has erased and numbered
stays, and SC4 draws the list. `asked`, `native`, `withheld`, `failed`, `unfiltered`
(what was drawn whole for lack of memory) and `dropped` (numbered, and not in the pass)
are history. Three things are assumed of SC4: a pass lists records that are in use, a
decal's texture binding is not a shadow's, and the cheat that pauses is not issued
inside a pass. A record SC4 passes to the hooks can be read.

`MCGeometryCache` gives sizes to keys, `MCFlatTable` and `MCDrawState` declare keys and
values interchangeable, `MCDrawState` names the slots, `MCLiveShadows` lays out cells,
boxes, shadows and terrains, `MCShadowRegistry` says what casts and declares slots and
addresses interchangeable, and `MCSceneEffects` builds four small cities; the other
components are checked directly with their `.cfg`. The `*_proofs` modules hold the
theorems.

## Runs

| Run | Instance | Shows |
|---|---|---|
| `geometry_cache` | a ring of 3 segments of 8 bytes, trimmed to 2; an ordinary key and two oversized ones; 2 entries per segment; 1 fence; 3 frames | queued draws, the table, the fences, budget and trimming, with several victims to an eviction |
| `terrain_stream` | 2 segments of 2 vertices; a reservation buffer of 2; 2 fences; 4 frames | the stream, with buffers and maps that fail on working and lost devices |
| `flat_table` | 4 keys with any of 8 hashes, 2 slots at first, up to 8 | the table is a map, and at most half full |
| `buffer_regions` | 2 regions, windows of 1 and 2 pixels, 2 pixel values | regions give back what they saved; all but those a failed recreation left behind have the window's size |
| `frame_callback` | 2 callbacks, 2 plugin threads, no nesting | the barrier, and that unregistration returns |
| `device_lifecycle` | 1 mode, 2 windows, 1 texture of 2 shapes, 1 stage, 2 failures that lengthen the delay, 2 generations of the device | safety and liveness of recovery; textures and their cached views across shapes, levels and devices |
| `draw_state` | 2 groups, 2 values, 2 viewports; pipeline, index buffer and 2 render states, one of them with two objects; every hook that shows what it changes | draws are made with what SC4 has set, and every belief is right |
| `live_shadows` | 4 cells in a row, one past the city's edge; windows of 3; 2 casters whose shadows overlap, one drawn over the edge; 2 cameras that throw shadows in opposite directions; 2 terrains; 3 changes | the settled picture is right and of one terrain map, but for what was missed, and is reached |
| `shadow_registry` | 2 slots, a building and a True3D prop, 2 manager addresses, 2 records, 2 cities, 2 passes | each shadow a pass lists is drawn or cast, once, by its own caster, with memory that runs out anywhere |
| `watchdog` | 2 wake-ups to arm, a stall of 1, reports 2 apart and at most 2; a clock of 8; 2 starts | which stalls are reported, and that neither thread waits for ever |
| `scene_effects` | four cities: 2 captures of unlike sizes; 4 models of 3 occupants, with numbers for 2; a capture and terrain of 2 sizes; effects alone, with 2 window sizes and 2 far planes. 3 rebuilds of the arena, 2 terrain maps, 1 failure per pass | what passes keep is right when it is used; effects appear once, with the right depth |
| `first_shadow` | `live_shadows` without the registry | a finding: the first caster of a partial pass loses the shadow outside the rectangle |

**Bounds.** `MaxFrame`, `MaxGeneration`, `MaxClock`, `MaxRebuilds` and `MaxTerrains`
bound what would grow for ever and nothing else. `MaxDepth` does more: at 1,
`frame_callback` has no callback that is invoked again from inside a callback, which is
what `MCNestedCallback.cfg` is for. So what `frame_callback` shows of `UnregisterReturns` is
for callbacks that do not call back into the driver; its two invariants are proved for
any depth. One or two fences make slots wrap within a few frames, which eight would only
delay; a frame is ended again in a pending slot, a query is missing and `completedFrame`
lags in every combination. Two segments suffice for a refill under a pending fence,
three for an eviction with more than one victim; a segment once enlarged takes an
ordinary and an oversized key together. Four keys make the table grow twice, and half of
eight slots hold them, so runs of every length cross the array's end. Two pixels tell a
stale pixel from the one that was copied, and two regions one that was recreated from
one that was not. The cap of five failures is two in the model; the delays differ and
the control does not. One slot for each way a slot is treated (always bound and
compared, bound by indexed draws only, a render state, a render state after another) and
one group beside the header cover every branch of `BindGeometryPipeline`; two values are
enough to change and to change back. A device that is never broken again
(`MaxGeneration`) is only used to end behaviours. One texture with chains of one and two
levels is named, shaped, grown, deleted and named again, with a device lost between any
two of these.

Two records suffice for one to be freed and another to take its slot, in the same city
or in the next one at the same address, and for a pass that lists both; two passes tell
a caster that joined this one from one that joined the last. A floating or a prerendered
prop differs from the two occupants only in what `Suppressed` says of it.

Three changes let a caster go, the window scroll and the camera turn in one behaviour, with
every order of repainting between them. `Modes` says whether the registry is installed: it
is in `live_shadows`, and the properties need it. No failure of the module is switched off: passes have
no view wherever the code may find none, and redisplays fail in any combination.

The cities of `scene_effects` share nothing but the pipeline: what one of them cannot
reach another does, and each is small enough for every order of passes, failures,
resizes and devices. Two captures of sizes 1 and 2 in an arena of 2 to 4 places fill
it, overflow it and reuse every place, and three rebuilds put an old and a new
generation on both sides of a lost device. Four models of three occupants, of which two
get numbers, have two models under one number, a model without one, and passes in
which the same number means another occupant. One failure per pass meets every call;
two in one pass would only combine branches that do not look at each other. A clock of
8 wake-ups holds a stall, its reports, frames that resume and a second stall, across a
stop and a start; at its end waits still time out, so no thread stops with it.

**Fairness.** `Watchdog`: both threads are scheduled, a mutex that is free again and again
is handed on (strong fairness of taking the log's), and time passes. Nothing makes SC4
call the driver: it may stall for ever, which is what the watchdog is for.
`FrameCallback`: an invocation that has begun ends, since the render
thread runs it and plugin callbacks return, and a notified waiter gets the mutex; no
thread is forced to call. `DeviceLifecycle`: SC4 calls `Flush` with every frame, time
passes, and an attempt to recover that is made again and again is not refused for
ever (strong fairness of the attempt that succeeds: the environment's part, without
which no driver could come back). `LiveShadows`: SC4 draws with every frame,
a draw ends, a picture that is not valid is repainted, and rectangles that are dirty in
draw after draw are repainted in one of them (strong fairness, since a draw may end
before). Safety runs use no fairness. `shadow_registry` does not check deadlock, because
the game may end; nothing else may stop.

## Proofs

TLAPS proves, for every value of the constants that satisfies the `ASSUME`s:

* `GeometryCache_proofs`: type correctness, `QueuedDrawsIntact`,
  `EntriesHoldTheirData`, `KeysMatchEntries`, `DynamicBufferIsLive`,
  `CompletedFramesAreDone`. The inductive invariant `Safe` adds to these what no
  single one of them says: every pending read lies below its segment's cursor or is
  of a frame no later than the segment's `lastUse`, reads are only of frames after
  `gpuDone`, and a segment without a buffer holds nothing. An append is above
  the cursor; a refill without a rename has `lastUse <= completedFrame <= gpuDone`,
  so no read is left. `RingKeepsItsBudget` needs an argument of its own (`InBudget`,
  `VictimsMakeRoom`): when an eviction stops before it has been round the ring, the
  victims so far are enough, since the first step it did not need was tested after
  them; when it goes round, no other segment has a buffer, because nothing past the
  ring ever has one. The retry allocates the upload rounded up to a multiple of 4, which
  fits the budget because segments are whole megabytes (`NormalCapacity % 4 = 0`).
  `Total` counts the set of the buffers' bytes, so that no sum has to be unfolded.
* `GeometryCache_proofs`, the table: `FlatTable` implements `LookupTable`
  (`TableBehavesAsMap`), each call does what it says (`TableCallsDoWhatTheySay`), and
  the table is at most half full (`TableIsAtMostHalfFull`), for any keys, hashes and
  sizes. `TableInv` is inductive: no key is there twice, and between an entry's home and
  the entry every slot is used (`Reached`); what `find` answers depends on the set of
  entries only (`FindAnswers`), so each call is followed by what it does to that set.
  Half of the slots being free is part of it: a probe, a run and a rehash end, and find
  room, because there is an unused slot. The loops of `Rehash`, `erase` and
  `shrink_to_fit` are recursive functions over the slots they have behind them. That such
  a function exists is `Iteration`, by the least number of steps it would not exist for
  (`FirstStep`, from the well-founded order of the naturals), and what the loops do is
  shown in the same way: in a rehash the new table holds what the slots so far held
  (`RehashingIsSound`); in `erase` only entries still ahead may have the hole on their way
  from home (`PulledUpTo`), and after the last of the run none has. Nor has an entry
  beyond the unused slot that ends the run, as that slot would be on its way as well
  (`PastTheEnd`): that is why the loop may stop there.
  `InitialSlots` is at least 2 and the keys are finitely many, as in the code (1024 slots,
  digests of fixed size).
* `FrameFences_proofs`: the lemmas on fences both use. The argument that a slot that
  was ended again answers for its older frame is `PolledFramesAreDone`.
* `TerrainStream_proofs`: the same for the stream, with maps that fail: a write goes over
  a queued read only where a failed map has exposed it (`MCTerrainStreamMap.cfg` shows that
  this happens).
  Type correctness, the reservation (`ReservationInBuffer`) and the segment's end
  (`StreamStaysInSegment`) as well.
* `BackBuffer_proofs`, on what happens to the back buffer besides SC4's draws. For
  `BufferRegions`: type correctness, `ScratchIsCurrent`, `RegionsFitWindow` and
  `RegionsGiveBackWhatTheySaved`, under `~CallbackDrawsDepth`, which cannot be dropped
  (see the observations below). Regions that a failed recreation left behind have no
  texture or one of an old size, and are excepted by name. `BuffersFit` adds that both
  buffers and the scratch copy have the window's width whenever they are there, without
  which a whole copy between them would be dropped and the flag be wrong. For
  `SceneEffects`, with its `ShadowDrawing`: every property its run checks. `SceneInv` is
  inductive. Of the arena it says that a caster placed in its generation lies below the
  cursor as it was placed, and that no generation is used again (`ArenaInv`); of the
  boxes, that there is a view unless the next pass makes one (`BoxesInv`); of the
  terrain's textures, that they hold the map whose generation they are believed to have
  (`TerrainInv`); of the frame, which effects the pixels went through and what ReShade
  may hold (`EffectsKnown`, `DepthKnown`). `SelfTestComesBack` has no hypothesis: it
  excepts the passes that find the capacity of a buffer that could not be created, which
  `MCSelfTest.cfg` shows to be necessary. The sizes in the arena are cardinalities of sets
  (`Total`), for the reason given above.
* `Lifecycle_proofs`, on what starts and stops beside SC4. For `FrameCallback`: type
  correctness and the barrier, for any number of threads and any nesting. `SafeToUnload`
  says the count in flight is the length of the stack, and that an unloaded callback is
  on it only where it has returned. The run `frame_callback` has no nesting: under
  nesting the barrier, and `NoWaiterForgotten`, rest on the proof. For `Watchdog`:
  `ReportsFollowFlowingFrames`, `ReportsAreSpaced` and, not in a run, that the render
  thread is held only to copy its registers. `WatchdogInv` connects the count of ticks
  in a row with the frames there were (`FlowIsCounted`), the stall the watchdog is in
  with the reports it has made of it (`StallIsKnown`), and says that a thread that was
  joined has left nothing to the next one (`Joined`). For `DeviceLifecycle` with
  `Textures`: every safety property of the run, and `NoFrameAfterAnnouncement` and the
  other action properties. `DeviceInv` says that a cached view is right about the name
  it was looked up for (`ViewsAreCurrent`), that a name given back keeps nothing and
  levels with pixels have a resource (`PixelsHaveResources`), and that no device there
  is, or is yet to come, was announced (`AnnouncedInOrder`). Type correctness alone has
  a hypothesis, on arithmetic no backend knows: `2 ^ n <= 2 ^ MaxFailures` for the
  delays of earlier attempts.
* `DrawState_proofs`: every property of `DrawState`, for any groups, slots, objects and
  order of render states, under `OverlaysShow`: a hook of `Present` that changes
  anything changes something `ForeignContextState` always compares, or nothing it
  does not. `DrawsAreSafe` says why little is enough: constants not marked were right
  when last refreshed, so a refresh of the marked groups and of the flags gives a
  rebuild from scratch (`RefreshedIsRebuilt`); the cache equals the buffer, so a
  comparison with it decides the upload (`UnchangedIsUploaded`); and the pipeline is
  believed bound whenever anything is (`UnnoticedIsHarmless`).

* `LiveShadows_proofs`: type correctness, without conditions, and `SettledPictureIsRight`
  and `OneTerrain` with the registry installed (`Modes = {TRUE}`; without it,
  `first_shadow`), whatever has no view and whichever redisplays fail. `Faithful` is the
  inductive invariant. It speaks of the camera and the pause of the last draw, not of
  the present ones, since both may change and change back between draws; and it says of
  a picture no draw is to give up that its set of casters is the city's and its cells
  show the set's shadows, but for what SC4 is still to repaint (`CastersFollowed`,
  `ShowsCasters`). A caster that goes is in the way of the pass that repaints its place;
  a cell outside the rectangle that loses or gains a shadow is redisplayed
  (`RedisplayedCells`) or missed.

* `ShadowRegistry_proofs`: type correctness, `RegistryIsHonest`, `PassIsRight` and
  `EveryShadowOnce`. `HooksTogether` says the hooks are in the game whenever there are
  casters; `NumbersApart` that no two casters are of one record, and none of one yet to
  be made; `CallIsFresh` that the record of a call is nobody's caster; `JoinedOnce` that
  whoever is in the pass carries its serial. A gather appends casters that do not carry
  it, and marks them, so the pass stays without repetitions. `EveryShadowOnce` needs
  `Once` beside it: the registry gathers nothing until it has turned to SC4's manager,
  and SC4 draws nothing that has a caster but for lack of memory (`OneDrawer`); what was
  withheld or gathered keeps the caster it had (`CastersStay`); that caster is of the
  record's occupant and of this city (`CastersFit`).

Proved, for every instance, and not repeated in a run: the `TypeOK` of each module that
has a `*_proofs` module, `StreamStaysInSegment`, `KeysMatchEntries`,
`DynamicBufferIsLive`, `ReservationInBuffer`, `UnboundPipelineMeansNoBelief`. The runs keep
the properties that a change of the code is likeliest to break.

Only model-checked: all liveness, which needs `ENABLED`. Every invariant and every
action property that a run checks is a theorem, and so is the refinement, which is what
lets `GeometryCache` keep its `entries` as a plain function of the keys.

## Findings

`first_shadow`: without the registry, whether a caster was ever captured is read before
the pass's own captures count, so the pass that shows the first one asks for no
redraw. With the order reversed the run passes.

The runs check properties that except, by name, what the following departures leave
wrong, so that nothing else can hide behind them. Each departure has a configuration of
its own, beside the runs, in which TLC finds the comment's words violated:

| Configuration | Instance | Property |
|---|---|---|
| `MCTerrainStreamMap.cfg` of `TerrainStream` | as `terrain_stream` | `AppendsNeverOverlap` |
| `MCNestedCallback.cfg` of `FrameCallback` | as `frame_callback`, with an invocation inside an invocation | `CallbackMayUnregisterItself` |
| `MCSelfTest.cfg` of `MCSceneEffects` | as `scene_effects` | `ModelsNeverShadowThemselves` |
| `MCRegistryMemory.cfg` of `MCShadowRegistry` | as `shadow_registry` | `HandsOverWhatItTakes` |
| `MCRegistryMatch.cfg` of `MCShadowRegistry` | as `shadow_registry` | `PassMatchesRecords` |
| `MCTrackedCasters.cfg` of `MCLiveShadows` | as `live_shadows`, with all cells in the city | `TrackedCastersAreRight` |

* `MCTerrainStreamMap.cfg`: `StreamUpload` resets the cursor before it maps. After a map that
  fails on a working device the next draw appends, without a rename, to a segment the GPU
  may still be reading, although "Appends never overlap what a queued draw reads"
  (`cGDriver_Geometry.cpp:614`).
* `MCNestedCallback.cfg`: `ActiveCallbackGuard` (`SCD3D11Service.cpp:72`) clears
  `g_insideCallback` rather than restoring it, so a callback that was invoked again
  meanwhile waits for its own end, although "A callback may unregister itself" (line 39).
  Only a plugin whose callback calls back into the driver meets it.
* `MCSelfTest.cfg`: `ensureBuffer` sets the capacity before it creates the buffer, and the boxes
  of prerendered models are only made again when the capacity is too small. Once
  `CreateBuffer` has failed, passes do without the self test until one needs more boxes,
  although "A prerendered model never shadows itself"
  (`cGDriver_LiveShadows.cpp:287`).
* `MCRegistryMemory.cfg`: `Gather` numbers a caster before it is pushed into the pass
  (`ShadowRegistry.cpp:828`). When memory runs out there, SC4 draws that list; but the
  number stays, and a record listed again before the pass is taken is taken from SC4 and
  not handed to the driver, although the registry "hands the driver the ones each static
  pass would have drawn" (`ShadowRegistry.h:23`).
* `MCRegistryMatch.cfg`: with AddShadow on another thread, a record may be listed before it is
  registered. The slot's old caster, from a city at the same address or a record freed
  unnoticed, then casts for it if both have one texture, although "any record that no
  longer matches what was registered, is kept for the native draw"
  (`ShadowRegistry.cpp:715`).
* `MCTrackedCasters.cfg`: after a terraform a partial pass over the city, without a shadow record
  or caster, may find its first terrain vertex off the older height field. It has no view,
  counts as empty, asks for nothing, and a caster that is gone from its rectangle is
  still tracked, although "the casters we already track are still right"
  (`cGDriver_LiveShadows.cpp:1035`).

Observations that no run checks:

* A resize that finds no memory for a buffer region leaves it without a texture and the
  later ones with textures of the old size (`RecreateBufferRegions` returns at the first
  failure), and nothing recreates them before the next resize or recovery.
  `RegionsFitWindow` excepts them (`leftBehind`).
* While live shadows are paused SC4 draws the whole list, relaxed props' records among
  it, although it would not shadow those by itself; `OnlyTheRestIsNative` (in
  `EveryShadowOnce`) says "unless paused".
* A relaxed prop whose fit SC4 rejects is recognised draw by draw whether it floats or
  not: the height is only looked at in `Register`.
* Memory that runs out inside `Gather` leaves casters in the pass whose shadows SC4 then
  draws as well (`ShadowRegistry.cpp:953`): those are in `unfiltered`.
* A recovery that fails after creating its device destroys it with the old generation's
  number, so `BEFORE_DEVICE_DESTROY` is announced twice for it; the comment
  (`cGDriver_Viewport.cpp:313`) says once.
* A successful `SetVideoMode` keeps the delay of earlier recovery attempts.
* A full pass that cannot tell its view keeps no casters, and a later partial pass that
  draws none takes the picture for right. The answer of `RedisplayWorldRect` is not looked
  at; it fails while the registry does not know the city's terrain. A partial pass without
  view or casters takes its neighbours' shadows and the terrain's out of its rectangle.
  `SettledPictureIsRight` and `OneTerrain` except what these leave (`missed`).
* `DrawLivePropShadows` can unbind texture 0 and return without telling the beliefs that
  `DrawState` is about (`cGDriver_LiveShadows.cpp:1866`). Shadow drawing is not a step of
  `DrawState` yet.
* A terraform within two seconds of the last look at the height field is shaded with the
  old map until the first pass after that (`OneTerrain` speaks of one map, not of the
  newest).
* After both allocations of a segment fail on a working device, the active segment
  has no buffer and keeps its `lastUseFrame`; the next allocation resets it.
* After a resize that lost its targets, depth regions are read and drawn without a
  depth buffer; color regions look first.
* A frame callback that writes depth would leave the scratch copy of depth stale
  (`CallbackDrawsDepth` is FALSE in the run and assumed FALSE by the theorems).
* A hook of `Present` that changes only blend, depth, rasterizer or texture state is
  not noticed: the driver compares targets, viewport, shaders and buffers.

## Not modelled

* *Assumed by `ShadowDrawing`:* the registry is installed, and the depth view has a
  stencil view beside it; a pass that has a view has a projection; vertices and indices
  of the arena are one measure; the casters a full arena took before it was found full
  are placed again by the rebuild, as in the code, and leave no trace. `ShadowRegistry`
  hands over its casters as they are; their textures and meshes are data.
* *`DeviceLifecycle`:* calls of the driver from inside a callback, the retries of full
  screen, borderless windows, the pause while minimized. The first is a hazard without
  a property (`cGDriver_Viewport.cpp:611`); it needs `SetVideoMode` and `Flush` cut into
  the steps between which callbacks run.
* *`LiveShadows`:* views that cannot be inverted, and passes that have a view and no
  projection.
* *`ShadowRegistry`:* the hooks of prebuilt network pieces and of redisplaying, which
  add casters in the same way.
* *The rest* has no state, or state that is set once: viewport culling, the maps of
  terrain shadows and the conversions are arithmetic on floats, of which a model over
  integers would check another algorithm; the doctor, the settings and driver
  information read files, the registry and enumerations once; the AMD ring fix and the
  hooks' byte patterns are about machine code; crash dump and focus guard install and
  remove one filter and one hook; blits and the frame rate overlay are drawing
  (what they do to the context is in `DrawState`); snapshots read the back buffer; the
  COM director is an entry point.

## Plan

Done: the modules above. What remains, in this order: a `DeviceLifecycle` whose calls
run in steps, with callbacks that call back; shadow drawing and textures as steps of
`DrawState`; the hooks of prebuilt network pieces. Abstract specifications worth
stating: a cache without a ring (a key either hits or is uploaded) for
`GeometryCache`, and for `LiveShadows` a picture repainted whole with every draw.
What the theorems leave is liveness (see *Proofs*); a module
whose calls run in steps will need its own invariant, with the device's as the part
that holds between calls.
