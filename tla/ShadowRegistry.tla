---------------------------- MODULE ShadowRegistry ----------------------------
(***************************************************************************)
(* Which shadows SC4 draws and which the driver casts.  SC4 keeps a record *)
(* of every projected shadow in its overlay manager.  The registry hooks   *)
(* the manager: what AddShadow makes becomes a caster, what DrawShadows is *)
(* asked for is taken from SC4 and gathered for the driver's shadow map,   *)
(* which takes what was gathered when the pass ends.  SC4 reuses the slots *)
(* of its records, may free one without telling, and may add shadows on    *)
(* another thread than it draws on.                                        *)
(***************************************************************************)
EXTENDS Naturals, Sequences, FiniteSets, SequencesExt

CONSTANTS
  Ids,          \* the manager's slots
  Occupants,    \* what casts
  Decal,        \* what else the slots hold: network decals
  Kind,         \* per occupant, what its mesh shows
  Binding,      \* per occupant and for Decal, the record's texture binding
  Managers,     \* addresses of overlay managers, one per city
  None,
  MaxBirths,    \* bound: records
  MaxCities,    \* bound: cities opened
  MaxPasses     \* bound: passes ended

Kinds == {"building", "prerendered", "true3D", "floating"}
Relaxed == {"prerendered", "true3D", "floating"}

Births == 1 .. MaxBirths
Record == [of : Occupants \cup {Decal}, birth : Births, shown : BOOLEAN, textured : BOOLEAN]
Entry == [of : Occupants, birth : Births, suppressOnly : BOOLEAN, passSerial : Nat]
Calls == [id : Ids, of : Occupants, meshCaster : BOOLEAN]

ASSUME IdsAssumption == IsFiniteSet(Ids)
ASSUME KindAssumption == Kind \in [Occupants -> Kinds]
ASSUME BindingAssumption ==
  /\ DOMAIN Binding = Occupants \cup {Decal}
  /\ \A o \in Occupants : Binding[o] # Binding[Decal]
ASSUME NoneAssumption ==
  /\ Decal \notin Occupants
  /\ None \notin Managers \cup Record \cup Entry \cup Calls
ASSUME BoundsAssumption == MaxBirths \in Nat /\ MaxCities \in Nat /\ MaxPasses \in Nat

VARIABLES
  app,         \* before OnStart, running, down
  hooks,       \* LiveShadowHooks::Enabled
  sites,       \* the registry's patches that are in the game's code
  installed,   \* gInstalled
  paused,      \* gPaused
  city,        \* SC4's overlay manager
  cities,
  records,     \* the manager's records
  births,      \* records made so far, each with its number
  call,        \* the AddShadow call whose record is made and not yet registered
  casters,     \* gCasters
  manager,     \* gManager
  pass,        \* gPass.casters
  passValid,
  passSerial,
  propMeshes,  \* gPropMeshes: props recognised draw by draw
  drawing,     \* SC4 draws a pass
  passes,
  asked,       \* shadows this pass has asked for
  native,      \* records SC4 has drawn in this pass
  withheld,    \* records kept from SC4 and not cast by the registry
  unfiltered,  \* shadows of lists that were left to SC4 for lack of memory in this pass
  dropped,     \* casters with the pass's serial that memory kept out of the pass
  failed       \* records the registry could not take

install == <<app, hooks, sites, installed>>
game == <<city, cities, records, births>>
registry == <<casters, manager>>
gathered == <<pass, passValid, passSerial, dropped>>
frame == <<drawing, passes, asked, native, withheld, unfiltered>>
vars == <<install, paused, game, call, registry, gathered, propMeshes, frame, failed>>

\* Written in this order: AddShadow goes last.
Sites == <<"MeshStash", "RemoveOverlay", "DrawShadows", "DrawShadowsRough", "AddShadow">>
AllSites == {Sites[i] : i \in 1 .. Len(Sites)}
NoCasters == [i \in Ids |-> None]
NoRecords == [i \in Ids |-> None]

PassCaster == [caster : Births, record : Births, adding : BOOLEAN]

\* The bookkeeping's values, and serials: a fresh entry's 0 is never the pass's.
TypeOK ==
  /\ app \in {"before", "running", "down"}
  /\ hooks \in BOOLEAN /\ installed \in BOOLEAN /\ paused \in BOOLEAN
  /\ sites \subseteq AllSites
  /\ city \in Managers \cup {None} /\ cities \in Nat /\ births \in 0 .. MaxBirths
  /\ records \in [Ids -> Record \cup {None}]
  /\ call \in Calls \cup {None}
  /\ casters \in [Ids -> Entry \cup {None}]
  /\ manager \in Managers \cup {None}
  /\ pass \in Seq(PassCaster) /\ passValid \in BOOLEAN /\ passSerial \in Nat \ {0}
  /\ propMeshes \subseteq Occupants
  /\ drawing \in BOOLEAN /\ passes \in Nat
  /\ asked \subseteq Births /\ native \subseteq Births
  /\ withheld \subseteq Births /\ unfiltered \subseteq Births
  /\ dropped \subseteq Births /\ failed \subseteq Births

Init ==
  /\ app = "before" /\ hooks = FALSE /\ sites = {} /\ installed = FALSE /\ paused = FALSE
  /\ city = None /\ cities = 0 /\ records = NoRecords /\ births = 0
  /\ call = None
  /\ casters = NoCasters /\ manager = None
  /\ pass = <<>> /\ passValid = FALSE /\ passSerial = 1
  /\ propMeshes = {}
  /\ drawing = FALSE /\ passes = 0
  /\ asked = {} /\ native = {} /\ withheld = {} /\ unfiltered = {}
  /\ dropped = {} /\ failed = {}

-----------------------------------------------------------------------------
(* The director: OnStart and PreAppShutdown, with no city open.            *)

\* What the patches look like after n of them were written and the next could
\* not be: RestoreSite may leave some.
Written(n) == {Sites[i] : i \in 1 .. n}

Forget ==
  /\ casters' = NoCasters /\ manager' = None
  /\ pass' = <<>> /\ passValid' = FALSE /\ passSerial' = passSerial + 1 /\ dropped' = {}

Install ==
  \/ \* the guard failed
     UNCHANGED <<sites, installed, registry, gathered>>
  \/ \* a write failed
     /\ \E n \in 0 .. Len(Sites) - 1 : sites' \in SUBSET Written(n)
     /\ Forget
     /\ UNCHANGED installed
  \/ /\ sites' = AllSites
     /\ installed' = TRUE
     /\ Forget

OnStart ==
  /\ app = "before" /\ app' = "running"
  /\ hooks' \in BOOLEAN
  /\ IF hooks' THEN Install ELSE UNCHANGED <<sites, installed, registry, gathered>>
  /\ propMeshes' = {}
  /\ UNCHANGED <<paused, game, call, frame, failed>>

\* A site another mod has patched over in the meantime stays.
PreAppShutdown ==
  /\ app = "running" /\ app' = "down" /\ hooks /\ city = None
  /\ IF installed
       THEN /\ sites' \in SUBSET sites
            /\ installed' = FALSE
            /\ Forget
       ELSE UNCHANGED <<sites, installed, registry, gathered>>
  /\ hooks' = FALSE
  /\ propMeshes' = {}
  /\ UNCHANGED <<paused, game, call, frame, failed>>

\* The LiveShadows cheat.
Paused == hooks /\ paused

TogglePause ==
  /\ app = "running" /\ hooks /\ ~drawing
  /\ paused' = ~paused
  /\ UNCHANGED <<install, game, call, registry, gathered, propMeshes, frame, failed>>

-----------------------------------------------------------------------------
(* SC4's cities and records.                                               *)

\* An address may be one a closed city's manager had.
OpenCity(m) ==
  /\ app = "running" /\ call = None /\ ~drawing /\ cities < MaxCities
  /\ city' = m /\ cities' = cities + 1
  /\ records' = NoRecords
  /\ UNCHANGED <<install, paused, births, call, registry, gathered, propMeshes, frame, failed>>

CloseCity ==
  /\ city # None /\ call = None /\ ~drawing
  /\ city' = None
  /\ records' = NoRecords
  /\ UNCHANGED <<install, paused, cities, births, call, registry, gathered, propMeshes, frame,
                 failed>>

Make(id, o, shown, textured) ==
  /\ city # None /\ call = None
  /\ records[id] = None /\ births < MaxBirths
  /\ births' = births + 1
  /\ records' = [records EXCEPT
       ![id] = [of |-> o, birth |-> births + 1, shown |-> shown, textured |-> textured]]
  /\ UNCHANGED <<city, cities>>

\* Made by something that never goes through AddShadow.
MakeDecal(id) ==
  /\ Make(id, Decal, TRUE, TRUE)
  /\ UNCHANGED <<install, paused, call, registry, gathered, propMeshes, frame, failed>>

\* Freed without RemoveOverlay.
FreeSilently(id) ==
  /\ call = None /\ records[id] # None
  /\ records' = [records EXCEPT ![id] = None]
  /\ UNCHANGED <<install, paused, city, cities, births, call, registry, gathered, propMeshes,
                 frame, failed>>

\* SC4 shows and hides what it has a record of.
Show(id) ==
  /\ call = None /\ records[id] # None
  /\ records' = [records EXCEPT ![id].shown = ~@]
  /\ UNCHANGED <<install, paused, city, cities, births, call, registry, gathered, propMeshes,
                 frame, failed>>

-----------------------------------------------------------------------------
(* CreateOccupantShadow, with sites C and D and AddShadowHook.             *)

IsRelaxed(o) == Kind[o] \in Relaxed

\* ExpectMeshCaster, on the way to AddShadow.
Expected(o) == IsRelaxed(o) /\ installed

\* Site D without the registry: the prop casts draw by draw, AddShadow is not called.
SuppressAddShadow(o) ==
  /\ city # None /\ call = None
  /\ hooks /\ ~installed /\ IsRelaxed(o)
  /\ propMeshes' = propMeshes \cup {o}
  /\ UNCHANGED <<install, paused, game, call, registry, gathered, frame, failed>>

Reaches(o) == IsRelaxed(o) => hooks /\ installed

\* CalcShadowProjection rejects the fit: there is no record.
RejectedAddShadow(o) ==
  /\ city # None /\ call = None /\ Reaches(o)
  /\ "AddShadow" \in sites /\ Expected(o)
  /\ propMeshes' = propMeshes \cup {o}
  /\ UNCHANGED <<install, paused, game, call, registry, gathered, frame, failed>>

AddShadow(o, id, shown, textured) ==
  /\ Reaches(o)
  /\ Make(id, o, shown, textured)
  /\ call' = IF "AddShadow" \in sites THEN [id |-> id, of |-> o, meshCaster |-> Expected(o)]
             ELSE None
  /\ UNCHANGED <<install, paused, registry, gathered, propMeshes, frame, failed>>

\* The casters and the pass once manager is SC4's.
SwitchManager(m) ==
  IF manager = m THEN casters ELSE NoCasters

Switch(m) ==
  /\ manager' = m
  /\ IF manager = m THEN UNCHANGED gathered
     ELSE /\ pass' = <<>> /\ passSerial' = passSerial + 1 /\ dropped' = {}
          /\ UNCHANGED passValid

Suppressed(indexed) ==
  call.meshCaster /\ (Kind[call.of] = "floating" \/ (Kind[call.of] = "true3D" /\ ~indexed))

\* Without triangles a True3D prop's UVs cannot be drawn.
CastsPerDraw(indexed) ==
  call.meshCaster /\ Kind[call.of] = "true3D" /\ ~indexed

Register(indexed) ==
  /\ call # None
  /\ casters' = [SwitchManager(city) EXCEPT
       ![call.id] = [of |-> call.of, birth |-> records[call.id].birth,
                     suppressOnly |-> Suppressed(indexed), passSerial |-> 0]]
  /\ Switch(city)
  /\ propMeshes' = IF CastsPerDraw(indexed) THEN propMeshes \cup {call.of} ELSE propMeshes
  /\ call' = None
  /\ UNCHANGED <<install, paused, game, frame, failed>>

\* Mutant of FailToRegister: an id that could not be registered is left as it was.
FailToRegisterQuietly ==
  /\ call # None
  /\ failed' = failed \cup {records[call.id].birth}
  /\ call' = None
  /\ UNCHANGED <<install, paused, game, registry, gathered, propMeshes, frame>>

\* Too many vertices or too high an id, a mesh that is not finite, or memory
\* that runs out, before or after the manager was noticed.
FailToRegister ==
  /\ call # None
  /\ \/ /\ casters' = [casters EXCEPT ![call.id] = None]
        /\ UNCHANGED <<manager, gathered>>
     \/ /\ casters' = [SwitchManager(city) EXCEPT ![call.id] = None]
        /\ Switch(city)
  /\ failed' = failed \cup {records[call.id].birth}
  /\ call' = None
  /\ UNCHANGED <<install, paused, game, propMeshes, frame>>

\* RemoveOverlayHook.
RemoveOverlay(id) ==
  /\ call = None /\ records[id] # None
  /\ records' = [records EXCEPT ![id] = None]
  /\ casters' = IF "RemoveOverlay" \in sites /\ manager = city
                  THEN [casters EXCEPT ![id] = None]
                  ELSE casters
  /\ UNCHANGED <<install, paused, city, cities, births, call, manager, gathered, propMeshes,
                 frame, failed>>

-----------------------------------------------------------------------------
(* The passes.                                                             *)

BeginPass ==
  /\ city # None /\ ~drawing /\ passes < MaxPasses
  /\ drawing' = TRUE
  /\ UNCHANGED <<install, paused, game, call, registry, gathered, propMeshes, passes, asked,
                 native, withheld, unfiltered, failed>>

Adding(id) == call # None /\ call.id = id

\* Shadows among ids that there is something to draw of, whose AddShadow has
\* returned.
Drawable(id) ==
  records[id].of # Decal /\ records[id].shown /\ records[id].textured /\ ~Adding(id)

Shadows(S) == {records[id].birth : id \in {i \in S : Drawable(i)}}

DrawNative(S) == native' = native \cup Shadows(S)

\* A record that no longer matches what was registered.
IsStale(id) == Binding[records[id].of] # Binding[casters[id].of]

\* What Gather makes of the ids S, in a view that the casters in seen reach.
Ours(S) == {id \in S : casters[id] # None}
InView(S, seen) == {id \in Ours(S) : casters[id].of \in seen}
Stale(S, seen) == {id \in InView(S, seen) : IsStale(id)}
Enabled(S, seen) == {id \in InView(S, seen) \ Stale(S, seen) : records[id].shown}
Withheld(S, seen) == {id \in Enabled(S, seen) : casters[id].suppressOnly}
Cast(S, seen) == {id \in Enabled(S, seen) \ Withheld(S, seen) : records[id].textured}

\* Mutant of Joining: a caster joins with every listing.
JoiningAgain(S, seen) == Cast(S, seen)

Joining(S, seen) == {id \in Cast(S, seen) : casters[id].passSerial # passSerial}

Kept(S, seen) ==
  (S \ Ours(S)) \cup Stale(S, seen)
    \cup ((Enabled(S, seen) \ Withheld(S, seen)) \ Cast(S, seen))

PassCasters(J) ==
  {[caster |-> casters[id].birth, record |-> records[id].birth, adding |-> Adding(id)] : id \in J}

\* The casters of erased go, those of numbered get the pass's serial, and those
\* of joined are in the pass.
Join(erased, numbered, joined) ==
  /\ casters' = [id \in Ids |->
       IF id \in erased THEN None
       ELSE IF id \in numbered THEN [casters[id] EXCEPT !.passSerial = passSerial]
       ELSE casters[id]]
  /\ pass' = pass \o SetToSeq(PassCasters(joined))
  /\ dropped' = dropped \cup {casters[id].birth : id \in numbered \ joined}
  /\ UNCHANGED <<manager, passSerial>>

Gather(S, seen) ==
  /\ Join(Stale(S, seen), Joining(S, seen), Joining(S, seen))
  /\ passValid' = TRUE
  /\ DrawNative(Kept(S, seen))
  /\ withheld' = withheld \cup Shadows(Withheld(S, seen))
  /\ UNCHANGED unfiltered

\* Memory runs out, for the copy of the list or when the caster at last joins,
\* which has its serial by then.  The ids come in any order, so that any of them
\* may have been gone through before; SC4 draws them all.
GatherRunsOut(S, seen) ==
  /\ \/ UNCHANGED <<casters, manager, pass, passSerial, dropped>>
     \/ \E last \in Joining(S, seen) :
          \E erased \in SUBSET Stale(S, seen), joined \in SUBSET (Joining(S, seen) \ {last}) :
            Join(erased, joined \cup {last}, joined)
  /\ DrawNative(S)
  /\ unfiltered' = unfiltered \cup Shadows(S)
  /\ UNCHANGED <<passValid, withheld>>

Gathers == ~Paused /\ manager = city /\ casters # NoCasters

\* DrawShadowsHook and DrawShadowsRoughHook, for the ids S.
DrawShadows(site, S, seen) ==
  /\ drawing
  /\ \A id \in S : records[id] # None
  /\ IF site \in sites /\ Gathers
       THEN Gather(S, seen) \/ GatherRunsOut(S, seen)
       ELSE DrawNative(S) /\ UNCHANGED <<registry, gathered, withheld, unfiltered>>
  /\ asked' = asked \cup Shadows({id \in S : records[id].of \in seen})
  /\ UNCHANGED <<install, paused, game, call, propMeshes, drawing, passes, failed>>

\* Mutant of TakePass: the casters of the pass are not told of its end.
TakePassUnnumbered == pass' = <<>> /\ passValid' = FALSE /\ UNCHANGED <<passSerial, dropped>>

TakePass ==
  IF passValid
    THEN pass' = <<>> /\ passValid' = FALSE /\ passSerial' = passSerial + 1 /\ dropped' = {}
    ELSE UNCHANGED gathered

\* RenderLivePropShadows ends the pass.
EndPass ==
  /\ drawing /\ drawing' = FALSE /\ passes' = passes + 1
  /\ IF hooks /\ ~Paused THEN TakePass ELSE UNCHANGED gathered
  /\ asked' = {} /\ native' = {} /\ withheld' = {} /\ unfiltered' = {}
  /\ UNCHANGED <<install, paused, game, call, registry, propMeshes, failed>>

Next ==
  \/ OnStart \/ PreAppShutdown \/ TogglePause
  \/ \E m \in Managers : OpenCity(m)
  \/ CloseCity
  \/ \E id \in Ids : MakeDecal(id) \/ FreeSilently(id) \/ Show(id) \/ RemoveOverlay(id)
  \/ \E o \in Occupants : SuppressAddShadow(o) \/ RejectedAddShadow(o)
  \/ \E o \in Occupants, id \in Ids, shown \in BOOLEAN, textured \in BOOLEAN :
       AddShadow(o, id, shown, textured)
  \/ \E indexed \in BOOLEAN : Register(indexed)
  \/ FailToRegister
  \/ BeginPass
  \/ \E site \in {"DrawShadows", "DrawShadowsRough"}, S \in SUBSET Ids,
        seen \in SUBSET Occupants : DrawShadows(site, S, seen)
  \/ EndPass

Spec == Init /\ [][Next]_vars

-----------------------------------------------------------------------------
(* Nothing is registered before the hooks that keep the registry honest    *)
(* are in place; and a caster never stands for another shadow that got its *)
(* slot, whatever SC4 freed without telling and whichever city's manager   *)
(* sits at the address: once AddShadow has returned, the caster at the     *)
(* slot of a shadow is that shadow's.                                      *)
RegistryIsHonest ==
  /\ casters # NoCasters => sites = AllSites
  /\ manager = city =>
       \A id \in Ids :
         casters[id] # None /\ records[id] # None /\ records[id].of # Decal /\ ~Adding(id) =>
           casters[id].birth = records[id].birth

\* However often a pass lists a shadow its caster joins once, and it is the
\* caster of the record listed, unless that one is still being registered.
PassIsRight ==
  /\ \A i, j \in 1 .. Len(pass) : pass[i].caster = pass[j].caster => i = j
  /\ \A i \in 1 .. Len(pass) : ~pass[i].adding => pass[i].caster = pass[i].record

\* A record that no longer matches what was registered is kept for SC4's draw,
\* as the comment of Gather says, also while another thread registers it.
PassMatchesRecords ==
  \A i \in 1 .. Len(pass) : pass[i].caster = pass[i].record

\* A shadow that a pass lists and shows is drawn by SC4, or cast by the driver
\* in this same pass; or it is withheld, for a prop that floats or that the
\* driver recognises and casts when SC4 draws it.  The one exception is the
\* caster that memory kept out of the pass after it was given its serial.
NothingLost ==
  /\ \A b \in asked \ (native \cup withheld \cup dropped) :
       \E i \in 1 .. Len(pass) : pass[i].caster = b
  /\ \A id \in Ids :
       records[id] # None /\ records[id].birth \in withheld =>
         Kind[records[id].of] = "floating" \/ records[id].of \in propMeshes

\* SC4 draws only what the registry leaves it: no shadow darkens the ground
\* both ways in a pass, and a prop that SC4 would not shadow is not given the
\* projector's slab, unless its registration failed, live shadows are paused, or
\* memory ran out for the list it was in.
OnlyTheRestIsNative ==
  \A b \in native \ unfiltered :
    /\ b \notin withheld
    /\ ~Paused => \A i \in 1 .. Len(pass) : pass[i].caster # b
    /\ ~Paused /\ b \notin failed =>
         \A id \in Ids :
           records[id] # None /\ records[id].birth = b => Kind[records[id].of] = "building"

\* Between them, SC4 and the driver draw each shadow of a pass once.
EveryShadowOnce == NothingLost /\ OnlyTheRestIsNative

\* What the registry takes out of SC4's list and does not withhold it hands to
\* the driver, as its header says.
HandsOverWhatItTakes ==
  \A b \in asked \ (native \cup withheld) :
    \E i \in 1 .. Len(pass) : pass[i].caster = b
=============================================================================
