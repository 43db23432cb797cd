------------------------- MODULE ShadowRegistry_proofs -------------------------
(***************************************************************************)
(* The registry stays honest, each pass gets the right casters once, and   *)
(* SC4 and the driver between them draw each shadow once, for any number   *)
(* of slots, occupants and cities, whatever SC4 reuses and however its     *)
(* calls and its drawing interleave.                                       *)
(***************************************************************************)
EXTENDS ShadowRegistry, FiniteSetTheorems, SequenceTheorems, TLAPS

\* The patches come and go as a whole while a city may be open.
HooksTogether ==
  /\ app = "before" => sites = {} /\ city = None
  /\ app = "down" => city = None
  /\ app = "running" /\ "AddShadow" \in sites => sites = AllSites
  /\ city = None => call = None /\ records = NoRecords
  /\ call # None =>
       /\ app = "running" /\ "AddShadow" \in sites
       /\ records[call.id] # None /\ records[call.id].of = call.of

\* Records and casters have numbers of their own, and share one only at a slot.
NumbersApart ==
  /\ \A i, j \in Ids :
       records[i] # None /\ records[j] # None /\ records[i].birth = records[j].birth => i = j
  /\ \A i, j \in Ids :
       casters[i] # None /\ casters[j] # None /\ casters[i].birth = casters[j].birth => i = j
  /\ \A i, j \in Ids :
       records[i] # None /\ casters[j] # None /\ records[i].birth = casters[j].birth => i = j
  /\ \A i \in Ids : records[i] # None => records[i].birth <= births
  /\ \A i \in Ids : casters[i] # None => casters[i].birth <= births
  /\ \A i \in 1 .. Len(pass) : pass[i].caster <= births

\* What AddShadow is about to register is neither a caster nor in the pass.
CallIsFresh ==
  call # None =>
    /\ \A j \in Ids : casters[j] # None => casters[j].birth # records[call.id].birth
    /\ \A i \in 1 .. Len(pass) : pass[i].caster # records[call.id].birth

\* A caster in the pass bears the pass's serial.
JoinedOnce ==
  \A i \in 1 .. Len(pass), j \in Ids :
    casters[j] # None /\ casters[j].birth = pass[i].caster => casters[j].passSerial = passSerial

Inv ==
  /\ TypeOK /\ HooksTogether /\ RegistryIsHonest
  /\ NumbersApart /\ CallIsFresh /\ JoinedOnce /\ PassIsRight

\* The registry is installed as a whole, and counts as installed when it is.
InstalledWhole ==
  /\ installed => app = "running" /\ hooks /\ sites = AllSites
  /\ app = "running" /\ "AddShadow" \in sites => installed

\* What a pass has asked for, drawn and withheld is of a pass that goes on.
PassInTime ==
  /\ drawing => city # None
  /\ ~drawing => asked = {} /\ native = {} /\ withheld = {} /\ unfiltered = {}
  /\ withheld # {} => ~Paused

\* A pass lists only what AddShadow has returned from.
CallIsUnasked ==
  /\ \A b \in asked \cup native \cup withheld : b <= births
  /\ call # None => records[call.id].birth \notin asked \cup native \cup withheld

\* Only a caster in the pass bears the pass's serial, or one that memory kept out
\* of it, and none bears a later one.
SerialsMeanJoined ==
  \A j \in Ids : casters[j] # None =>
    /\ casters[j].passSerial <= passSerial
    /\ casters[j].passSerial = passSerial =>
         \/ \E i \in 1 .. Len(pass) : pass[i].caster = casters[j].birth
         \/ casters[j].birth \in dropped

\* The record at a slot is the one the caster there stands for.
HasCaster(id) == casters[id] # None /\ casters[id].birth = records[id].birth

\* A caster with its record's number is of the record's occupant and of this
\* city; one that is only kept from SC4 casts draw by draw, or floats.
CastersFit ==
  \A id \in Ids : casters[id] # None =>
    /\ records[id] # None /\ HasCaster(id) => casters[id].of = records[id].of /\ manager = city
    /\ casters[id].suppressOnly =>
         Kind[casters[id].of] = "floating" \/ casters[id].of \in propMeshes

\* What SC4 would not shadow has its caster once AddShadow has returned, or its
\* registration failed; what was withheld or gathered keeps the caster it had.
CastersStay ==
  \A id \in Ids : records[id] # None =>
    /\ records[id].of # Decal /\ IsRelaxed(records[id].of) /\ ~Adding(id)
         /\ records[id].birth \notin failed => HasCaster(id)
    /\ records[id].birth \in withheld => HasCaster(id)
    /\ \A i \in 1 .. Len(pass) : pass[i].caster = records[id].birth => HasCaster(id)

\* Until the registry has turned to SC4's manager it gathers nothing; and SC4
\* draws nothing that has a caster, but for lack of memory.
OneDrawer ==
  /\ manager # city => asked \subseteq native \cup withheld
  /\ ~Paused =>
       \A j \in Ids : casters[j] # None => casters[j].birth \notin native \ unfiltered

\* With Inv, inductive.
Once ==
  /\ InstalledWhole /\ PassInTime /\ CallIsUnasked /\ SerialsMeanJoined
  /\ CastersFit /\ CastersStay /\ OneDrawer /\ EveryShadowOnce

-----------------------------------------------------------------------------
\* SetToSeq lists the members of a finite set, each once.
LEMMA SetToSeqLists ==
  ASSUME NEW T, NEW S \in SUBSET T, IsFiniteSet(S)
  PROVE  /\ SetToSeq(S) \in Seq(T)
         /\ \A i \in 1 .. Len(SetToSeq(S)) : SetToSeq(S)[i] \in S
         /\ \A i, j \in 1 .. Len(SetToSeq(S)) : SetToSeq(S)[i] = SetToSeq(S)[j] => i = j
         /\ \A x \in S : \E i \in 1 .. Len(SetToSeq(S)) : SetToSeq(S)[i] = x
<1> DEFINE n == Cardinality(S)
<1>1. n \in Nat /\ ExistsBijection(1 .. n, S)
  BY FS_CardinalityType
<1>2. \E f \in [1 .. n -> S] : IsInjective(f)
  BY <1>1 DEF ExistsBijection, Bijection, Injection
<1>3. SetToSeq(S) \in [1 .. n -> S] /\ IsInjective(SetToSeq(S))
  BY <1>2 DEF SetToSeq
<1>4. SetToSeq(S) \in Seq(T) /\ Len(SetToSeq(S)) = n
  BY <1>1, <1>3
<1>5. SetToSeq(S) \in Surjection(1 .. n, S)
  <2>1. Cardinality(1 .. n) = n
    BY <1>1, FS_Interval
  <2>2. SetToSeq(S) \in Injection(1 .. n, S)
    BY <1>3 DEF Injection
  <2> QED  BY <2>1, <2>2, FS_Injection
<1> QED  BY <1>3, <1>4, <1>5 DEF IsInjective, Surjection

\* A pass's new casters are finitely many.
LEMMA PassCastersFinite ==
  ASSUME NEW J \in SUBSET Ids
  PROVE  IsFiniteSet(PassCasters(J))
<1> DEFINE f == [id \in J |-> [caster |-> casters[id].birth, record |-> records[id].birth,
                               adding |-> Adding(id)]]
<1>1. IsFiniteSet(J)
  BY IdsAssumption, FS_Subset
<1>2. f \in Surjection(J, PassCasters(J))
  BY DEF Surjection, PassCasters
<1> HIDE DEF f
<1> QED  BY <1>1, <1>2, FS_Surjection

\* What joins the pass is typed, and not in it yet.
LEMMA JoiningType ==
  ASSUME TypeOK, NEW S \in SUBSET Ids, NEW seen, \A id \in S : records[id] # None
  PROVE  /\ Joining(S, seen) \subseteq Ids
         /\ \A id \in Joining(S, seen) :
              /\ casters[id] # None /\ casters[id] \in Entry
              /\ records[id] # None /\ records[id] \in Record
              /\ casters[id].passSerial # passSerial
              /\ ~IsStale(id)
         /\ PassCasters(Joining(S, seen)) \subseteq PassCaster
<1>1. Joining(S, seen) \subseteq S
  BY DEF Joining, Cast, Enabled, InView, Ours
<1>2. ASSUME NEW id \in Joining(S, seen)
      PROVE  /\ casters[id] # None /\ casters[id].passSerial # passSerial /\ ~IsStale(id)
             /\ casters[id] \in Entry /\ records[id] \in Record /\ records[id] # None
  BY <1>1, <1>2 DEF Joining, Cast, Enabled, Stale, InView, Ours, TypeOK
<1>3. ASSUME NEW id \in Joining(S, seen)
      PROVE  [caster |-> casters[id].birth, record |-> records[id].birth, adding |-> Adding(id)]
               \in PassCaster
  BY <1>2, <1>3 DEF Entry, Record, PassCaster, Adding
<1> QED  BY <1>1, <1>2, <1>3 DEF PassCasters

\* Without its last patch the registry is not called.
LEMMA AddShadowIsLast ==
  /\ "AddShadow" \in AllSites
  /\ \A n \in 0 .. Len(Sites) - 1 : "AddShadow" \notin Written(n) /\ Written(n) \subseteq AllSites
BY DEF AllSites, Sites, Written

\* The shadows of known identities are births of shadows.
LEMMA ShadowsType ==
  ASSUME TypeOK, NEW S \in SUBSET Ids, \A id \in S : records[id] # None
  PROVE  Shadows(S) \subseteq Births
BY DEF TypeOK, Shadows, Record

-----------------------------------------------------------------------------

\* Before SC4 starts there is nothing to be wrong about.
LEMMA InitInv == Init => Inv
<1> SUFFICES ASSUME Init PROVE Inv
  OBVIOUS
<1>1. pass \in Seq(PassCaster)
  BY EmptySeq DEF Init
<1>3. records \in [Ids -> Record \cup {None}] /\ casters \in [Ids -> Entry \cup {None}]
  BY DEF Init, NoRecords, NoCasters
<1>4. /\ app \in {"before", "running", "down"}
      /\ hooks \in BOOLEAN /\ installed \in BOOLEAN /\ paused \in BOOLEAN
      /\ sites \subseteq AllSites
      /\ city \in Managers \cup {None} /\ cities \in Nat
      /\ call \in Calls \cup {None} /\ manager \in Managers \cup {None}
  BY DEF Init
<1>5. births \in 0 .. MaxBirths /\ passSerial \in Nat \ {0} /\ passes \in Nat
  BY BoundsAssumption DEF Init
<1>6. /\ passValid \in BOOLEAN /\ propMeshes \subseteq Occupants /\ drawing \in BOOLEAN
      /\ asked \subseteq Births /\ native \subseteq Births
      /\ withheld \subseteq Births /\ unfiltered \subseteq Births
      /\ dropped \subseteq Births /\ failed \subseteq Births
  BY DEF Init
<1>7. TypeOK
  BY <1>1, <1>3, <1>4, <1>5, <1>6 DEF TypeOK
<1>2. Len(pass) = 0 /\ \A i \in Ids : records[i] = None /\ casters[i] = None
  BY DEF Init, NoRecords, NoCasters
<1> QED
  BY <1>2, <1>7 DEF Init, Inv, HooksTogether, RegistryIsHonest, NumbersApart, CallIsFresh,
     JoinedOnce, PassIsRight

-----------------------------------------------------------------------------
\* A record as Make leaves it, and what no action of the game or of the passes
\* disturbs.
LEMMA MakeType ==
  ASSUME TypeOK, NEW id \in Ids, NEW o \in Occupants \cup {Decal}, NEW shown \in BOOLEAN,
         NEW textured \in BOOLEAN, Make(id, o, shown, textured)
  PROVE  /\ records' \in [Ids -> Record \cup {None}]
         /\ births' \in 0 .. MaxBirths /\ births' = births + 1
         /\ city' \in Managers \cup {None} /\ cities' \in Nat
         /\ records'[id] = [of |-> o, birth |-> births + 1, shown |-> shown,
                            textured |-> textured]
         /\ records'[id] \in Record /\ records'[id] # None /\ records'[id].of = o
         /\ \A j \in Ids \ {id} : records'[j] = records[j]
<1>1. births + 1 \in Births /\ births + 1 \in 0 .. MaxBirths
  BY BoundsAssumption DEF TypeOK, Make, Births
<1>2. [of |-> o, birth |-> births + 1, shown |-> shown, textured |-> textured] \in Record
  BY <1>1 DEF Record
<1>3. /\ records' \in [Ids -> Record \cup {None}]
      /\ births' \in 0 .. MaxBirths /\ births' = births + 1
      /\ city' \in Managers \cup {None} /\ cities' \in Nat
      /\ records'[id] = [of |-> o, birth |-> births + 1, shown |-> shown,
                         textured |-> textured]
      /\ \A j \in Ids \ {id} : records'[j] = records[j]
  BY <1>1, <1>2 DEF TypeOK, Make
<1> QED  BY <1>2, <1>3, NoneAssumption

\* Forgetting the casters leaves everything in its type.
LEMMA ForgetType ==
  ASSUME TypeOK, Forget
  PROVE  /\ casters' \in [Ids -> Entry \cup {None}] /\ manager' \in Managers \cup {None}
         /\ pass' \in Seq(PassCaster) /\ passValid' \in BOOLEAN /\ passSerial' \in Nat \ {0}
         /\ dropped' \subseteq Births
<1>1. <<>> \in Seq(PassCaster)
  BY EmptySeq
<1>2. pass' \in Seq(PassCaster)
  BY <1>1 DEF Forget
<1>3. passSerial' \in Nat \ {0}
  BY DEF TypeOK, Forget
<1>4. casters' \in [Ids -> Entry \cup {None}] /\ manager' \in Managers \cup {None}
      /\ passValid' \in BOOLEAN /\ dropped' \subseteq Births
  BY DEF Forget, NoCasters
<1> QED  BY <1>2, <1>3, <1>4

\* What the registry holds once it has turned to SC4's manager.
LEMMA SwitchType ==
  ASSUME TypeOK, city # None
  PROVE  /\ SwitchManager(city) \in [Ids -> Entry \cup {None}]
         /\ Switch(city) =>
              /\ manager' \in Managers \cup {None}
              /\ pass' \in Seq(PassCaster) /\ passValid' \in BOOLEAN
              /\ passSerial' \in Nat \ {0} /\ dropped' \subseteq Births
<1>1. <<>> \in Seq(PassCaster)
  BY EmptySeq
<1>2. SwitchManager(city) \in [Ids -> Entry \cup {None}]
  BY DEF TypeOK, SwitchManager, NoCasters
<1>3. pass \in Seq(PassCaster) /\ passValid \in BOOLEAN /\ passSerial \in Nat \ {0}
      /\ city \in Managers /\ dropped \subseteq Births
  BY DEF TypeOK
<1>4. ASSUME Switch(city)
      PROVE  /\ manager' \in Managers \cup {None} /\ passValid' \in BOOLEAN
             /\ passSerial' \in Nat \ {0} /\ dropped' \subseteq Births
  BY <1>3, <1>4 DEF Switch, gathered
<1>5. ASSUME Switch(city) PROVE pass' \in Seq(PassCaster)
  <2>1. pass' = pass \/ pass' = <<>>
    BY <1>5 DEF Switch, gathered
  <2> QED  BY <1>1, <1>3, <2>1
<1> QED  BY <1>2, <1>4, <1>5

\* Slots whose casters may join the pass: they are not in it yet.
Joinable(N) ==
  /\ N \subseteq Ids
  /\ \A id \in N :
       /\ casters[id] # None /\ casters[id] \in Entry
       /\ records[id] # None /\ records[id] \in Record
       /\ casters[id].passSerial # passSerial

LEMMA JoiningIsJoinable ==
  ASSUME TypeOK, NEW S \in SUBSET Ids, NEW seen, \A id \in S : records[id] # None,
         NEW N \in SUBSET Joining(S, seen)
  PROVE  Joinable(N)
BY JoiningType DEF Joinable

\* The order in which the casters of J join the pass.
AsSeq(J) == SetToSeq(PassCasters(J))

\* Casters that join leave the registry typed, and are added to the pass.
LEMMA JoinType ==
  ASSUME TypeOK, NEW E, NEW N, NEW J, Joinable(N), J \subseteq N, Join(E, N, J)
  PROVE  /\ casters' \in [Ids -> Entry \cup {None}]
         /\ \A id \in Ids : casters'[id] # None =>
              /\ casters[id] # None /\ casters'[id].birth = casters[id].birth
              /\ casters'[id].passSerial =
                   IF id \in N THEN passSerial ELSE casters[id].passSerial
         /\ pass' \in Seq(PassCaster)
         /\ AsSeq(J) \in Seq(PassCaster)
         /\ Len(pass') = Len(pass) + Len(AsSeq(J))
         /\ \A i \in 1 .. Len(pass') :
              pass'[i] = IF i <= Len(pass) THEN pass[i] ELSE AsSeq(J)[i - Len(pass)]
         /\ \A i \in 1 .. Len(AsSeq(J)) : AsSeq(J)[i] \in PassCasters(J)
         /\ \A i, j \in 1 .. Len(AsSeq(J)) : AsSeq(J)[i] = AsSeq(J)[j] => i = j
         /\ dropped' \subseteq Births
<1> DEFINE new == AsSeq(J)
<1>1. IsFiniteSet(PassCasters(J))
      /\ PassCasters(J) \in SUBSET PassCaster
  <2>1. PassCasters(J) \subseteq PassCaster
    <3>1. ASSUME NEW id \in J
          PROVE  [caster |-> casters[id].birth, record |-> records[id].birth,
                  adding |-> Adding(id)] \in PassCaster
      <4>1. casters[id] \in Entry /\ records[id] \in Record
        BY DEF Joinable
      <4> QED  BY <4>1 DEF Entry, Record, PassCaster, Adding
    <3> QED  BY <3>1 DEF PassCasters
  <2>2. J \in SUBSET Ids
    BY DEF Joinable
  <2> QED  BY <2>1, <2>2, PassCastersFinite
<1>2. /\ new \in Seq(PassCaster)
      /\ \A i \in 1 .. Len(new) : new[i] \in PassCasters(J)
      /\ \A i, j \in 1 .. Len(new) : new[i] = new[j] => i = j
  BY <1>1, SetToSeqLists DEF AsSeq
<1>3. pass' = pass \o new
  BY DEF Join, AsSeq
<1>4. /\ pass' \in Seq(PassCaster)
      /\ Len(pass') = Len(pass) + Len(new)
      /\ \A i \in 1 .. Len(pass) + Len(new) :
           pass'[i] = IF i <= Len(pass) THEN pass[i] ELSE new[i - Len(pass)]
  <2>1. pass \in Seq(PassCaster)
    BY DEF TypeOK
  <2> HIDE DEF new
  <2> QED  BY <1>2, <1>3, <2>1, ConcatProperties
<1>5. ASSUME NEW id \in Ids
      PROVE  /\ casters'[id] \in Entry \cup {None}
             /\ casters'[id] # None =>
                  /\ casters[id] # None /\ casters'[id].birth = casters[id].birth
                  /\ casters'[id].passSerial =
                       IF id \in N THEN passSerial ELSE casters[id].passSerial
  <2>1. casters[id] \in Entry \cup {None} /\ passSerial \in Nat
    BY DEF TypeOK
  <2>2. CASE id \in E
    BY <2>2 DEF Join
  <2>3. CASE id \notin E /\ id \in N
    <3>1. casters[id] # None /\ casters[id] \in Entry
      BY <2>3 DEF Joinable
    <3>2. casters'[id] = [casters[id] EXCEPT !.passSerial = passSerial]
      BY <2>3 DEF Join
    <3> QED  BY <2>1, <2>3, <3>1, <3>2 DEF Entry
  <2>4. CASE id \notin E /\ id \notin N
    BY <2>1, <2>4 DEF Join
  <2> QED  BY <2>2, <2>3, <2>4
<1>6. casters' \in [Ids -> Entry \cup {None}]
  BY <1>5 DEF Join
<1>7. dropped' \subseteq Births
  <2>1. \A id \in N : casters[id] \in Entry
    BY DEF Joinable
  <2> QED  BY <2>1 DEF Join, TypeOK, Entry
<1> HIDE DEF new
<1>8. /\ new \in Seq(PassCaster) /\ Len(pass') = Len(pass) + Len(new)
      /\ \A i \in 1 .. Len(pass') :
           pass'[i] = IF i <= Len(pass) THEN pass[i] ELSE new[i - Len(pass)]
      /\ \A i \in 1 .. Len(new) : new[i] \in PassCasters(J)
      /\ \A i, j \in 1 .. Len(new) : new[i] = new[j] => i = j
  BY <1>2, <1>4
<1> QED  BY <1>4, <1>5, <1>6, <1>7, <1>8 DEF new

\* A draw leaves the registry typed, whether it is gathered or memory runs out.
LEMMA GatherType ==
  ASSUME TypeOK, NEW S \in SUBSET Ids, NEW seen, \A id \in S : records[id] # None,
         Gather(S, seen) \/ GatherRunsOut(S, seen)
  PROVE  /\ casters' \in [Ids -> Entry \cup {None}] /\ pass' \in Seq(PassCaster)
         /\ dropped' \subseteq Births /\ native' \subseteq Births
         /\ withheld' \subseteq Births /\ unfiltered' \subseteq Births
         /\ passValid' \in BOOLEAN /\ UNCHANGED <<manager, passSerial>>
<1>1. /\ casters' \in [Ids -> Entry \cup {None}] /\ pass' \in Seq(PassCaster)
      /\ dropped' \subseteq Births /\ UNCHANGED <<manager, passSerial>>
  <2>1. ASSUME NEW E, NEW N \in SUBSET Joining(S, seen), NEW J \in SUBSET N, Join(E, N, J)
        PROVE  /\ casters' \in [Ids -> Entry \cup {None}] /\ pass' \in Seq(PassCaster)
               /\ dropped' \subseteq Births /\ UNCHANGED <<manager, passSerial>>
    <3>1. UNCHANGED <<manager, passSerial>>
      BY <2>1 DEF Join
    <3>2. Joinable(N)
      BY JoiningIsJoinable
    <3> QED  BY <2>1, <3>1, <3>2, JoinType
  <2>2. CASE Gather(S, seen)
    BY <2>1, <2>2 DEF Gather
  <2>3. CASE GatherRunsOut(S, seen)
    <3>1. CASE UNCHANGED <<casters, manager, pass, passSerial, dropped>>
      BY <3>1 DEF TypeOK
    <3>2. ASSUME NEW last \in Joining(S, seen), NEW E, NEW J \in SUBSET (Joining(S, seen) \ {last}),
                 Join(E, J \cup {last}, J)
          PROVE  /\ casters' \in [Ids -> Entry \cup {None}] /\ pass' \in Seq(PassCaster)
                 /\ dropped' \subseteq Births /\ UNCHANGED <<manager, passSerial>>
      <4>1. J \cup {last} \in SUBSET Joining(S, seen) /\ J \in SUBSET (J \cup {last})
        OBVIOUS
      <4> QED  BY <2>1, <3>2, <4>1
    <3> QED  BY <2>3, <3>1, <3>2 DEF GatherRunsOut
  <2> QED  BY <2>2, <2>3
<1>2. /\ native' \subseteq Births /\ withheld' \subseteq Births /\ unfiltered' \subseteq Births
      /\ passValid' \in BOOLEAN
  <2>1. Kept(S, seen) \subseteq S /\ Withheld(S, seen) \subseteq S
    BY DEF Kept, Withheld, Enabled, Stale, InView, Ours
  <2>2. ASSUME NEW R \in SUBSET S PROVE Shadows(R) \subseteq Births
    BY ShadowsType
  <2>3. /\ native \subseteq Births /\ withheld \subseteq Births /\ unfiltered \subseteq Births
        /\ passValid \in BOOLEAN
    BY DEF TypeOK
  <2> QED  BY <2>1, <2>2, <2>3 DEF Gather, GatherRunsOut, DrawNative
<1> QED  BY <1>1, <1>2

-----------------------------------------------------------------------------
\* Every step keeps the types.
LEMMA TypeStep ==
  ASSUME TypeOK, HooksTogether, [Next]_vars
  PROVE  TypeOK'
<1> USE DEF TypeOK, install, game, registry, gathered, frame
<1>1. CASE OnStart
  <2>1. /\ sites' \subseteq AllSites /\ installed' \in BOOLEAN
        /\ casters' \in [Ids -> Entry \cup {None}] /\ manager' \in Managers \cup {None}
        /\ pass' \in Seq(PassCaster) /\ passValid' \in BOOLEAN /\ passSerial' \in Nat \ {0}
        /\ dropped' \subseteq Births
    <3>1. CASE Forget /\ (sites' = AllSites /\ installed' = TRUE)
      BY <3>1, ForgetType
    <3>2. CASE Forget /\ (\E n \in 0 .. Len(Sites) - 1 : sites' \in SUBSET Written(n))
               /\ UNCHANGED installed
      <4>1. sites' \subseteq AllSites
        BY <3>2, AddShadowIsLast
      <4> QED  BY <3>2, <4>1, ForgetType
    <3>3. CASE UNCHANGED <<sites, installed, registry, gathered>>
      BY <3>3
    <3> QED  BY <1>1, <3>1, <3>2, <3>3 DEF OnStart, Install
  <2> QED  BY <1>1, <2>1 DEF OnStart
<1>2. CASE PreAppShutdown
  <2>1. /\ sites' \subseteq AllSites /\ installed' \in BOOLEAN
        /\ casters' \in [Ids -> Entry \cup {None}] /\ manager' \in Managers \cup {None}
        /\ pass' \in Seq(PassCaster) /\ passValid' \in BOOLEAN /\ passSerial' \in Nat \ {0}
        /\ dropped' \subseteq Births
    <3>1. CASE installed
      <4>1. Forget /\ sites' \in SUBSET sites /\ installed' = FALSE
        BY <1>2, <3>1 DEF PreAppShutdown
      <4> QED  BY <4>1, ForgetType
    <3>2. CASE ~installed
      BY <1>2, <3>2 DEF PreAppShutdown
    <3> QED  BY <3>1, <3>2
  <2> QED  BY <1>2, <2>1 DEF PreAppShutdown
<1>3. CASE TogglePause
  BY <1>3 DEF TogglePause
<1>4. ASSUME NEW m \in Managers, OpenCity(m) PROVE TypeOK'
  BY <1>4 DEF OpenCity, NoRecords
<1>5. CASE CloseCity
  BY <1>5 DEF CloseCity, NoRecords
<1>6. ASSUME NEW id \in Ids, MakeDecal(id) PROVE TypeOK'
  BY <1>6, MakeType DEF MakeDecal
<1>7. ASSUME NEW id \in Ids, FreeSilently(id) PROVE TypeOK'
  BY <1>7 DEF FreeSilently
<1>8. ASSUME NEW id \in Ids, Show(id) PROVE TypeOK'
  <2>1. records[id] \in Record
    BY <1>8 DEF Show
  <2>2. [records[id] EXCEPT !.shown = ~records[id].shown] \in Record
    BY <2>1 DEF Record
  <2>3. records' \in [Ids -> Record \cup {None}]
    BY <1>8, <2>2 DEF Show
  <2> QED  BY <1>8, <2>3 DEF Show
<1>9. ASSUME NEW id \in Ids, RemoveOverlay(id) PROVE TypeOK'
  <2>1. records' \in [Ids -> Record \cup {None}] /\ casters' \in [Ids -> Entry \cup {None}]
    BY <1>9 DEF RemoveOverlay
  <2> QED  BY <1>9, <2>1 DEF RemoveOverlay
<1>10. ASSUME NEW o \in Occupants, SuppressAddShadow(o) PROVE TypeOK'
  BY <1>10 DEF SuppressAddShadow
<1>11. ASSUME NEW o \in Occupants, RejectedAddShadow(o) PROVE TypeOK'
  BY <1>11 DEF RejectedAddShadow
<1>12. ASSUME NEW o \in Occupants, NEW id \in Ids, NEW shown \in BOOLEAN,
              NEW textured \in BOOLEAN, AddShadow(o, id, shown, textured)
       PROVE  TypeOK'
  <2>1. call' \in Calls \cup {None}
    BY <1>12 DEF AddShadow, Calls, Expected, IsRelaxed
  <2>2. Make(id, o, shown, textured) /\ o \in Occupants \cup {Decal}
    BY <1>12 DEF AddShadow
  <2> QED  BY <1>12, <2>1, <2>2, MakeType DEF AddShadow
<1>13. ASSUME NEW indexed \in BOOLEAN, Register(indexed) PROVE TypeOK'
  <2>1. /\ call \in Calls /\ city # None /\ records[call.id] \in Record
    BY <1>13 DEF Register, HooksTogether, Calls
  <2>2. [of |-> call.of, birth |-> records[call.id].birth, suppressOnly |-> Suppressed(indexed),
         passSerial |-> 0] \in Entry
    BY <2>1 DEF Calls, Record, Entry, Suppressed
  <2>3. casters' \in [Ids -> Entry \cup {None}]
    BY <1>13, <2>1, <2>2, SwitchType DEF Register
  <2>4. /\ manager' \in Managers \cup {None} /\ pass' \in Seq(PassCaster)
        /\ passValid' \in BOOLEAN /\ passSerial' \in Nat \ {0} /\ dropped' \subseteq Births
    BY <1>13, <2>1, SwitchType DEF Register
  <2>5. propMeshes' \subseteq Occupants
    BY <1>13, <2>1 DEF Register, Calls
  <2> QED  BY <1>13, <2>3, <2>4, <2>5 DEF Register
<1>14. CASE FailToRegister
  <2>1. /\ call \in Calls /\ city # None /\ records[call.id] \in Record
    BY <1>14 DEF FailToRegister, HooksTogether, Calls
  <2>2. /\ casters' \in [Ids -> Entry \cup {None}]
        /\ manager' \in Managers \cup {None} /\ pass' \in Seq(PassCaster)
        /\ passValid' \in BOOLEAN /\ passSerial' \in Nat \ {0} /\ dropped' \subseteq Births
    <3>1. CASE casters' = [casters EXCEPT ![call.id] = None] /\ UNCHANGED <<manager, gathered>>
      BY <3>1
    <3>2. CASE casters' = [SwitchManager(city) EXCEPT ![call.id] = None] /\ Switch(city)
      BY <2>1, <3>2, SwitchType
    <3> QED  BY <1>14, <3>1, <3>2 DEF FailToRegister
  <2>3. failed' \subseteq Births
    BY <1>14, <2>1 DEF FailToRegister, Record
  <2> QED  BY <1>14, <2>2, <2>3 DEF FailToRegister
<1>15. CASE BeginPass
  BY <1>15 DEF BeginPass
<1>16. ASSUME NEW site, NEW S \in SUBSET Ids, NEW seen \in SUBSET Occupants,
              DrawShadows(site, S, seen)
       PROVE  TypeOK'
  <2>1. \A id \in S : records[id] # None
    BY <1>16 DEF DrawShadows
  <2>2. asked' \subseteq Births
    <3>1. Shadows({id \in S : records[id].of \in seen}) \subseteq Births
      BY <2>1, ShadowsType
    <3> QED  BY <1>16, <3>1 DEF DrawShadows
  <2>3. CASE Gather(S, seen) \/ GatherRunsOut(S, seen)
    <3>1. /\ casters' \in [Ids -> Entry \cup {None}] /\ pass' \in Seq(PassCaster)
          /\ dropped' \subseteq Births /\ native' \subseteq Births
          /\ withheld' \subseteq Births /\ unfiltered' \subseteq Births
          /\ passValid' \in BOOLEAN /\ UNCHANGED <<manager, passSerial>>
      BY <2>1, <2>3, GatherType
    <3> QED  BY <1>16, <2>2, <3>1 DEF DrawShadows
  <2>4. CASE DrawNative(S) /\ UNCHANGED <<registry, gathered, withheld, unfiltered>>
    <3>1. native' \subseteq Births
      BY <2>1, <2>4, ShadowsType DEF DrawNative
    <3> QED  BY <1>16, <2>2, <2>4, <3>1 DEF DrawShadows
  <2> QED  BY <1>16, <2>3, <2>4 DEF DrawShadows
<1>17. CASE EndPass
  <2>1. pass' \in Seq(PassCaster) /\ passValid' \in BOOLEAN /\ passSerial' \in Nat \ {0}
        /\ dropped' \subseteq Births
    <3>1. CASE TakePass
      <4>1. <<>> \in Seq(PassCaster)
        BY EmptySeq
      <4>2. pass' = pass \/ pass' = <<>>
        BY <3>1 DEF TakePass
      <4>3. passValid' = FALSE \/ passValid' = passValid
        BY <3>1 DEF TakePass
      <4>4. passSerial' = passSerial + 1 \/ passSerial' = passSerial
        BY <3>1 DEF TakePass
      <4>5. passValid \in BOOLEAN /\ passSerial \in Nat \ {0} /\ pass \in Seq(PassCaster)
        OBVIOUS
      <4>6. passSerial' \in Nat \ {0}
        BY <4>4, <4>5
      <4>7. dropped' \subseteq Births
        BY <3>1 DEF TakePass
      <4> QED  BY <4>1, <4>2, <4>3, <4>5, <4>6, <4>7
    <3>2. CASE UNCHANGED gathered
      BY <3>2
    <3> QED  BY <1>17, <3>1, <3>2 DEF EndPass
  <2>2. /\ drawing' = FALSE /\ passes' = passes + 1
        /\ asked' = {} /\ native' = {} /\ withheld' = {} /\ unfiltered' = {}
        /\ UNCHANGED <<install, paused, game, call, registry, propMeshes, failed>>
    BY <1>17 DEF EndPass
  <2>3. /\ drawing' \in BOOLEAN /\ passes' \in Nat
        /\ asked' \subseteq Births /\ native' \subseteq Births /\ withheld' \subseteq Births
        /\ unfiltered' \subseteq Births
    <3>1. passes \in Nat
      OBVIOUS
    <3>2. passes' \in Nat
      BY <2>2, <3>1 DEF TypeOK
    <3>3. drawing' \in BOOLEAN
      BY <2>2
    <3>4. /\ asked' \subseteq Births /\ native' \subseteq Births /\ withheld' \subseteq Births
          /\ unfiltered' \subseteq Births
      BY <2>2
    <3> QED  BY <3>2, <3>3, <3>4
  <2>4. UNCHANGED <<app, hooks, sites, installed, paused, city, cities, records, births, call,
                    casters, manager, propMeshes, failed>>
    BY <2>2
  <2> QED  BY <2>1, <2>3, <2>4
<1>18. CASE UNCHANGED vars
  BY <1>18 DEF vars
<1> QED
  BY <1>1, <1>2, <1>3, <1>4, <1>5, <1>6, <1>7, <1>8, <1>9, <1>10, <1>11, <1>12, <1>13, <1>14,
     <1>15, <1>16, <1>17, <1>18 DEF Next

-----------------------------------------------------------------------------
\* What the rest of the invariant says; all of it is about these variables.
Rest ==
  /\ HooksTogether /\ RegistryIsHonest
  /\ NumbersApart /\ CallIsFresh /\ JoinedOnce /\ PassIsRight

\* A step that leaves the registry, SC4's objects and the pass alone keeps what is
\* said of them.
LEMMA QuietStep ==
  ASSUME Rest,
         UNCHANGED <<app, sites, city, records, births, call, casters, manager, pass, passSerial>>
  PROVE  Rest'
BY DEF Rest, HooksTogether, RegistryIsHonest, NumbersApart, CallIsFresh, JoinedOnce, PassIsRight,
   Adding

\* Nothing has joined a pass that starts over.
LEMMA NothingJoined ==
  ASSUME pass' = <<>>
  PROVE  /\ \A i \in 1 .. Len(pass') : FALSE
         /\ JoinedOnce' /\ PassIsRight'
<1>1. Len(pass') = 0
  BY EmptySeq
<1>2. \A i \in 1 .. Len(pass') : FALSE
  BY <1>1
<1> QED  BY <1>2 DEF JoinedOnce, PassIsRight

\* A registry that has forgotten everything is right about anything.
LEMMA ForgetIsSafe ==
  ASSUME TypeOK, Rest, HooksTogether', call = None, Forget, UNCHANGED <<records, births, call>>
  PROVE  Rest'
<1>1. \A i \in Ids : casters'[i] = None
  BY DEF Forget, NoCasters
<1>2. casters' = NoCasters
  BY DEF Forget
<1>3. (\A i \in 1 .. Len(pass') : FALSE) /\ JoinedOnce' /\ PassIsRight'
  BY NothingJoined DEF Forget
<1>4. NumbersApart'
  BY <1>1, <1>3 DEF NumbersApart, Rest
<1>5. RegistryIsHonest'
  BY <1>1, <1>2 DEF RegistryIsHonest, NoCasters
<1>6. CallIsFresh'
  BY DEF CallIsFresh
<1> QED  BY <1>3, <1>4, <1>5, <1>6 DEF Rest

\* OnStart and PreAppShutdown.
LEMMA InstallStep ==
  ASSUME TypeOK, Rest, OnStart \/ PreAppShutdown
  PROVE  Rest'
<1>1. call = None /\ records = NoRecords /\ city = None /\ UNCHANGED <<records, births, call, city>>
  BY DEF Rest, HooksTogether, OnStart, PreAppShutdown, game
<1>2. CASE OnStart
  <2>1. app = "before" /\ app' = "running" /\ sites = {}
    BY <1>2 DEF OnStart, Rest, HooksTogether
  <2>2. CASE UNCHANGED <<sites, installed, registry, gathered>>
    <3>1. HooksTogether'
      BY <1>1, <2>1, <2>2 DEF HooksTogether
    <3>2. UNCHANGED <<casters, manager, pass, passSerial>>
      BY <2>2 DEF registry, gathered
    <3> QED
      BY <1>1, <2>2, <3>1, <3>2 DEF Rest, RegistryIsHonest, NumbersApart, CallIsFresh, JoinedOnce,
         PassIsRight, Adding
  <2>3. CASE Forget /\ (sites' = AllSites
                        \/ \E n \in 0 .. Len(Sites) - 1 : sites' \in SUBSET Written(n))
    <3>1. "AddShadow" \notin sites' \/ sites' = AllSites
      BY <2>3, AddShadowIsLast
    <3>2. HooksTogether'
      BY <1>1, <2>1, <3>1 DEF HooksTogether
    <3> QED  BY <1>1, <2>3, <3>2, ForgetIsSafe
  <2> QED  BY <1>2, <2>2, <2>3 DEF OnStart, Install
<1>3. CASE PreAppShutdown
  <2>1. app' = "down"
    BY <1>3 DEF PreAppShutdown
  <2>2. HooksTogether'
    BY <1>1, <2>1 DEF HooksTogether
  <2>3. CASE installed
    BY <1>1, <1>3, <2>2, <2>3, ForgetIsSafe DEF PreAppShutdown
  <2>4. CASE ~installed
    <3>1. UNCHANGED <<sites, casters, manager, pass, passSerial>>
      BY <1>3, <2>4 DEF PreAppShutdown, registry, gathered
    <3> QED
      BY <1>1, <2>2, <3>1 DEF Rest, RegistryIsHonest, NumbersApart, CallIsFresh, JoinedOnce,
         PassIsRight, Adding
  <2> QED  BY <2>3, <2>4
<1> QED  BY <1>2, <1>3

\* A city opens or closes: its records are gone, the casters need not be.
LEMMA CityStep ==
  ASSUME TypeOK, Rest, (\E m \in Managers : OpenCity(m)) \/ CloseCity
  PROVE  Rest'
<1>1. /\ call = None /\ UNCHANGED <<app, sites, births, call, casters, manager, pass, passSerial>>
      /\ records' = NoRecords
      /\ city' # None => app = "running"
  BY DEF OpenCity, CloseCity, install, registry, gathered
<1>2. \A i \in Ids : records'[i] = None
  BY <1>1 DEF NoRecords
<1>3. HooksTogether'
  <2>1. app = "before" => sites = {} /\ city' = None
    BY <1>1 DEF Rest, HooksTogether
  <2> QED  BY <1>1, <2>1 DEF Rest, HooksTogether
<1>4. RegistryIsHonest'
  BY <1>1, <1>2 DEF Rest, RegistryIsHonest
<1>5. NumbersApart'
  BY <1>1, <1>2 DEF Rest, NumbersApart
<1> QED  BY <1>1, <1>3, <1>4, <1>5 DEF Rest, CallIsFresh, JoinedOnce, PassIsRight

\* A record goes, or is shown or hidden: those that stay are the same records.
LEMMA RecordStep ==
  ASSUME TypeOK, Rest, call = None, city # None,
         \A i \in Ids : records'[i] # None =>
           records[i] # None /\ records'[i].birth = records[i].birth /\ records'[i].of = records[i].of,
         \A i \in Ids : casters'[i] = casters[i] \/ casters'[i] = None,
         casters' # NoCasters => casters # NoCasters,
         UNCHANGED <<app, sites, city, births, call, manager, pass, passSerial>>
  PROVE  Rest'
<1>1. HooksTogether'
  BY DEF Rest, HooksTogether
<1>2. RegistryIsHonest'
  BY DEF Rest, RegistryIsHonest, Adding
<1>3. NumbersApart'
  BY DEF Rest, NumbersApart
<1>4. JoinedOnce'
  BY DEF Rest, JoinedOnce
<1>5. CallIsFresh' /\ PassIsRight'
  BY DEF Rest, CallIsFresh, PassIsRight
<1> QED  BY <1>1, <1>2, <1>3, <1>4, <1>5 DEF Rest

\* FreeSilently, Show and RemoveOverlay.
LEMMA LoseStep ==
  ASSUME TypeOK, Rest, NEW id \in Ids, FreeSilently(id) \/ Show(id) \/ RemoveOverlay(id)
  PROVE  Rest'
<1>1. /\ call = None /\ records[id] # None /\ records[id] \in Record
      /\ UNCHANGED <<app, sites, city, births, call, manager, pass, passSerial>>
  BY DEF FreeSilently, Show, RemoveOverlay, install, registry, gathered, TypeOK
<1>2. city # None
  BY <1>1 DEF Rest, HooksTogether, NoRecords
<1>3. ASSUME NEW i \in Ids, records'[i] # None
      PROVE  records[i] # None /\ records'[i].birth = records[i].birth
             /\ records'[i].of = records[i].of
  <2>1. CASE FreeSilently(id) \/ RemoveOverlay(id)
    BY <1>3, <2>1 DEF FreeSilently, RemoveOverlay, TypeOK
  <2>2. CASE Show(id)
    <3>1. i # id => records'[i] = records[i]
      BY <2>2 DEF Show, TypeOK
    <3>2. records'[id] = [records[id] EXCEPT !.shown = ~records[id].shown]
      BY <2>2 DEF Show, TypeOK
    <3> QED  BY <1>1, <1>3, <3>1, <3>2 DEF Record
  <2> QED  BY <2>1, <2>2
<1>4. \A i \in Ids : casters'[i] = casters[i] \/ casters'[i] = None
  BY DEF FreeSilently, Show, RemoveOverlay, registry, TypeOK
<1>5. casters' # NoCasters => casters # NoCasters
  <2>1. casters' \in [Ids -> Entry \cup {None}]
    BY DEF FreeSilently, Show, RemoveOverlay, registry, TypeOK
  <2> QED  BY <1>4, <2>1 DEF NoCasters
<1> QED  BY <1>1, <1>2, <1>3, <1>4, <1>5, RecordStep

\* A new record has a number nothing else has.
LEMMA MakeNumbers ==
  ASSUME TypeOK, Rest, NEW id \in Ids, NEW o \in Occupants \cup {Decal}, NEW shown \in BOOLEAN,
         NEW textured \in BOOLEAN, Make(id, o, shown, textured),
         UNCHANGED <<casters, pass>>
  PROVE  /\ NumbersApart'
         /\ \A j \in Ids : casters[j] # None => casters[j].birth # records'[id].birth
         /\ \A i \in 1 .. Len(pass) : pass[i].caster # records'[id].birth
<1>1. /\ births \in Nat /\ births' = births + 1 /\ records'[id].birth = births + 1
      /\ \A j \in Ids \ {id} : records'[j] = records[j]
  <2>1. births \in Nat
    BY BoundsAssumption DEF TypeOK
  <2>2. /\ births' = births + 1
        /\ records'[id] = [of |-> o, birth |-> births + 1, shown |-> shown,
                           textured |-> textured]
        /\ \A j \in Ids \ {id} : records'[j] = records[j]
    BY MakeType
  <2> QED  BY <2>1, <2>2
<1>2. ASSUME NEW j \in Ids, records[j] # None
      PROVE  records[j].birth \in Nat /\ records[j].birth <= births
  BY <1>2, BoundsAssumption DEF Rest, NumbersApart, TypeOK, Record, Births
<1>3. ASSUME NEW j \in Ids, casters[j] # None
      PROVE  casters[j].birth \in Nat /\ casters[j].birth <= births
  BY <1>3, BoundsAssumption DEF Rest, NumbersApart, TypeOK, Entry, Births
<1>4. ASSUME NEW i \in 1 .. Len(pass)
      PROVE  pass[i].caster \in Nat /\ pass[i].caster <= births
  <2>1. pass[i] \in PassCaster
    BY ElementOfSeq DEF TypeOK
  <2> QED  BY <2>1, BoundsAssumption DEF Rest, NumbersApart, PassCaster, Births
<1>5. ASSUME NEW j \in Ids, casters[j] # None PROVE casters[j].birth # records'[id].birth
  BY <1>1, <1>3, <1>5
<1>6. ASSUME NEW i \in 1 .. Len(pass) PROVE pass[i].caster # records'[id].birth
  BY <1>1, <1>4
<1>7. \A i, j \in Ids :
        records'[i] # None /\ records'[j] # None /\ records'[i].birth = records'[j].birth => i = j
  <2>1. SUFFICES ASSUME NEW i \in Ids, NEW j \in Ids, records'[i] # None, records'[j] # None,
                        records'[i].birth = records'[j].birth
                 PROVE  i = j
    OBVIOUS
  <2>2. CASE i # id /\ j # id
    BY <1>1, <2>1, <2>2 DEF Rest, NumbersApart
  <2>3. CASE i = id /\ j # id
    BY <1>1, <1>2, <2>1, <2>3
  <2>4. CASE i # id /\ j = id
    BY <1>1, <1>2, <2>1, <2>4
  <2> QED  BY <2>2, <2>3, <2>4
<1>8. \A i, j \in Ids :
        records'[i] # None /\ casters[j] # None /\ records'[i].birth = casters[j].birth => i = j
  BY <1>1, <1>5 DEF Rest, NumbersApart
<1>9. /\ \A i \in Ids : records'[i] # None => records'[i].birth <= births'
      /\ \A i \in Ids : casters[i] # None => casters[i].birth <= births'
      /\ \A i \in 1 .. Len(pass) : pass[i].caster <= births'
  BY <1>1, <1>2, <1>3, <1>4
<1>10. \A i, j \in Ids :
         casters[i] # None /\ casters[j] # None /\ casters[i].birth = casters[j].birth => i = j
  BY DEF Rest, NumbersApart
<1>11. NumbersApart'
  BY <1>7, <1>8, <1>9, <1>10 DEF NumbersApart
<1> QED  BY <1>5, <1>6, <1>11

\* MakeDecal.
LEMMA DecalStep ==
  ASSUME TypeOK, Rest, NEW id \in Ids, MakeDecal(id)
  PROVE  Rest'
<1>1. /\ Make(id, Decal, TRUE, TRUE) /\ call = None /\ city # None
      /\ UNCHANGED <<app, sites, city, call, casters, manager, pass, passSerial>>
  BY DEF MakeDecal, Make, install, registry, gathered
<1>2. NumbersApart'
  BY <1>1, MakeNumbers
<1>3. /\ records'[id].of = Decal
      /\ \A j \in Ids \ {id} : records'[j] = records[j]
  BY <1>1, MakeType
<1>4. HooksTogether'
  BY <1>1 DEF Rest, HooksTogether
<1>5. RegistryIsHonest'
  BY <1>1, <1>3 DEF Rest, RegistryIsHonest, Adding
<1> QED  BY <1>1, <1>2, <1>4, <1>5 DEF Rest, CallIsFresh, JoinedOnce, PassIsRight

\* AddShadow, up to the return of SC4's own.
LEMMA AddShadowStep ==
  ASSUME TypeOK, Rest, NEW o \in Occupants, NEW id \in Ids, NEW shown \in BOOLEAN,
         NEW textured \in BOOLEAN, AddShadow(o, id, shown, textured)
  PROVE  Rest'
<1>1. /\ Make(id, o, shown, textured) /\ call = None /\ city # None
      /\ UNCHANGED <<app, sites, city, casters, manager, pass, passSerial>>
  BY DEF AddShadow, Make, install, registry, gathered
<1>2. /\ NumbersApart'
      /\ \A j \in Ids : casters[j] # None => casters[j].birth # records'[id].birth
      /\ \A i \in 1 .. Len(pass) : pass[i].caster # records'[id].birth
  BY <1>1, MakeNumbers
<1>3. /\ records'[id] # None /\ records'[id].of = o
      /\ \A j \in Ids \ {id} : records'[j] = records[j]
  <2>1. o \in Occupants \cup {Decal}
    OBVIOUS
  <2> QED  BY <1>1, <2>1, MakeType
<1>4. app = "running"
  BY <1>1 DEF Rest, HooksTogether, TypeOK
<1>5. CASE "AddShadow" \in sites
  <2>1. call' # None /\ call'.id = id /\ call'.of = o
    <3>1. call' = [id |-> id, of |-> o, meshCaster |-> Expected(o)]
      BY <1>5 DEF AddShadow
    <3>2. call' \in Calls
      BY <3>1 DEF Calls, Expected, IsRelaxed, TypeOK
    <3> QED  BY <3>1, <3>2, NoneAssumption
  <2>2. HooksTogether'
    BY <1>1, <1>3, <1>4, <1>5, <2>1 DEF Rest, HooksTogether
  <2>3. RegistryIsHonest'
    BY <1>1, <1>3, <2>1 DEF Rest, RegistryIsHonest, Adding
  <2>4. CallIsFresh'
    BY <1>1, <1>2, <2>1 DEF CallIsFresh
  <2> QED  BY <1>1, <1>2, <2>2, <2>3, <2>4 DEF Rest, JoinedOnce, PassIsRight
<1>6. CASE "AddShadow" \notin sites
  <2>1. call' = None
    BY <1>6 DEF AddShadow
  <2>2. casters = NoCasters
    BY <1>6, AddShadowIsLast DEF Rest, RegistryIsHonest
  <2>3. RegistryIsHonest'
    BY <1>1, <2>2 DEF RegistryIsHonest, NoCasters
  <2>4. HooksTogether'
    BY <1>1, <2>1, <1>4, <1>6 DEF Rest, HooksTogether
  <2> QED  BY <1>1, <1>2, <2>1, <2>3, <2>4 DEF Rest, CallIsFresh, JoinedOnce, PassIsRight
<1> QED  BY <1>5, <1>6

\* What stays of the registry when it turns to SC4's manager.
LEMMA SwitchKeeps ==
  ASSUME TypeOK, Rest, Switch(city)
  PROVE  /\ manager' = city
         /\ \A j \in Ids : \/ SwitchManager(city)[j] = casters[j] /\ manager = city
                           \/ SwitchManager(city)[j] = None
         /\ \/ pass' = <<>>
            \/ UNCHANGED <<pass, passSerial>> /\ manager = city
BY DEF Switch, SwitchManager, NoCasters, gathered

\* Register and FailToRegister: at the call's slot the casters get this
\* record's, or none.
LEMMA RegisterStep ==
  ASSUME TypeOK, Rest, (\E indexed \in BOOLEAN : Register(indexed)) \/ FailToRegister
  PROVE  Rest'
<1>1. /\ call # None /\ call' = None /\ call.id \in Ids
      /\ records[call.id] # None /\ records[call.id] \in Record
      /\ UNCHANGED <<app, sites, city, records, births>>
  BY DEF Register, FailToRegister, install, game, TypeOK, Calls, Rest, HooksTogether
<1>2. app = "running" /\ sites = AllSites
  BY <1>1 DEF Rest, HooksTogether
<1>3. \A j \in Ids \ {call.id} :
        casters'[j] # None => casters'[j] = casters[j] /\ (manager' = city => manager = city)
  <2>1. CASE casters' = [casters EXCEPT ![call.id] = None] /\ UNCHANGED <<manager, gathered>>
    BY <2>1 DEF TypeOK
  <2>2. ASSUME NEW e, casters' = [SwitchManager(city) EXCEPT ![call.id] = e], Switch(city)
        PROVE  \A j \in Ids \ {call.id} :
                 casters'[j] # None => casters'[j] = casters[j] /\ (manager' = city => manager = city)
    BY <2>2, SwitchKeeps
  <2> QED  BY <2>1, <2>2 DEF Register, FailToRegister
<1>4. casters'[call.id] # None =>
        /\ casters'[call.id].birth = records[call.id].birth
        /\ casters'[call.id].passSerial = 0
  <2>1. city # None
    BY <1>1 DEF Rest, HooksTogether
  <2>2. SwitchManager(city) \in [Ids -> Entry \cup {None}]
    BY <2>1, SwitchType
  <2>3. CASE FailToRegister
    BY <1>1, <2>2, <2>3 DEF FailToRegister, TypeOK
  <2>4. ASSUME NEW indexed \in BOOLEAN, Register(indexed)
        PROVE  casters'[call.id].birth = records[call.id].birth /\ casters'[call.id].passSerial = 0
    <3>1. casters'[call.id] = [of |-> call.of, birth |-> records[call.id].birth,
                               suppressOnly |-> Suppressed(indexed), passSerial |-> 0]
      BY <1>1, <2>2, <2>4 DEF Register
    <3> QED  BY <3>1
  <2> QED  BY <2>3, <2>4
<1>5. \/ (\A i \in 1 .. Len(pass') : FALSE) /\ JoinedOnce' /\ PassIsRight'
      \/ UNCHANGED <<pass, passSerial>>
  <2>1. pass' = <<>> \/ UNCHANGED <<pass, passSerial>>
    BY SwitchKeeps DEF Register, FailToRegister, gathered
  <2> QED  BY <2>1, NothingJoined
<1>6. HooksTogether'
  BY <1>1, <1>2 DEF Rest, HooksTogether
<1>7. RegistryIsHonest'
  BY <1>1, <1>2, <1>3, <1>4 DEF Rest, RegistryIsHonest, Adding
<1>8. NumbersApart'
  <2>1. \A i, j \in Ids :
          casters'[i] # None /\ casters'[j] # None /\ casters'[i].birth = casters'[j].birth => i = j
    BY <1>1, <1>3, <1>4 DEF Rest, NumbersApart
  <2>2. \A i, j \in Ids :
          records[i] # None /\ casters'[j] # None /\ records[i].birth = casters'[j].birth => i = j
    BY <1>1, <1>3, <1>4 DEF Rest, NumbersApart
  <2>3. \A i \in Ids : casters'[i] # None => casters'[i].birth <= births
    BY <1>1, <1>3, <1>4 DEF Rest, NumbersApart
  <2>4. \A i \in 1 .. Len(pass') : pass'[i].caster <= births
    BY <1>5 DEF Rest, NumbersApart
  <2> QED  BY <1>1, <2>1, <2>2, <2>3, <2>4 DEF Rest, NumbersApart
<1>9. JoinedOnce' /\ PassIsRight'
  <2>1. CASE UNCHANGED <<pass, passSerial>>
    <3>1. PassIsRight'
      BY <2>1 DEF Rest, PassIsRight
    <3>2. JoinedOnce'
      BY <1>1, <1>3, <1>4, <2>1 DEF Rest, JoinedOnce, CallIsFresh
    <3> QED  BY <3>1, <3>2
  <2> QED  BY <1>5, <2>1
<1> QED  BY <1>1, <1>6, <1>7, <1>8, <1>9 DEF Rest, CallIsFresh

-----------------------------------------------------------------------------
\* A caster that joins is its record's own, unless that is being registered.
LEMMA JoiningIsHonest ==
  ASSUME TypeOK, Rest, NEW S \in SUBSET Ids, NEW seen, \A id \in S : records[id] # None,
         manager = city, NEW id \in Joining(S, seen), ~Adding(id)
  PROVE  casters[id].birth = records[id].birth
<1>1. /\ id \in Ids /\ casters[id] # None /\ casters[id] \in Entry /\ records[id] # None
      /\ ~IsStale(id)
  BY JoiningType
<1>2. records[id].of # Decal
  BY <1>1, BindingAssumption DEF IsStale, Entry
<1> QED  BY <1>1, <1>2 DEF Rest, RegistryIsHonest

\* Casters that join a pass, with their serials.
LEMMA JoinStep ==
  ASSUME TypeOK, Rest, NEW S \in SUBSET Ids, NEW seen, \A id \in S : records[id] # None,
         manager = city, casters # NoCasters,
         NEW E, NEW N \in SUBSET Joining(S, seen), NEW J \in SUBSET N, Join(E, N, J),
         UNCHANGED <<app, sites, city, records, births, call>>
  PROVE  Rest'
<1> DEFINE new == AsSeq(J)
<1> Joinable(N)
  BY JoiningIsJoinable
<1>0. /\ new \in Seq(PassCaster)
      /\ Len(pass') = Len(pass) + Len(new)
      /\ \A i \in 1 .. Len(pass') :
           pass'[i] = IF i <= Len(pass) THEN pass[i] ELSE new[i - Len(pass)]
      /\ \A i \in 1 .. Len(new) : new[i] \in PassCasters(J)
      /\ \A i, j \in 1 .. Len(new) : new[i] = new[j] => i = j
  BY JoinType
<1>1. \A id \in Ids : casters'[id] # None =>
        /\ casters[id] # None /\ casters'[id].birth = casters[id].birth
        /\ casters'[id].passSerial = IF id \in N THEN passSerial ELSE casters[id].passSerial
  BY JoinType
<1>2. /\ Len(pass) \in Nat /\ Len(new) \in Nat /\ Len(pass') = Len(pass) + Len(new)
      /\ \A i \in 1 .. Len(pass') :
           pass'[i] = IF i <= Len(pass) THEN pass[i] ELSE new[i - Len(pass)]
  <2>1. /\ new \in Seq(PassCaster) /\ Len(pass') = Len(pass) + Len(new)
        /\ \A i \in 1 .. Len(pass') :
             pass'[i] = IF i <= Len(pass) THEN pass[i] ELSE new[i - Len(pass)]
    BY <1>0
  <2>2. Len(pass) \in Nat
    BY LenProperties DEF TypeOK
  <2>3. Len(new) \in Nat
    BY <2>1, LenProperties
  <2> QED  BY <2>1, <2>2, <2>3
<1>3. \A i \in 1 .. Len(new) : \E id \in J :
        new[i] = [caster |-> casters[id].birth, record |-> records[id].birth,
                  adding |-> Adding(id)]
  BY <1>0 DEF PassCasters
<1>4. \A i, j \in 1 .. Len(new) : new[i] = new[j] => i = j
  BY <1>0
<1>5. /\ J \subseteq Ids /\ J \subseteq N /\ J \subseteq Joining(S, seen)
      /\ \A id \in J : casters[id] # None /\ casters[id].passSerial # passSerial
  BY DEF Joinable
<1>6. UNCHANGED <<manager, passSerial>>
  BY DEF Join
<1> HIDE DEF new
\* Every caster of the pass was in it, or joins now.
<1>7. ASSUME NEW i \in 1 .. Len(pass')
      PROVE  \/ i \in 1 .. Len(pass) /\ pass'[i] = pass[i]
             \/ /\ i - Len(pass) \in 1 .. Len(new) /\ pass'[i] = new[i - Len(pass)]
                /\ \E id \in J :
                     pass'[i] = [caster |-> casters[id].birth, record |-> records[id].birth,
                                 adding |-> Adding(id)]
  <2>1. CASE i <= Len(pass)
    BY <1>2, <2>1
  <2>2. CASE ~(i <= Len(pass))
    <3>1. i - Len(pass) \in 1 .. Len(new) /\ pass'[i] = new[i - Len(pass)]
      BY <1>2, <2>2
    <3> QED  BY <1>3, <3>1
  <2> QED  BY <2>1, <2>2
<1>8. HooksTogether'
  BY DEF Rest, HooksTogether
<1>9. RegistryIsHonest'
  BY <1>1, <1>6 DEF Rest, RegistryIsHonest, Adding
<1>10. NumbersApart'
  <2>1. ASSUME NEW i \in 1 .. Len(pass')
        PROVE  pass'[i].caster <= births
    <3>1. CASE i \in 1 .. Len(pass) /\ pass'[i] = pass[i]
      BY <3>1 DEF Rest, NumbersApart
    <3>2. ASSUME NEW id \in J,
                 pass'[i] = [caster |-> casters[id].birth, record |-> records[id].birth,
                             adding |-> Adding(id)]
          PROVE  pass'[i].caster <= births
      <4>1. id \in Ids /\ casters[id] # None
        BY <1>5
      <4>2. casters[id].birth <= births
        BY <4>1 DEF Rest, NumbersApart
      <4> QED  BY <3>2, <4>2
    <3> QED  BY <1>7, <3>1, <3>2
  <2> QED  BY <1>1, <2>1 DEF Rest, NumbersApart
<1>11. CallIsFresh'
  <2>1. SUFFICES ASSUME call # None PROVE CallIsFresh'
    BY DEF CallIsFresh
  <2>2. \A j \in Ids : casters[j] # None => casters[j].birth # records[call.id].birth
    BY <2>1 DEF Rest, CallIsFresh
  <2>3. \A i \in 1 .. Len(pass) : pass[i].caster # records[call.id].birth
    BY <2>1 DEF Rest, CallIsFresh
  <2>4. \A i \in 1 .. Len(pass') : pass'[i].caster # records[call.id].birth
    <3>1. SUFFICES ASSUME NEW i \in 1 .. Len(pass')
                   PROVE  pass'[i].caster # records[call.id].birth
      OBVIOUS
    <3>2. CASE i \in 1 .. Len(pass) /\ pass'[i] = pass[i]
      BY <2>3, <3>2
    <3>3. ASSUME NEW id \in J,
                 pass'[i] = [caster |-> casters[id].birth, record |-> records[id].birth,
                             adding |-> Adding(id)]
          PROVE  pass'[i].caster # records[call.id].birth
      <4>1. id \in Ids /\ casters[id] # None
        BY <1>5
      <4>2. casters[id].birth # records[call.id].birth
        BY <2>2, <4>1
      <4> QED  BY <3>3, <4>2
    <3> QED  BY <1>7, <3>2, <3>3
  <2> QED  BY <1>1, <2>2, <2>4 DEF CallIsFresh
<1>12. JoinedOnce'
  <2>1. SUFFICES ASSUME NEW i \in 1 .. Len(pass'), NEW j \in Ids, casters'[j] # None,
                        casters'[j].birth = pass'[i].caster
                 PROVE  casters'[j].passSerial = passSerial
    BY <1>6 DEF JoinedOnce
  <2>2. casters[j] # None /\ casters[j].birth = pass'[i].caster
    BY <1>1, <2>1
  <2>3. CASE i \in 1 .. Len(pass) /\ pass'[i] = pass[i]
    BY <1>1, <2>1, <2>2, <2>3 DEF Rest, JoinedOnce
  <2>4. CASE \E id \in J :
               pass'[i] = [caster |-> casters[id].birth, record |-> records[id].birth,
                           adding |-> Adding(id)]
    <3>1. j \in N
      BY <1>5, <2>2, <2>4 DEF Rest, NumbersApart
    <3> QED  BY <1>1, <2>1, <3>1
  <2> QED  BY <1>7, <2>3, <2>4
<1>13. PassIsRight'
  <2>1. ASSUME NEW i \in 1 .. Len(pass'), ~pass'[i].adding
        PROVE  pass'[i].caster = pass'[i].record
    <3>1. CASE i \in 1 .. Len(pass) /\ pass'[i] = pass[i]
      BY <2>1, <3>1 DEF Rest, PassIsRight
    <3>2. ASSUME NEW id \in J,
                 pass'[i] = [caster |-> casters[id].birth, record |-> records[id].birth,
                             adding |-> Adding(id)]
          PROVE  pass'[i].caster = pass'[i].record
      <4>1. ~Adding(id)
        BY <2>1, <3>2
      <4>2. casters[id].birth = records[id].birth
        BY <3>2, <4>1, <1>5, JoiningIsHonest
      <4> QED  BY <3>2, <4>2
    <3> QED  BY <1>7, <3>1, <3>2
  \* Who joins was not in the pass.
  <2>2. ASSUME NEW i \in 1 .. Len(pass), NEW id \in J
        PROVE  pass[i].caster # casters[id].birth
    BY <1>5, <2>2 DEF Rest, JoinedOnce
  <2>3. ASSUME NEW i \in 1 .. Len(pass'), NEW j \in 1 .. Len(pass'),
               pass'[i].caster = pass'[j].caster
        PROVE  i = j
    <3>1. CASE i \in 1 .. Len(pass) /\ pass'[i] = pass[i] /\ j \in 1 .. Len(pass) /\ pass'[j] = pass[j]
      BY <2>3, <3>1 DEF Rest, PassIsRight
    <3>2. CASE i \in 1 .. Len(pass) /\ pass'[i] = pass[i]
               /\ \E id \in J : pass'[j] = [caster |-> casters[id].birth,
                                            record |-> records[id].birth, adding |-> Adding(id)]
      BY <2>2, <2>3, <3>2
    <3>3. CASE j \in 1 .. Len(pass) /\ pass'[j] = pass[j]
               /\ \E id \in J : pass'[i] = [caster |-> casters[id].birth,
                                            record |-> records[id].birth, adding |-> Adding(id)]
      BY <2>2, <2>3, <3>3
    <3>4. CASE /\ i - Len(pass) \in 1 .. Len(new) /\ pass'[i] = new[i - Len(pass)]
               /\ \E id \in J : pass'[i] = [caster |-> casters[id].birth,
                                            record |-> records[id].birth, adding |-> Adding(id)]
               /\ j - Len(pass) \in 1 .. Len(new) /\ pass'[j] = new[j - Len(pass)]
               /\ \E id \in J : pass'[j] = [caster |-> casters[id].birth,
                                            record |-> records[id].birth, adding |-> Adding(id)]
      <4>1. PICK a \in J : pass'[i] = [caster |-> casters[a].birth, record |-> records[a].birth,
                                       adding |-> Adding(a)]
        BY <3>4
      <4>2. PICK b \in J : pass'[j] = [caster |-> casters[b].birth, record |-> records[b].birth,
                                       adding |-> Adding(b)]
        BY <3>4
      <4>3. casters[a].birth = casters[b].birth
        BY <2>3, <4>1, <4>2
      <4>4. a = b
        BY <1>5, <4>3 DEF Rest, NumbersApart
      <4>5. new[i - Len(pass)] = new[j - Len(pass)]
        BY <3>4, <4>1, <4>2, <4>4
      <4>6. i - Len(pass) = j - Len(pass)
        BY <1>4, <3>4, <4>5
      <4> QED  BY <1>2, <4>6
    <3> QED  BY <1>7, <3>1, <3>2, <3>3, <3>4
  <2> QED  BY <2>1, <2>3 DEF PassIsRight
<1> QED  BY <1>8, <1>9, <1>10, <1>11, <1>12, <1>13 DEF Rest

\* DrawShadows: gathered, out of memory, or left to SC4.
LEMMA DrawStep ==
  ASSUME TypeOK, Rest, NEW site, NEW S \in SUBSET Ids, NEW seen, DrawShadows(site, S, seen)
  PROVE  Rest'
<1>1. /\ \A id \in S : records[id] # None
      /\ UNCHANGED <<app, sites, city, records, births, call>>
  BY DEF DrawShadows, install, game
<1>2. ASSUME Gathers, NEW E, NEW N \in SUBSET Joining(S, seen), NEW J \in SUBSET N, Join(E, N, J)
      PROVE  Rest'
  BY <1>1, <1>2, JoinStep DEF Gathers
<1>3. CASE Gathers /\ Gather(S, seen)
  BY <1>2, <1>3 DEF Gather
<1>4. CASE Gathers /\ GatherRunsOut(S, seen)
  <2>1. CASE UNCHANGED <<casters, manager, pass, passSerial, dropped>>
    BY <1>1, <2>1, QuietStep
  <2>2. ASSUME NEW last \in Joining(S, seen), NEW E, NEW J \in SUBSET (Joining(S, seen) \ {last}),
               Join(E, J \cup {last}, J)
        PROVE  Rest'
    <3>1. J \cup {last} \in SUBSET Joining(S, seen) /\ J \in SUBSET (J \cup {last})
      OBVIOUS
    <3> QED  BY <1>2, <1>4, <2>2, <3>1
  <2> QED  BY <1>4, <2>1, <2>2 DEF GatherRunsOut
<1>5. CASE UNCHANGED <<registry, gathered, withheld>>
  BY <1>1, <1>5, QuietStep DEF registry, gathered
<1> QED  BY <1>3, <1>4, <1>5 DEF DrawShadows

\* EndPass takes the pass, or there is nothing to take it for.
LEMMA EndStep ==
  ASSUME TypeOK, Rest, EndPass
  PROVE  Rest'
<1>1. UNCHANGED <<app, sites, city, records, births, call, casters, manager>>
  BY DEF EndPass, install, game, registry
<1>2. CASE UNCHANGED gathered
  BY <1>1, <1>2, QuietStep DEF gathered
<1>3. CASE pass' = <<>>
  <2>1. (\A i \in 1 .. Len(pass') : FALSE) /\ JoinedOnce' /\ PassIsRight'
    BY <1>3, NothingJoined
  <2>2. HooksTogether' /\ RegistryIsHonest'
    BY <1>1 DEF Rest, HooksTogether, RegistryIsHonest, Adding
  <2>3. NumbersApart' /\ CallIsFresh'
    BY <1>1, <2>1 DEF Rest, NumbersApart, CallIsFresh
  <2> QED  BY <2>1, <2>2, <2>3 DEF Rest
<1> QED  BY <1>2, <1>3 DEF EndPass, TakePass

-----------------------------------------------------------------------------

\* No hook, frame or event breaks the invariant.
LEMMA InvStep == Inv /\ [Next]_vars => Inv'
<1> SUFFICES ASSUME Inv, [Next]_vars PROVE Inv'
  OBVIOUS
<1>1. TypeOK /\ Rest
  BY DEF Inv, Rest
<1>2. TypeOK'
  BY <1>1, TypeStep DEF Rest
<1>3. Rest'
  <2>1. CASE OnStart \/ PreAppShutdown
    BY <1>1, <2>1, InstallStep
  <2>2. CASE TogglePause \/ BeginPass \/ \E o \in Occupants : SuppressAddShadow(o) \/ RejectedAddShadow(o)
    <3>1. UNCHANGED <<app, sites, city, records, births, call, casters, manager, pass, passSerial>>
      BY <2>2 DEF TogglePause, BeginPass, SuppressAddShadow, RejectedAddShadow, install, game,
         registry, gathered
    <3> QED  BY <1>1, <3>1, QuietStep
  <2>3. CASE (\E m \in Managers : OpenCity(m)) \/ CloseCity
    BY <1>1, <2>3, CityStep
  <2>4. ASSUME NEW id \in Ids, MakeDecal(id) PROVE Rest'
    BY <1>1, <2>4, DecalStep
  <2>5. ASSUME NEW id \in Ids, FreeSilently(id) \/ Show(id) \/ RemoveOverlay(id) PROVE Rest'
    BY <1>1, <2>5, LoseStep
  <2>6. ASSUME NEW o \in Occupants, NEW id \in Ids, NEW shown \in BOOLEAN, NEW textured \in BOOLEAN,
               AddShadow(o, id, shown, textured)
        PROVE  Rest'
    BY <1>1, <2>6, AddShadowStep
  <2>7. CASE (\E indexed \in BOOLEAN : Register(indexed)) \/ FailToRegister
    BY <1>1, <2>7, RegisterStep
  <2>8. ASSUME NEW site, NEW S \in SUBSET Ids, NEW seen \in SUBSET Occupants,
               DrawShadows(site, S, seen)
        PROVE  Rest'
    BY <1>1, <2>8, DrawStep
  <2>9. CASE EndPass
    BY <1>1, <2>9, EndStep
  <2>10. CASE UNCHANGED vars
    BY <1>1, <2>10, QuietStep DEF vars, install, game, registry, gathered
  <2> QED  BY <2>1, <2>2, <2>3, <2>4, <2>5, <2>6, <2>7, <2>8, <2>9, <2>10 DEF Next
<1> QED  BY <1>2, <1>3 DEF Inv, Rest

\* The inductive invariant: patches that come and go together, casters that
\* stand for their records, numbers that tell them apart.
THEOREM RegistryIsSafeAlways == Spec => []Inv
<1>1. Init => Inv
  BY InitInv
<1>2. Inv /\ [Next]_vars => Inv'
  BY InvStep
<1> QED  BY <1>1, <1>2, PTL DEF Spec

\* The hooks' bookkeeping stays well typed.
THEOREM TypeCorrect == Spec => []TypeOK
<1>1. Inv => TypeOK
  BY DEF Inv
<1> QED  BY <1>1, RegistryIsSafeAlways, PTL

\* No caster ever stands for another record than the one at its slot, and none
\* is there before all the hooks are.
THEOREM RegistryStaysHonest == Spec => []RegistryIsHonest
<1>1. Inv => RegistryIsHonest
  BY DEF Inv
<1> QED  BY <1>1, RegistryIsSafeAlways, PTL

\* Each pass gets each caster once, and the right ones.
THEOREM PassStaysRight == Spec => []PassIsRight
<1>1. Inv => PassIsRight
  BY DEF Inv
<1> QED  BY <1>1, RegistryIsSafeAlways, PTL
-----------------------------------------------------------------------------
(* Every shadow is drawn once.                                             *)

\* Before SC4 starts no shadow is drawn at all.
LEMMA InitOnce == Init => Once
<1> SUFFICES ASSUME Init PROVE Once
  OBVIOUS
<1>1. \A i \in Ids : records[i] = None /\ casters[i] = None
  BY DEF Init, NoRecords, NoCasters
<1>2. "AddShadow" \notin sites /\ pass = <<>> /\ Len(pass) = 0
  BY EmptySeq DEF Init
<1>3. InstalledWhole /\ PassInTime /\ CallIsUnasked
  BY <1>2 DEF Init, InstalledWhole, PassInTime, CallIsUnasked, Paused
<1>4. SerialsMeanJoined /\ CastersFit /\ CastersStay /\ OneDrawer
  BY <1>1 DEF Init, SerialsMeanJoined, CastersFit, CastersStay, OneDrawer
<1>5. EveryShadowOnce
  BY <1>1 DEF Init, EveryShadowOnce, NothingLost, OnlyTheRestIsNative
<1> QED  BY <1>3, <1>4, <1>5 DEF Once

\* With no city there is nothing to draw, nor a registry that has forgotten.
LEMMA InstallOnce ==
  ASSUME Inv, Once, OnStart \/ PreAppShutdown
  PROVE  Once'
<1>1. /\ call = None /\ records = NoRecords /\ city = None
      /\ UNCHANGED <<paused, records, births, call, city, frame, failed>>
  BY DEF Inv, HooksTogether, OnStart, PreAppShutdown, game
<1>2. ~drawing /\ asked = {} /\ native = {} /\ withheld = {} /\ unfiltered = {}
  BY <1>1 DEF Once, PassInTime
<1>3. casters' = NoCasters
  <2>1. casters = NoCasters \/ Forget
    <3>1. CASE OnStart
      BY <3>1, AddShadowIsLast DEF OnStart, Inv, HooksTogether, RegistryIsHonest
    <3>2. CASE PreAppShutdown
      BY <3>2, AddShadowIsLast DEF PreAppShutdown, Inv, RegistryIsHonest, Once, InstalledWhole
    <3> QED  BY <3>1, <3>2
  <2>2. Forget \/ UNCHANGED <<registry, gathered>>
    BY DEF OnStart, Install, PreAppShutdown
  <2> QED  BY <2>1, <2>2 DEF Forget, registry
<1>4. InstalledWhole'
  <2>1. CASE OnStart
    <3>1. app = "before" /\ app' = "running" /\ ~installed /\ "AddShadow" \notin sites
      BY <2>1 DEF OnStart, Inv, TypeOK, HooksTogether, Once, InstalledWhole
    <3>2. CASE hooks' /\ Install
      <4>1. CASE UNCHANGED <<sites, installed, registry, gathered>>
        BY <3>1, <4>1 DEF InstalledWhole
      <4>2. CASE (\E n \in 0 .. Len(Sites) - 1 : sites' \in SUBSET Written(n))
                 /\ UNCHANGED installed
        BY <3>1, <4>2, AddShadowIsLast DEF InstalledWhole
      <4>3. CASE sites' = AllSites /\ installed' = TRUE
        BY <3>1, <3>2, <4>3 DEF InstalledWhole
      <4> QED  BY <3>2, <4>1, <4>2, <4>3 DEF Install
    <3>3. CASE UNCHANGED <<sites, installed, registry, gathered>>
      BY <3>1, <3>3 DEF InstalledWhole
    <3> QED  BY <2>1, <3>2, <3>3 DEF OnStart
  <2>2. CASE PreAppShutdown
    BY <2>2 DEF PreAppShutdown, InstalledWhole, Inv, TypeOK
  <2> QED  BY <2>1, <2>2
<1>5. \A i \in Ids : records'[i] = None /\ casters'[i] = None
  BY <1>1, <1>3 DEF NoRecords, NoCasters
<1>6. /\ call' = None /\ ~drawing' /\ asked' = {} /\ native' = {} /\ withheld' = {}
      /\ unfiltered' = {}
  BY <1>1, <1>2 DEF frame
<1>7. PassInTime' /\ CallIsUnasked' /\ SerialsMeanJoined'
  BY <1>3, <1>5, <1>6 DEF PassInTime, CallIsUnasked, SerialsMeanJoined
<1>8. CastersFit' /\ CastersStay' /\ OneDrawer'
  BY <1>5, <1>6 DEF CastersFit, CastersStay, OneDrawer
<1>9. EveryShadowOnce'
  BY <1>6 DEF EveryShadowOnce, NothingLost, OnlyTheRestIsNative
<1> QED  BY <1>4, <1>7, <1>8, <1>9 DEF Once

\* A city opens or closes between two passes.
LEMMA CityOnce ==
  ASSUME Inv, Once, (\E m \in Managers : OpenCity(m)) \/ CloseCity
  PROVE  Once'
<1>1. /\ call = None /\ ~drawing /\ records' = NoRecords
      /\ UNCHANGED <<app, hooks, sites, installed, paused, births, call, casters, manager, pass,
                     passValid, passSerial, dropped, propMeshes, drawing, asked, native, withheld,
                     unfiltered, failed>>
  BY DEF OpenCity, CloseCity, install, registry, gathered, frame
<1>2. asked = {} /\ native = {} /\ withheld = {}
  BY <1>1 DEF Once, PassInTime
<1>3. \A i \in Ids : records'[i] = None
  BY <1>1 DEF NoRecords
<1>4. InstalledWhole' /\ PassInTime' /\ CallIsUnasked'
  BY <1>1, <1>2 DEF Once, InstalledWhole, PassInTime, CallIsUnasked
<1>5. SerialsMeanJoined'
  BY <1>1 DEF Once, SerialsMeanJoined
<1>6. CastersFit' /\ CastersStay' /\ OneDrawer'
  BY <1>1, <1>2, <1>3 DEF Once, CastersFit, CastersStay, OneDrawer
<1>7. EveryShadowOnce'
  BY <1>1, <1>2, <1>3 DEF EveryShadowOnce, NothingLost, OnlyTheRestIsNative
<1> QED  BY <1>4, <1>5, <1>6, <1>7 DEF Once

\* TogglePause, BeginPass, and AddShadow where no record is made.
LEMMA QuietOnce ==
  ASSUME Inv, Once,
         \/ TogglePause \/ BeginPass \/ UNCHANGED vars
         \/ \E o \in Occupants : SuppressAddShadow(o) \/ RejectedAddShadow(o)
  PROVE  Once'
<1>1. /\ UNCHANGED <<app, hooks, sites, installed, city, records, births, call, casters, manager,
                     pass, passValid, passSerial, dropped, asked, native, withheld, unfiltered, failed>>
      /\ propMeshes \subseteq propMeshes'
  BY DEF TogglePause, BeginPass, SuppressAddShadow, RejectedAddShadow, vars, install, game,
     registry, gathered, frame
<1>2. \/ UNCHANGED paused
      \/ UNCHANGED drawing /\ asked = {} /\ native = {} /\ withheld = {}
  BY DEF TogglePause, BeginPass, SuppressAddShadow, RejectedAddShadow, vars, frame, Once,
     PassInTime
<1>3. UNCHANGED drawing \/ (UNCHANGED paused /\ drawing' = TRUE /\ city # None)
  BY DEF TogglePause, BeginPass, SuppressAddShadow, RejectedAddShadow, vars, frame
<1>4. InstalledWhole' /\ CallIsUnasked' /\ SerialsMeanJoined'
  BY <1>1 DEF Once, InstalledWhole, CallIsUnasked, SerialsMeanJoined
<1>5. PassInTime'
  BY <1>1, <1>2, <1>3 DEF Once, PassInTime, Paused
<1>6. CastersFit' /\ CastersStay' /\ OneDrawer'
  <2>1. CastersFit'
    BY <1>1 DEF Once, CastersFit, HasCaster
  <2>2. CastersStay'
    BY <1>1 DEF Once, CastersStay, HasCaster, Adding
  <2>3. OneDrawer'
    BY <1>1, <1>2 DEF Once, OneDrawer, Paused
  <2> QED  BY <2>1, <2>2, <2>3
<1>7. NothingLost'
  BY <1>1 DEF Once, EveryShadowOnce, NothingLost
<1>8. OnlyTheRestIsNative'
  BY <1>1, <1>2 DEF Once, EveryShadowOnce, OnlyTheRestIsNative, Paused
<1> QED  BY <1>4, <1>5, <1>6, <1>7, <1>8 DEF Once, EveryShadowOnce

\* FreeSilently, Show and RemoveOverlay: a record that stays keeps its caster.
LEMMA LoseOnce ==
  ASSUME Inv, Once, NEW id \in Ids, FreeSilently(id) \/ Show(id) \/ RemoveOverlay(id)
  PROVE  Once'
<1>1. /\ call = None /\ records[id] # None /\ records[id] \in Record
      /\ UNCHANGED <<app, hooks, sites, installed, paused, city, births, call, manager, pass,
                     passValid, passSerial, dropped, propMeshes, drawing, asked, native, withheld,
                     unfiltered, failed>>
  BY DEF FreeSilently, Show, RemoveOverlay, install, registry, gathered, frame, Inv, TypeOK
<1>2. ASSUME NEW i \in Ids, records'[i] # None
      PROVE  /\ records[i] # None /\ records'[i].birth = records[i].birth
             /\ records'[i].of = records[i].of /\ casters'[i] = casters[i]
  <2>1. CASE FreeSilently(id) \/ RemoveOverlay(id)
    BY <1>2, <2>1 DEF FreeSilently, RemoveOverlay, registry, Inv, TypeOK
  <2>2. CASE Show(id)
    <3>1. i # id => records'[i] = records[i]
      BY <2>2 DEF Show, Inv, TypeOK
    <3>2. records'[id] = [records[id] EXCEPT !.shown = ~records[id].shown]
      BY <2>2 DEF Show, Inv, TypeOK
    <3> QED  BY <1>1, <1>2, <2>2, <3>1, <3>2 DEF Record, Show, registry
  <2> QED  BY <2>1, <2>2
<1>3. \A i \in Ids : casters'[i] = casters[i] \/ casters'[i] = None
  BY DEF FreeSilently, Show, RemoveOverlay, registry, Inv, TypeOK
<1>4. InstalledWhole' /\ PassInTime' /\ CallIsUnasked'
  BY <1>1 DEF Once, InstalledWhole, PassInTime, CallIsUnasked, Paused
<1>5. SerialsMeanJoined'
  BY <1>1, <1>3 DEF Once, SerialsMeanJoined
<1>6. CastersFit'
  BY <1>1, <1>2, <1>3 DEF Once, CastersFit, HasCaster
<1>7. CastersStay'
  BY <1>1, <1>2 DEF Once, CastersStay, HasCaster, Adding
<1>8. OneDrawer'
  BY <1>1, <1>3 DEF Once, OneDrawer, Paused
<1>9. EveryShadowOnce'
  BY <1>1, <1>2 DEF Once, EveryShadowOnce, NothingLost, OnlyTheRestIsNative, Paused
<1> QED  BY <1>4, <1>5, <1>6, <1>7, <1>8, <1>9 DEF Once

\* A new record is not asked for, drawn, withheld or gathered.  SC4 would shadow
\* it, or AddShadow is about to register it.
LEMMA MakeOnce ==
  ASSUME Inv, Once, NEW id \in Ids, NEW o \in Occupants \cup {Decal}, NEW shown \in BOOLEAN,
         NEW textured \in BOOLEAN, Make(id, o, shown, textured),
         o = Decal \/ ~IsRelaxed(o) \/ Adding(id)', call' # None => Adding(id)',
         UNCHANGED <<app, hooks, sites, installed, paused, casters, manager, pass, passValid,
                     passSerial, dropped, propMeshes, frame, failed>>
  PROVE  Once'
<1>1. /\ call = None /\ births' = births + 1 /\ births \in Nat /\ city' = city
      /\ records'[id].birth = births + 1 /\ records'[id].of = o
      /\ \A j \in Ids \ {id} : records'[j] = records[j]
  <2>1. births \in Nat
    BY BoundsAssumption DEF Inv, TypeOK
  <2>2. call = None /\ city' = city
    BY DEF Make
  <2>3. /\ births' = births + 1
        /\ records'[id] = [of |-> o, birth |-> births + 1, shown |-> shown,
                           textured |-> textured]
        /\ \A j \in Ids \ {id} : records'[j] = records[j]
    BY MakeType DEF Inv
  <2> QED  BY <2>1, <2>2, <2>3
<1>2. UNCHANGED <<drawing, asked, native, withheld, unfiltered>>
  BY DEF frame
<1>3. /\ \A b \in asked \cup native \cup withheld : b \in Nat /\ b <= births
      /\ \A j \in Ids : casters[j] # None => casters[j].birth # records'[id].birth
      /\ \A i \in 1 .. Len(pass) : pass[i].caster # records'[id].birth
  <2>1. asked \subseteq Nat /\ native \subseteq Nat /\ withheld \subseteq Nat
    BY BoundsAssumption DEF Inv, TypeOK, Births
  <2>2. TypeOK /\ Rest
    BY DEF Inv, Rest
  <2> QED  BY <2>1, <2>2, MakeNumbers DEF Once, CallIsUnasked
<1>4. records'[id].birth \notin asked \cup native \cup withheld
  BY <1>1, <1>3
<1>5. InstalledWhole' /\ PassInTime'
  BY <1>1, <1>2 DEF Once, InstalledWhole, PassInTime, Paused
<1>6. CallIsUnasked'
  BY <1>1, <1>2, <1>3, <1>4 DEF CallIsUnasked, Adding
<1>7. SerialsMeanJoined'
  BY DEF Once, SerialsMeanJoined
<1>8. CastersFit'
  BY <1>1, <1>3 DEF Once, CastersFit, HasCaster
<1>9. CastersStay'
  <2>1. SUFFICES ASSUME NEW i \in Ids, records'[i] # None
                 PROVE  /\ records'[i].of # Decal /\ IsRelaxed(records'[i].of) /\ ~Adding(i)'
                             /\ records'[i].birth \notin failed => HasCaster(i)'
                        /\ records'[i].birth \in withheld => HasCaster(i)'
                        /\ \A k \in 1 .. Len(pass) :
                             pass[k].caster = records'[i].birth => HasCaster(i)'
    BY <1>2 DEF CastersStay
  <2>2. CASE i = id
    BY <1>1, <1>3, <1>4, <2>2
  <2>3. CASE i # id
    BY <1>1, <2>1, <2>3 DEF Once, CastersStay, HasCaster, Adding
  <2> QED  BY <2>2, <2>3
<1>10. OneDrawer'
  BY <1>1, <1>2 DEF Once, OneDrawer, Paused
<1>11. NothingLost'
  BY <1>1, <1>2, <1>4 DEF Once, EveryShadowOnce, NothingLost
<1>12. OnlyTheRestIsNative'
  BY <1>1, <1>2, <1>4 DEF Once, EveryShadowOnce, OnlyTheRestIsNative, Paused
<1> QED
  BY <1>5, <1>6, <1>7, <1>8, <1>9, <1>10, <1>11, <1>12 DEF Once, EveryShadowOnce

\* A decal SC4 makes is a birth of its own, which no pass and no caster knows yet.
LEMMA DecalOnce ==
  ASSUME Inv, Once, NEW id \in Ids, MakeDecal(id)
  PROVE  Once'
<1>1. Make(id, Decal, TRUE, TRUE) /\ call = None /\ UNCHANGED call
  BY DEF MakeDecal, Make
<1>2. UNCHANGED <<app, hooks, sites, installed, paused, casters, manager, pass, passValid,
                  passSerial, dropped, propMeshes, frame, failed>>
  BY DEF MakeDecal, install, registry, gathered
<1> QED  BY <1>1, <1>2, MakeOnce

\* A prop that SC4 would not shadow only gets a record for the registry.
LEMMA AddShadowOnce ==
  ASSUME Inv, Once, NEW o \in Occupants, NEW id \in Ids, NEW shown \in BOOLEAN,
         NEW textured \in BOOLEAN, AddShadow(o, id, shown, textured)
  PROVE  Once'
<1>1. /\ Make(id, o, shown, textured) /\ o \in Occupants \cup {Decal}
      /\ UNCHANGED <<app, hooks, sites, installed, paused, casters, manager, pass, passValid,
                     passSerial, dropped, propMeshes, frame, failed>>
  BY DEF AddShadow, install, registry, gathered
<1>2. CASE "AddShadow" \in sites
  <2>1. call' = [id |-> id, of |-> o, meshCaster |-> Expected(o)]
    BY <1>2 DEF AddShadow
  <2>2. call' \in Calls
    BY <2>1 DEF Calls, Expected, IsRelaxed, Inv, TypeOK
  <2>3. Adding(id)'
    BY <2>1, <2>2, NoneAssumption DEF Adding
  <2> QED  BY <1>1, <2>3, MakeOnce
<1>3. CASE "AddShadow" \notin sites
  <2>1. ~IsRelaxed(o)
    BY <1>3, AddShadowIsLast DEF AddShadow, Reaches, Once, InstalledWhole
  <2>2. call' = None
    BY <1>3 DEF AddShadow
  <2> QED  BY <1>1, <2>1, <2>2, MakeOnce
<1> QED  BY <1>2, <1>3

\* EndPass: what was gathered is taken, if anything was.
LEMMA EndOnce ==
  ASSUME Inv, Once, EndPass
  PROVE  Once'
<1>1. /\ UNCHANGED <<app, hooks, sites, installed, paused, city, records, births, call, casters,
                     manager, propMeshes, failed>>
      /\ drawing' = FALSE /\ asked' = {} /\ native' = {} /\ withheld' = {} /\ unfiltered' = {}
  BY DEF EndPass, install, game, registry
<1>2. (\A i \in 1 .. Len(pass') : FALSE) \/ UNCHANGED pass
  BY NothingJoined DEF EndPass, TakePass, gathered
<1>3. passSerial' = passSerial + 1 \/ UNCHANGED <<pass, passSerial, dropped>>
  BY DEF EndPass, TakePass, gathered
<1>4. \A j \in Ids : casters[j] # None => casters[j].passSerial \in Nat /\ passSerial \in Nat
  BY DEF Inv, TypeOK, Entry
<1>5. SerialsMeanJoined'
  <2>1. CASE passSerial' = passSerial + 1
    BY <1>1, <1>4, <2>1 DEF Once, SerialsMeanJoined
  <2>2. CASE UNCHANGED <<pass, passSerial, dropped>>
    BY <1>1, <2>2 DEF Once, SerialsMeanJoined
  <2> QED  BY <1>3, <2>1, <2>2
<1>6. InstalledWhole' /\ PassInTime' /\ CallIsUnasked'
  BY <1>1, <1>2 DEF Once, InstalledWhole, PassInTime, CallIsUnasked
<1>7. CastersFit'
  BY <1>1 DEF Once, CastersFit, HasCaster
<1>8. CastersStay'
  BY <1>1, <1>2 DEF Once, CastersStay, HasCaster, Adding
<1>9. OneDrawer' /\ EveryShadowOnce'
  BY <1>1 DEF OneDrawer, EveryShadowOnce, NothingLost, OnlyTheRestIsNative
<1> QED  BY <1>5, <1>6, <1>7, <1>8, <1>9 DEF Once

\* Register and FailToRegister: a registry that turns to SC4's manager forgets
\* everything; else only the call's slot changes.
LEMMA RegisterKeeps ==
  ASSUME Inv, (\E indexed \in BOOLEAN : Register(indexed)) \/ FailToRegister
  PROVE  /\ call # None /\ call' = None /\ call.id \in Ids
         /\ records[call.id] # None /\ records[call.id].of = call.of
         /\ \A j \in Ids \ {call.id} :
              /\ casters'[j] # None => casters'[j] = casters[j]
              /\ manager = city => casters'[j] = casters[j]
         /\ \/ UNCHANGED <<pass, passSerial, dropped>>
            \/ pass' = <<>> /\ manager # city /\ \A j \in Ids \ {call.id} : casters'[j] = None
         /\ manager = city => manager' = city
         /\ UNCHANGED passValid
         /\ \/ \E indexed \in BOOLEAN :
                 /\ Register(indexed) /\ manager' = city /\ casters'[call.id] # None
                 /\ casters'[call.id] =
                      [of |-> call.of, birth |-> records[call.id].birth,
                       suppressOnly |-> Suppressed(indexed), passSerial |-> 0]
            \/ FailToRegister /\ casters'[call.id] = None
<1>1. /\ call # None /\ call' = None /\ call.id \in Ids
      /\ records[call.id] # None /\ records[call.id].of = call.of /\ city # None
  BY DEF Register, FailToRegister, Inv, TypeOK, Calls, HooksTogether
<1>2. casters \in [Ids -> Entry \cup {None}]
  BY DEF Inv, TypeOK
<1>3. ASSUME NEW e, casters' = [SwitchManager(city) EXCEPT ![call.id] = e], Switch(city)
      PROVE  /\ \A j \in Ids \ {call.id} :
                  /\ casters'[j] # None => casters'[j] = casters[j]
                  /\ manager = city => casters'[j] = casters[j]
             /\ \/ UNCHANGED <<pass, passSerial, dropped>> /\ manager = city
                \/ pass' = <<>> /\ manager # city /\ \A j \in Ids \ {call.id} : casters'[j] = None
             /\ manager' = city /\ UNCHANGED passValid /\ casters'[call.id] = e
  <2>1. CASE manager = city
    BY <1>1, <1>2, <1>3, <2>1 DEF SwitchManager, Switch, gathered
  <2>2. CASE manager # city
    BY <1>1, <1>3, <2>2 DEF SwitchManager, Switch, NoCasters
  <2> QED  BY <2>1, <2>2
<1>4. ASSUME NEW indexed \in BOOLEAN, Register(indexed)
      PROVE  casters' = [SwitchManager(city) EXCEPT ![call.id] =
                           [of |-> call.of, birth |-> records[call.id].birth,
                            suppressOnly |-> Suppressed(indexed), passSerial |-> 0]]
             /\ Switch(city)
             /\ [of |-> call.of, birth |-> records[call.id].birth,
                 suppressOnly |-> Suppressed(indexed), passSerial |-> 0] # None
  <2>1. call \in Calls /\ records[call.id] \in Record
    BY <1>1 DEF Inv, TypeOK
  <2>2. [of |-> call.of, birth |-> records[call.id].birth, suppressOnly |-> Suppressed(indexed),
         passSerial |-> 0] \in Entry
    BY <2>1 DEF Calls, Record, Entry, Suppressed
  <2> QED  BY <1>4, <2>2, NoneAssumption DEF Register
<1>5. CASE \E indexed \in BOOLEAN : Register(indexed)
  BY <1>1, <1>3, <1>4, <1>5
<1>6. CASE FailToRegister
  <2>1. CASE casters' = [casters EXCEPT ![call.id] = None] /\ UNCHANGED <<manager, gathered>>
    BY <1>1, <1>2, <1>6, <2>1 DEF gathered
  <2>2. CASE casters' = [SwitchManager(city) EXCEPT ![call.id] = None] /\ Switch(city)
    BY <1>1, <1>3, <1>6, <2>2
  <2> QED  BY <1>6, <2>1, <2>2 DEF FailToRegister
<1> QED  BY <1>5, <1>6

\* The call's record gets its caster, or is known to have none.
LEMMA RegisterOnce ==
  ASSUME Inv, Once, (\E indexed \in BOOLEAN : Register(indexed)) \/ FailToRegister
  PROVE  Once'
<1>1. /\ call # None /\ call' = None /\ call.id \in Ids
      /\ records[call.id] # None /\ records[call.id].of = call.of
      /\ \A j \in Ids \ {call.id} :
           /\ casters'[j] # None => casters'[j] = casters[j]
           /\ manager = city => casters'[j] = casters[j]
      /\ manager = city => manager' = city
      /\ UNCHANGED passValid
  BY RegisterKeeps
<1>2. \/ UNCHANGED <<pass, passSerial, dropped>>
      \/ /\ pass' = <<>> /\ Len(pass') = 0 /\ manager # city
         /\ \A j \in Ids \ {call.id} : casters'[j] = None
  BY RegisterKeeps, EmptySeq
<1>3. \/ \E indexed \in BOOLEAN :
           /\ Register(indexed) /\ manager' = city /\ casters'[call.id] # None
           /\ casters'[call.id] =
                [of |-> call.of, birth |-> records[call.id].birth,
                 suppressOnly |-> Suppressed(indexed), passSerial |-> 0]
      \/ FailToRegister /\ casters'[call.id] = None
  BY RegisterKeeps
<1>4. \/ /\ casters'[call.id] # None /\ casters'[call.id].birth = records[call.id].birth
          /\ casters'[call.id].passSerial = 0
       \/ /\ casters'[call.id] = None /\ records[call.id].birth \in failed'
  <2>1. ASSUME NEW e, casters'[call.id] =
                 [of |-> call.of, birth |-> records[call.id].birth, suppressOnly |-> e,
                  passSerial |-> 0]
        PROVE  /\ casters'[call.id].birth = records[call.id].birth
               /\ casters'[call.id].passSerial = 0
    BY <2>1
  <2> QED  BY <1>3, <2>1 DEF FailToRegister
<1>5. /\ UNCHANGED <<app, hooks, sites, installed, paused, city, records, births, drawing, asked,
                     native, withheld, unfiltered>>
      /\ propMeshes \subseteq propMeshes' /\ failed \subseteq failed'
      /\ passSerial' \in Nat \ {0}
  <2>1. [Next]_vars
    BY DEF Next
  <2>2. TypeOK'
    BY <2>1, TypeStep DEF Inv
  <2> QED  BY <2>2 DEF Register, FailToRegister, install, game, frame, TypeOK
<1>6. records[call.id].birth \notin asked \cup native \cup withheld
  BY <1>1 DEF Once, CallIsUnasked
<1>7. \A i \in 1 .. Len(pass') : pass'[i] = pass[i] /\ i \in 1 .. Len(pass)
  BY <1>2
<1>8. InstalledWhole' /\ CallIsUnasked'
  BY <1>1, <1>5 DEF Once, InstalledWhole, CallIsUnasked
<1>9. PassInTime'
  BY <1>1, <1>2, <1>5 DEF Once, PassInTime, Paused
<1>10. SerialsMeanJoined'
  <2>1. SUFFICES ASSUME NEW j \in Ids, casters'[j] # None
                 PROVE  /\ casters'[j].passSerial <= passSerial'
                        /\ casters'[j].passSerial = passSerial' =>
                             \/ \E i \in 1 .. Len(pass') : pass'[i].caster = casters'[j].birth
                             \/ casters'[j].birth \in dropped'
    BY DEF SerialsMeanJoined
  <2>2. CASE j = call.id
    <3>1. casters'[j].passSerial = 0
      BY <1>4, <2>1, <2>2
    <3> QED  BY <1>5, <3>1
  <2>3. CASE j # call.id
    <3>1. casters'[j] = casters[j] /\ UNCHANGED <<pass, passSerial, dropped>>
      BY <1>1, <1>2, <2>1, <2>3
    <3> QED  BY <2>1, <3>1 DEF Once, SerialsMeanJoined
  <2> QED  BY <2>2, <2>3
<1>11. CastersFit'
  <2>1. SUFFICES ASSUME NEW id \in Ids, casters'[id] # None
                 PROVE  /\ records[id] # None /\ casters'[id].birth = records[id].birth =>
                             casters'[id].of = records[id].of /\ manager' = city
                        /\ casters'[id].suppressOnly =>
                             \/ Kind[casters'[id].of] = "floating"
                             \/ casters'[id].of \in propMeshes'
    BY <1>5 DEF CastersFit, HasCaster
  <2>2. CASE id = call.id
    <3>1. PICK indexed \in BOOLEAN :
            /\ Register(indexed) /\ manager' = city
            /\ casters'[call.id] = [of |-> call.of, birth |-> records[call.id].birth,
                                    suppressOnly |-> Suppressed(indexed), passSerial |-> 0]
      BY <1>3, <2>1, <2>2
    <3>2. casters'[id].of = call.of /\ casters'[id].suppressOnly = Suppressed(indexed)
      BY <2>2, <3>1
    <3>3. Suppressed(indexed) => Kind[call.of] = "floating" \/ call.of \in propMeshes'
      BY <3>1 DEF Suppressed, CastsPerDraw, Register
    <3> QED  BY <1>1, <2>2, <3>1, <3>2, <3>3
  <2>3. CASE id # call.id
    <3>1. casters'[id] = casters[id]
      BY <1>1, <2>1, <2>3
    <3> QED  BY <1>1, <1>5, <2>1, <3>1 DEF Once, CastersFit, HasCaster
  <2> QED  BY <2>2, <2>3
<1>12. CastersStay'
  <2>1. SUFFICES ASSUME NEW id \in Ids, records[id] # None
                 PROVE  /\ records[id].of # Decal /\ IsRelaxed(records[id].of)
                             /\ records[id].birth \notin failed' => HasCaster(id)'
                        /\ records[id].birth \in withheld => HasCaster(id)'
                        /\ \A i \in 1 .. Len(pass') :
                             pass'[i].caster = records[id].birth => HasCaster(id)'
    BY <1>1, <1>5 DEF CastersStay, Adding
  <2>2. CASE id = call.id
    <3>1. records[id].birth \notin failed' => HasCaster(id)'
      BY <1>5, <1>4, <2>2 DEF HasCaster
    <3>2. records[id].birth \notin withheld
      BY <1>6, <2>2
    <3>3. \A i \in 1 .. Len(pass') : pass'[i].caster # records[id].birth
      BY <1>1, <1>7, <2>2 DEF Inv, CallIsFresh
    <3> QED  BY <3>1, <3>2, <3>3
  <2>3. CASE id # call.id
    <3>1. HasCaster(id) => HasCaster(id)'
      BY <1>1, <1>5, <2>1, <2>3 DEF Once, CastersFit, HasCaster
    <3>2. ~Adding(id)
      BY <1>1, <2>3 DEF Adding
    <3> QED  BY <1>5, <1>7, <2>1, <3>1, <3>2 DEF Once, CastersStay
  <2> QED  BY <2>2, <2>3
<1>13. OneDrawer'
  <2>1. manager' # city => asked \subseteq native \cup withheld
    BY <1>1 DEF Once, OneDrawer
  <2>2. ASSUME ~Paused, NEW j \in Ids, casters'[j] # None
        PROVE  casters'[j].birth \notin native \ unfiltered
    <3>1. CASE j = call.id
      BY <1>6, <1>4, <2>2, <3>1
    <3>2. CASE j # call.id
      BY <1>1, <2>2, <3>2 DEF Once, OneDrawer
    <3> QED  BY <3>1, <3>2
  <2> QED  BY <1>5, <2>1, <2>2 DEF OneDrawer, Paused
<1>14. NothingLost'
  <2>1. \A b \in asked \ (native \cup withheld \cup dropped') :
          \E i \in 1 .. Len(pass') : pass'[i].caster = b
    BY <1>2 DEF Once, OneDrawer, EveryShadowOnce, NothingLost
  <2> QED  BY <1>5, <2>1 DEF Once, EveryShadowOnce, NothingLost
<1>15. OnlyTheRestIsNative'
  BY <1>5, <1>7 DEF Once, EveryShadowOnce, OnlyTheRestIsNative, Paused
<1> QED
  BY <1>8, <1>9, <1>10, <1>11, <1>12, <1>13, <1>14, <1>15 DEF Once, EveryShadowOnce

\* A shadow with something to draw has its own caster at its slot, or none.
LEMMA DrawableIsKnown ==
  ASSUME Inv, Once, NEW id \in Ids, records[id] # None, Drawable(id), manager = city,
         casters[id] # None
  PROVE  HasCaster(id) /\ casters[id].of = records[id].of /\ ~IsStale(id)
<1>1. HasCaster(id)
  BY DEF Inv, RegistryIsHonest, Drawable, HasCaster
<1>2. casters[id].of = records[id].of
  BY <1>1 DEF Once, CastersFit
<1> QED  BY <1>1, <1>2 DEF IsStale

\* What SC4 is left of a draw has no caster; what it is kept from has one.
LEMMA GatherDraws ==
  ASSUME Inv, Once, NEW S \in SUBSET Ids, NEW seen, \A id \in S : records[id] # None,
         manager = city
  PROVE  /\ \A b \in Shadows(Kept(S, seen)) : \E id \in S :
              Drawable(id) /\ records[id].birth = b /\ casters[id] = None
         /\ \A b \in Shadows(Withheld(S, seen)) : \E id \in S :
              /\ Drawable(id) /\ records[id].birth = b
              /\ HasCaster(id) /\ casters[id].suppressOnly
         /\ \A b \in Shadows({id \in S : records[id].of \in seen}) :
              \/ b \in Shadows(Kept(S, seen)) \cup Shadows(Withheld(S, seen))
              \/ \E id \in S :
                   /\ records[id].birth = b /\ HasCaster(id)
                   /\ id \in Joining(S, seen) \/ casters[id].passSerial = passSerial
<1>1. ASSUME NEW id \in Kept(S, seen), Drawable(id)
      PROVE  id \in S /\ casters[id] = None
  <2>1. SUFFICES ASSUME casters[id] # None, id \in S PROVE FALSE
    BY DEF Kept, Stale, Enabled, InView, Ours
  <2>2. ~IsStale(id)
    BY <1>1, <2>1, DrawableIsKnown
  <2>3. id \in (Enabled(S, seen) \ Withheld(S, seen)) \ Cast(S, seen)
    BY <2>1, <2>2 DEF Kept, Stale, Ours
  <2> QED  BY <1>1, <2>3 DEF Cast, Drawable
<1>2. ASSUME NEW id \in Withheld(S, seen), Drawable(id)
      PROVE  id \in S /\ HasCaster(id) /\ casters[id].suppressOnly
  <2>1. id \in S /\ casters[id] # None /\ casters[id].suppressOnly
    BY DEF Withheld, Enabled, InView, Ours
  <2> QED  BY <1>2, <2>1, DrawableIsKnown
<1>3. ASSUME NEW id \in S, records[id].of \in seen, Drawable(id)
      PROVE  \/ id \in Kept(S, seen) \cup Withheld(S, seen)
             \/ HasCaster(id) /\ (id \in Joining(S, seen) \/ casters[id].passSerial = passSerial)
  <2>1. CASE casters[id] = None
    BY <2>1 DEF Kept, Ours
  <2>2. CASE casters[id] # None
    <3>1. HasCaster(id) /\ casters[id].of = records[id].of /\ ~IsStale(id)
      BY <1>3, <2>2, DrawableIsKnown
    <3>2. records[id].shown /\ records[id].textured
      BY <1>3 DEF Drawable
    <3>3. id \in InView(S, seen)
      BY <1>3, <2>2, <3>1 DEF InView, Ours
    <3>4. id \in Enabled(S, seen)
      BY <3>1, <3>2, <3>3 DEF Enabled, Stale
    <3>5. id \in Withheld(S, seen) \cup Cast(S, seen)
      BY <3>2, <3>4 DEF Cast
    <3> QED  BY <3>1, <3>5 DEF Joining
  <2> QED  BY <2>1, <2>2
<1>4. ASSUME NEW R, NEW b \in Shadows(R)
      PROVE  \E id \in R : Drawable(id) /\ records[id].birth = b
  BY <1>4 DEF Shadows
<1>5. ASSUME NEW R, NEW id \in R, Drawable(id)
      PROVE  records[id].birth \in Shadows(R)
  BY <1>5 DEF Shadows
<1>6. ASSUME NEW b \in Shadows({id \in S : records[id].of \in seen})
      PROVE  \/ b \in Shadows(Kept(S, seen)) \cup Shadows(Withheld(S, seen))
             \/ \E id \in S :
                  /\ records[id].birth = b /\ HasCaster(id)
                  /\ id \in Joining(S, seen) \/ casters[id].passSerial = passSerial
  <2>1. PICK id \in S : records[id].of \in seen /\ Drawable(id) /\ records[id].birth = b
    BY <1>4, <1>6
  <2> QED  BY <1>3, <1>5, <2>1
<1> QED  BY <1>1, <1>2, <1>4, <1>6

\* What casters that join leave of the others, and what they add to the pass.
LEMMA JoinKeeps ==
  ASSUME Inv, NEW E, NEW N, NEW J, Joinable(N), J \subseteq N, Join(E, N, J)
  PROVE  /\ \A id \in Ids :
              /\ casters[id] # None /\ id \notin E => casters'[id] # None
              /\ casters'[id] # None =>
                   /\ casters[id] # None /\ casters'[id].birth = casters[id].birth
                   /\ casters'[id].of = casters[id].of
                   /\ casters'[id].suppressOnly = casters[id].suppressOnly
                   /\ casters'[id].passSerial =
                        IF id \in N THEN passSerial ELSE casters[id].passSerial
         /\ \A i \in 1 .. Len(pass) : i \in 1 .. Len(pass') /\ pass'[i] = pass[i]
         /\ \A i \in 1 .. Len(pass') :
              \/ i \in 1 .. Len(pass) /\ pass'[i] = pass[i]
              \/ \E id \in J : pass'[i].caster = casters[id].birth
         /\ \A id \in J :
              \E i \in 1 .. Len(pass') : pass'[i].caster = casters[id].birth
<1> DEFINE new == AsSeq(J)
<1>1. TypeOK
  BY DEF Inv
<1>2. ASSUME NEW id \in Ids
      PROVE  /\ casters[id] # None /\ id \notin E => casters'[id] # None
             /\ casters'[id] # None =>
                  /\ casters[id] # None /\ casters'[id].birth = casters[id].birth
                  /\ casters'[id].of = casters[id].of
                  /\ casters'[id].suppressOnly = casters[id].suppressOnly
                  /\ casters'[id].passSerial =
                       IF id \in N THEN passSerial ELSE casters[id].passSerial
  <2>1. casters[id] \in Entry \cup {None} /\ passSerial \in Nat
    BY <1>1 DEF TypeOK
  <2>2. CASE id \in E
    BY <2>2 DEF Join
  <2>3. CASE id \notin E /\ id \in N
    <3>1. casters[id] # None /\ casters[id] \in Entry
      BY <2>3 DEF Joinable
    <3>2. casters'[id] = [casters[id] EXCEPT !.passSerial = passSerial]
      BY <2>3 DEF Join
    <3>3. casters'[id] \in Entry
      BY <2>1, <3>1, <3>2 DEF Entry
    <3> QED  BY <2>1, <2>3, <3>1, <3>2, <3>3, NoneAssumption DEF Entry
  <2>4. CASE id \notin E /\ id \notin N
    BY <2>1, <2>4 DEF Join
  <2> QED  BY <2>2, <2>3, <2>4
<1>3. /\ Len(pass) \in Nat /\ Len(new) \in Nat /\ Len(pass') = Len(pass) + Len(new)
      /\ \A i \in 1 .. Len(pass') :
           pass'[i] = IF i <= Len(pass) THEN pass[i] ELSE new[i - Len(pass)]
  <2>1. /\ new \in Seq(PassCaster) /\ Len(pass') = Len(pass) + Len(new)
        /\ \A i \in 1 .. Len(pass') :
             pass'[i] = IF i <= Len(pass) THEN pass[i] ELSE new[i - Len(pass)]
    BY <1>1, JoinType
  <2>2. Len(pass) \in Nat
    BY <1>1, LenProperties DEF TypeOK
  <2>3. Len(new) \in Nat
    BY <2>1, LenProperties
  <2> QED  BY <2>1, <2>2, <2>3
<1>4. /\ \A i \in 1 .. Len(new) : \E id \in J : new[i].caster = casters[id].birth
      /\ \A id \in J : \E i \in 1 .. Len(new) : new[i].caster = casters[id].birth
  <2>1. IsFiniteSet(PassCasters(J))
    BY PassCastersFinite DEF Joinable
  <2>2. /\ \A i \in 1 .. Len(new) : new[i] \in PassCasters(J)
        /\ \A x \in PassCasters(J) : \E i \in 1 .. Len(new) : new[i] = x
    BY <2>1, SetToSeqLists DEF AsSeq
  <2> HIDE DEF new
  <2>3. ASSUME NEW x \in PassCasters(J) PROVE \E id \in J : x.caster = casters[id].birth
    BY <2>3 DEF PassCasters
  <2>4. ASSUME NEW id \in J PROVE \E x \in PassCasters(J) : x.caster = casters[id].birth
    <3> DEFINE x == [caster |-> casters[id].birth, record |-> records[id].birth,
                     adding |-> Adding(id)]
    <3>1. x \in PassCasters(J)
      BY DEF PassCasters
    <3>2. x.caster = casters[id].birth
      OBVIOUS
    <3> QED  BY <3>1, <3>2
  <2> QED  BY <2>2, <2>3, <2>4
<1> HIDE DEF new
<1>5. \A i \in 1 .. Len(pass) : i \in 1 .. Len(pass') /\ pass'[i] = pass[i]
  BY <1>3
<1>6. ASSUME NEW i \in 1 .. Len(pass')
      PROVE  \/ i \in 1 .. Len(pass) /\ pass'[i] = pass[i]
             \/ \E id \in J : pass'[i].caster = casters[id].birth
  <2>1. CASE i <= Len(pass)
    BY <1>3, <2>1
  <2>2. CASE ~(i <= Len(pass))
    <3>1. i - Len(pass) \in 1 .. Len(new) /\ pass'[i] = new[i - Len(pass)]
      BY <1>3, <2>2
    <3> QED  BY <1>4, <3>1
  <2> QED  BY <2>1, <2>2
<1>7. ASSUME NEW id \in J
      PROVE  \E i \in 1 .. Len(pass') : pass'[i].caster = casters[id].birth
  <2>1. PICK k \in 1 .. Len(new) : new[k].caster = casters[id].birth
    BY <1>4
  <2>2. Len(pass) + k \in 1 .. Len(pass') /\ pass'[Len(pass) + k] = new[k]
    BY <1>3
  <2> QED  BY <2>1, <2>2
<1> QED  BY <1>2, <1>5, <1>6, <1>7

\* What a draw that the registry attends to leaves of the invariant: serials that
\* mean something, records that keep their casters, and a pass that only grows,
\* by casters.
CastersKept ==
  /\ SerialsMeanJoined' /\ CastersFit'
  /\ \A id \in Ids : casters'[id] # None =>
       casters[id] # None /\ casters'[id].birth = casters[id].birth
  /\ \A id \in Ids : records[id] # None /\ HasCaster(id) => HasCaster(id)'
  /\ \A id \in Ids, i \in 1 .. Len(pass') :
       records[id] # None /\ pass'[i].caster = records[id].birth => HasCaster(id)
  /\ \A i \in 1 .. Len(pass) : i \in 1 .. Len(pass') /\ pass'[i] = pass[i]
  /\ \A i \in 1 .. Len(pass') :
       \/ i \in 1 .. Len(pass) /\ pass'[i] = pass[i]
       \/ \E id \in Ids : casters[id] # None /\ pass'[i].caster = casters[id].birth

LEMMA JoinOnce ==
  ASSUME Inv, Once, NEW E, NEW N, NEW J, \A id \in E : IsStale(id), Joinable(N), J \subseteq N,
         Join(E, N, J), UNCHANGED <<city, records, propMeshes>>
  PROVE  /\ CastersKept
         /\ \A id \in J : \E i \in 1 .. Len(pass') : pass'[i].caster = casters[id].birth
<1>1. /\ UNCHANGED <<manager, passSerial>>
      /\ dropped' = dropped \cup {casters[id].birth : id \in N \ J}
  BY DEF Join
<1>2. /\ \A id \in Ids :
           /\ casters[id] # None /\ id \notin E => casters'[id] # None
           /\ casters'[id] # None =>
                /\ casters[id] # None /\ casters'[id].birth = casters[id].birth
                /\ casters'[id].of = casters[id].of
                /\ casters'[id].suppressOnly = casters[id].suppressOnly
                /\ casters'[id].passSerial = IF id \in N THEN passSerial ELSE casters[id].passSerial
      /\ \A i \in 1 .. Len(pass) : i \in 1 .. Len(pass') /\ pass'[i] = pass[i]
      /\ \A i \in 1 .. Len(pass') :
           \/ i \in 1 .. Len(pass) /\ pass'[i] = pass[i]
           \/ \E id \in J : pass'[i].caster = casters[id].birth
      /\ \A id \in J : \E i \in 1 .. Len(pass') : pass'[i].caster = casters[id].birth
  BY JoinKeeps
<1>3. J \subseteq Ids /\ \A id \in J : casters[id] # None
  BY DEF Joinable
<1>4. \A i, j \in Ids :
        records[i] # None /\ casters[j] # None /\ records[i].birth = casters[j].birth => i = j
  BY DEF Inv, NumbersApart
<1>5. ASSUME NEW id \in Ids, records[id] # None, HasCaster(id)
      PROVE  HasCaster(id)'
  <2>1. casters[id].of = records[id].of
    BY <1>5 DEF Once, CastersFit, HasCaster
  <2>2. id \notin E
    BY <2>1 DEF IsStale
  <2> QED  BY <1>2, <1>5, <2>2 DEF HasCaster
<1>6. SerialsMeanJoined'
  <2>1. SUFFICES ASSUME NEW j \in Ids, casters'[j] # None
                 PROVE  /\ casters'[j].passSerial <= passSerial
                        /\ casters'[j].passSerial = passSerial =>
                             \/ \E i \in 1 .. Len(pass') : pass'[i].caster = casters'[j].birth
                             \/ casters'[j].birth \in dropped'
    BY <1>1 DEF SerialsMeanJoined
  <2>2. casters[j] # None /\ casters'[j].birth = casters[j].birth /\ passSerial \in Nat
    BY <1>2, <2>1 DEF Inv, TypeOK
  <2>3. CASE j \in J
    BY <1>2, <2>1, <2>2, <2>3
  <2>4. CASE j \in N \ J
    BY <1>1, <1>2, <2>1, <2>2, <2>4
  <2>5. CASE j \notin N
    <3>1. casters'[j].passSerial = casters[j].passSerial
      BY <1>2, <2>1, <2>5
    <3>2. /\ casters[j].passSerial <= passSerial
          /\ casters[j].passSerial = passSerial =>
               \/ \E i \in 1 .. Len(pass) : pass[i].caster = casters[j].birth
               \/ casters[j].birth \in dropped
      BY <2>2 DEF Once, SerialsMeanJoined
    <3> QED  BY <1>1, <1>2, <2>2, <3>1, <3>2
  <2> QED  BY <2>3, <2>4, <2>5
<1>7. CastersFit'
  BY <1>1, <1>2 DEF Once, CastersFit, HasCaster
<1>8. ASSUME NEW id \in Ids, NEW i \in 1 .. Len(pass'), records[id] # None,
             pass'[i].caster = records[id].birth
      PROVE  HasCaster(id)
  BY <1>2, <1>3, <1>4, <1>8 DEF Once, CastersStay, HasCaster
<1>9. ASSUME NEW i \in 1 .. Len(pass')
      PROVE  \/ i \in 1 .. Len(pass) /\ pass'[i] = pass[i]
             \/ \E id \in Ids : casters[id] # None /\ pass'[i].caster = casters[id].birth
  BY <1>2, <1>3
<1> QED  BY <1>2, <1>5, <1>6, <1>7, <1>8, <1>9 DEF CastersKept

\* A draw that the registry gathers: what has a caster joins or is withheld,
\* and the rest is SC4's.
LEMMA GatherOnce ==
  ASSUME Inv, Once, NEW S \in SUBSET Ids, NEW seen, \A id \in S : records[id] # None,
         Gathers, Gather(S, seen), drawing,
         asked' = asked \cup Shadows({id \in S : records[id].of \in seen}),
         UNCHANGED <<install, paused, game, call, propMeshes, drawing, failed>>
  PROVE  Once'
<1> DEFINE J == Joining(S, seen)
           kept == Shadows(Kept(S, seen))
           held == Shadows(Withheld(S, seen))
<1>1. /\ manager = city /\ casters # NoCasters /\ ~Paused
      /\ UNCHANGED <<app, hooks, sites, installed, city, records, births, manager, passSerial,
                     unfiltered, propMeshes>>
      /\ Join(Stale(S, seen), J, J) /\ dropped' = dropped /\ native' = native \cup kept /\ withheld' = withheld \cup held
      /\ asked' = asked \cup Shadows({id \in S : records[id].of \in seen})
  BY DEF Gathers, Gather, Join, DrawNative, install, game
<1>2. /\ \A b \in kept : \E id \in S :
           Drawable(id) /\ records[id].birth = b /\ casters[id] = None
      /\ \A b \in held : \E id \in S :
           /\ Drawable(id) /\ records[id].birth = b
           /\ HasCaster(id) /\ casters[id].suppressOnly
      /\ \A b \in Shadows({id \in S : records[id].of \in seen}) :
           \/ b \in kept \cup held
           \/ \E id \in S :
                /\ records[id].birth = b /\ HasCaster(id)
                /\ id \in J \/ casters[id].passSerial = passSerial
  BY <1>1, GatherDraws
<1>3. /\ CastersKept
      /\ \A id \in J : \E i \in 1 .. Len(pass') : pass'[i].caster = casters[id].birth
  <2>1. \A id \in Stale(S, seen) : IsStale(id)
    BY DEF Stale
  <2>2. Joinable(J)
    BY JoiningIsJoinable DEF Inv
  <2> QED  BY <1>1, <2>1, <2>2, JoinOnce
<1>4. /\ SerialsMeanJoined' /\ CastersFit'
      /\ \A id \in Ids : casters'[id] # None =>
           casters[id] # None /\ casters'[id].birth = casters[id].birth
      /\ \A id \in Ids : records[id] # None /\ HasCaster(id) => HasCaster(id)'
      /\ \A id \in Ids, i \in 1 .. Len(pass') :
           records[id] # None /\ pass'[i].caster = records[id].birth => HasCaster(id)
      /\ \A i \in 1 .. Len(pass) : i \in 1 .. Len(pass') /\ pass'[i] = pass[i]
      /\ \A i \in 1 .. Len(pass') :
           \/ i \in 1 .. Len(pass) /\ pass'[i] = pass[i]
           \/ \E id \in Ids : casters[id] # None /\ pass'[i].caster = casters[id].birth
  BY <1>3 DEF CastersKept
<1>5. /\ \A i, j \in Ids :
           records[i] # None /\ records[j] # None /\ records[i].birth = records[j].birth => i = j
      /\ \A i, j \in Ids :
           records[i] # None /\ casters[j] # None /\ records[i].birth = casters[j].birth => i = j
      /\ \A i \in Ids : records[i] # None => records[i].birth <= births
  BY DEF Inv, NumbersApart
<1> HIDE DEF J, kept, held
<1>7. InstalledWhole'
  BY <1>1 DEF Once, InstalledWhole
<1>8. PassInTime'
  BY <1>1 DEF Once, PassInTime, Paused
<1>9. CallIsUnasked'
  <2>1. ASSUME NEW id \in S, Drawable(id)
        PROVE  /\ records[id].birth <= births
               /\ call # None => records[id].birth # records[call.id].birth
    <3>1. records[id] # None /\ ~Adding(id)
      BY <2>1 DEF Drawable
    <3>2. call # None => call.id \in Ids /\ records[call.id] # None
      BY DEF Inv, TypeOK, HooksTogether, Calls
    <3> QED  BY <1>5, <3>1, <3>2 DEF Adding
  <2>2. \A b \in Shadows({id \in S : records[id].of \in seen}) :
          \E id \in S : Drawable(id) /\ records[id].birth = b
    BY DEF Shadows
  <2> QED  BY <1>1, <1>2, <2>1, <2>2 DEF Once, CallIsUnasked
<1>12. CastersStay'
  <2>1. SUFFICES ASSUME NEW id \in Ids, records[id] # None
                 PROVE  /\ records[id].of # Decal /\ IsRelaxed(records[id].of) /\ ~Adding(id)
                             /\ records[id].birth \notin failed => HasCaster(id)
                        /\ records[id].birth \in withheld' => HasCaster(id)
                        /\ \A i \in 1 .. Len(pass') :
                             pass'[i].caster = records[id].birth => HasCaster(id)
    BY <1>1, <1>4 DEF CastersStay, Adding
  <2>2. records[id].birth \in withheld' => HasCaster(id)
    BY <1>1, <1>2, <1>5, <2>1 DEF Once, CastersStay, Drawable
  <2> QED  BY <1>4, <2>1, <2>2 DEF Once, CastersStay
<1>13. OneDrawer'
  <2>1. ASSUME NEW j \in Ids, casters'[j] # None
        PROVE  casters'[j].birth \notin native' \ unfiltered
    <3>1. casters[j] # None /\ casters'[j].birth = casters[j].birth
      BY <1>4, <2>1
    <3>2. casters[j].birth \notin native \ unfiltered
      BY <1>1, <3>1 DEF Once, OneDrawer
    <3>3. casters[j].birth \notin kept
      BY <1>2, <1>5, <3>1
    <3> QED  BY <1>1, <3>1, <3>2, <3>3
  <2> QED  BY <1>1, <2>1 DEF OneDrawer
<1>14. NothingLost'
  <2>1. ASSUME NEW b \in asked' \ (native' \cup withheld' \cup dropped')
        PROVE  \E i \in 1 .. Len(pass') : pass'[i].caster = b
    <3>1. CASE b \in asked
      <4>1. \E i \in 1 .. Len(pass) : pass[i].caster = b
        BY <1>1, <2>1, <3>1 DEF Once, EveryShadowOnce, NothingLost
      <4> QED  BY <1>4, <4>1
    <3>2. CASE b \in Shadows({id \in S : records[id].of \in seen})
      <4>1. PICK id \in S : /\ records[id].birth = b /\ HasCaster(id)
                            /\ id \in J \/ casters[id].passSerial = passSerial
        BY <1>1, <1>2, <2>1, <3>2
      <4>2. casters[id].birth = b /\ casters[id] # None
        BY <4>1 DEF HasCaster
      <4>3. CASE id \in J
        BY <1>3, <4>2, <4>3
      <4>4. CASE casters[id].passSerial = passSerial
        <5>1. \E i \in 1 .. Len(pass) : pass[i].caster = b
          BY <1>1, <2>1, <4>2, <4>4 DEF Once, SerialsMeanJoined
        <5> QED  BY <1>4, <5>1
      <4> QED  BY <4>1, <4>3, <4>4
    <3> QED  BY <1>1, <2>1, <3>1, <3>2
  <2>2. ASSUME NEW id \in Ids, records[id] # None, records[id].birth \in withheld'
        PROVE  Kind[records[id].of] = "floating" \/ records[id].of \in propMeshes
    <3>1. CASE records[id].birth \in withheld
      BY <2>2, <3>1 DEF Once, EveryShadowOnce, NothingLost
    <3>2. CASE records[id].birth \in held
      <4>1. HasCaster(id) /\ casters[id].suppressOnly
        BY <1>2, <1>5, <2>2, <3>2
      <4> QED  BY <2>2, <4>1 DEF Once, CastersFit, HasCaster
    <3> QED  BY <1>1, <2>2, <3>1, <3>2
  <2> QED  BY <1>1, <2>1, <2>2 DEF NothingLost
<1>15. OnlyTheRestIsNative'
  <2>1. SUFFICES ASSUME NEW b \in native' \ unfiltered
                 PROVE  /\ b \notin withheld'
                        /\ \A i \in 1 .. Len(pass') : pass'[i].caster # b
                        /\ b \notin failed =>
                             \A id \in Ids :
                               records[id] # None /\ records[id].birth = b =>
                                 Kind[records[id].of] = "building"
    BY <1>1 DEF OnlyTheRestIsNative
  \* What SC4 drew before.
  <2>2. CASE b \in native \ unfiltered
    <3>1. /\ b \notin withheld
          /\ \A i \in 1 .. Len(pass) : pass[i].caster # b
          /\ b \notin failed =>
               \A id \in Ids :
                 records[id] # None /\ records[id].birth = b => Kind[records[id].of] = "building"
      BY <1>1, <2>2 DEF Once, EveryShadowOnce, OnlyTheRestIsNative
    <3>2. \A j \in Ids : casters[j] # None => casters[j].birth # b
      BY <1>1, <2>2 DEF Once, OneDrawer
    <3>3. b \notin held
      BY <1>2, <3>2 DEF HasCaster
    <3>4. \A i \in 1 .. Len(pass') : pass'[i].caster # b
      BY <1>4, <3>1, <3>2
    <3> QED  BY <1>1, <3>1, <3>3, <3>4
  \* What it draws now.
  <2>3. CASE b \in kept
    <3>1. PICK id \in S : Drawable(id) /\ records[id].birth = b /\ casters[id] = None
      BY <1>2, <2>3
    <3>2. records[id] # None /\ ~HasCaster(id) /\ ~HasCaster(id)'
      BY <1>1, <1>4, <3>1 DEF HasCaster
    <3>3. b \notin withheld' /\ \A i \in 1 .. Len(pass') : pass'[i].caster # b
      BY <1>1, <1>4, <1>12, <3>1, <3>2 DEF CastersStay
    <3>4. ASSUME b \notin failed, NEW j \in Ids, records[j] # None, records[j].birth = b
          PROVE  Kind[records[j].of] = "building"
      <4>1. j = id
        BY <1>5, <3>1, <3>2, <3>4
      <4>2. ~HasCaster(id) /\ records[id].of # Decal /\ ~Adding(id)
        BY <3>1 DEF HasCaster, Drawable
      <4>3. ~IsRelaxed(records[id].of)
        BY <3>1, <3>2, <3>4, <4>2 DEF Once, CastersStay
      <4>4. records[id].of \in Occupants
        BY <3>2, <4>2 DEF Inv, TypeOK, Record
      <4> QED  BY <4>1, <4>3, <4>4, KindAssumption DEF IsRelaxed, Relaxed, Kinds
    <3> QED  BY <3>3, <3>4
  <2> QED  BY <1>1, <2>2, <2>3
<1> QED
  BY <1>4, <1>7, <1>8, <1>9, <1>12, <1>13, <1>14, <1>15 DEF Once, EveryShadowOnce

\* A draw for which memory runs out: SC4 draws the list, whoever has joined.
LEMMA RunsOutOnce ==
  ASSUME Inv, Once, NEW S \in SUBSET Ids, NEW seen, \A id \in S : records[id] # None,
         Gathers, GatherRunsOut(S, seen), drawing,
         asked' = asked \cup Shadows({id \in S : records[id].of \in seen}),
         UNCHANGED <<install, paused, game, call, propMeshes, drawing, failed>>
  PROVE  Once'
<1>1. /\ ~Paused /\ manager = city
      /\ UNCHANGED <<app, hooks, sites, installed, city, records, births, propMeshes, withheld>>
      /\ native' = native \cup Shadows(S) /\ unfiltered' = unfiltered \cup Shadows(S)
      /\ Shadows({id \in S : records[id].of \in seen}) \subseteq Shadows(S)
  BY DEF Gathers, GatherRunsOut, DrawNative, Shadows, install, game
<1>2. UNCHANGED manager /\ dropped \subseteq dropped' /\ CastersKept
  <2>1. CASE UNCHANGED <<casters, manager, pass, passSerial, dropped>>
    <3>1. SerialsMeanJoined' /\ CastersFit'
      BY <1>1, <2>1 DEF Once, SerialsMeanJoined, CastersFit, HasCaster
    <3>2. \A id \in Ids : HasCaster(id) => HasCaster(id)'
      BY <1>1, <2>1 DEF HasCaster
    <3>3. \A id \in Ids, i \in 1 .. Len(pass) :
            records[id] # None /\ pass[i].caster = records[id].birth => HasCaster(id)
      BY DEF Once, CastersStay
    <3> QED  BY <2>1, <3>1, <3>2, <3>3 DEF CastersKept
  <2>2. ASSUME NEW last \in Joining(S, seen), NEW E \in SUBSET Stale(S, seen),
               NEW J \in SUBSET (Joining(S, seen) \ {last}), Join(E, J \cup {last}, J)
        PROVE  UNCHANGED manager /\ dropped \subseteq dropped' /\ CastersKept
    <3>1. \A id \in E : IsStale(id)
      BY DEF Stale
    <3>2. J \cup {last} \in SUBSET Joining(S, seen)
      OBVIOUS
    <3>3. Joinable(J \cup {last})
      BY <3>2, JoiningIsJoinable DEF Inv
    <3>4. CastersKept
      BY <1>1, <2>2, <3>1, <3>3, JoinOnce
    <3> QED  BY <2>2, <3>4 DEF Join
  <2> QED  BY <2>1, <2>2 DEF GatherRunsOut
<1>3. /\ \A i, j \in Ids :
           records[i] # None /\ records[j] # None /\ records[i].birth = records[j].birth => i = j
      /\ \A i \in Ids : records[i] # None => records[i].birth <= births
  BY DEF Inv, NumbersApart
<1>4. InstalledWhole' /\ PassInTime'
  BY <1>1 DEF Once, InstalledWhole, PassInTime, Paused
<1>5. CallIsUnasked'
  <2>1. ASSUME NEW id \in S, Drawable(id)
        PROVE  /\ records[id].birth <= births
               /\ call # None => records[id].birth # records[call.id].birth
    <3>1. records[id] # None /\ ~Adding(id)
      BY <2>1 DEF Drawable
    <3>2. call # None => call.id \in Ids /\ records[call.id] # None
      BY DEF Inv, TypeOK, HooksTogether, Calls
    <3> QED  BY <1>3, <3>1, <3>2 DEF Adding
  <2>2. \A b \in Shadows(S) : \E id \in S : Drawable(id) /\ records[id].birth = b
    BY DEF Shadows
  <2> QED  BY <1>1, <2>1, <2>2 DEF Once, CallIsUnasked
<1>6. CastersStay'
  BY <1>1, <1>2 DEF Once, CastersStay, CastersKept, Adding
<1>7. native' \ unfiltered' \subseteq native \ unfiltered
  BY <1>1
<1>8. OneDrawer'
  BY <1>1, <1>2, <1>7 DEF Once, OneDrawer, CastersKept, Paused
<1>9. NothingLost'
  <2>1. asked' \ (native' \cup withheld' \cup dropped') \subseteq
          asked \ (native \cup withheld \cup dropped)
    BY <1>1, <1>2
  <2>2. \A b \in asked \ (native \cup withheld \cup dropped) :
          \E i \in 1 .. Len(pass) : pass[i].caster = b
    BY DEF Once, EveryShadowOnce, NothingLost
  <2>3. \A b \in asked' \ (native' \cup withheld' \cup dropped') :
          \E i \in 1 .. Len(pass') : pass'[i].caster = b
    BY <1>2, <2>1, <2>2 DEF CastersKept
  <2> QED  BY <1>1, <2>3 DEF Once, EveryShadowOnce, NothingLost
<1>10. OnlyTheRestIsNative'
  <2>1. ASSUME NEW b \in native \ unfiltered, NEW i \in 1 .. Len(pass')
        PROVE  pass'[i].caster # b
    <3>1. \A k \in 1 .. Len(pass) : pass[k].caster # b
      BY <1>1 DEF Once, EveryShadowOnce, OnlyTheRestIsNative
    <3>2. \A j \in Ids : casters[j] # None => casters[j].birth # b
      BY <1>1 DEF Once, OneDrawer
    <3> QED  BY <1>2, <3>1, <3>2 DEF CastersKept
  <2> QED  BY <1>1, <1>7, <2>1 DEF Once, EveryShadowOnce, OnlyTheRestIsNative, Paused
<1> QED
  BY <1>2, <1>4, <1>5, <1>6, <1>8, <1>9, <1>10 DEF Once, CastersKept, EveryShadowOnce

\* A draw that is left to SC4: nothing that it lists has a caster here.
LEMMA NativeOnce ==
  ASSUME Inv, Once, NEW site \in {"DrawShadows", "DrawShadowsRough"}, NEW S \in SUBSET Ids,
         NEW seen, \A id \in S : records[id] # None, site \notin sites \/ ~Gathers, DrawNative(S),
         asked' = asked \cup Shadows({id \in S : records[id].of \in seen}), drawing,
         UNCHANGED <<registry, gathered, withheld, unfiltered>>,
         UNCHANGED <<install, paused, game, call, propMeshes, drawing, failed>>
  PROVE  Once'
<1>1. /\ UNCHANGED <<app, hooks, sites, installed, city, records, births, casters, manager, pass,
                     passValid, passSerial, dropped>>
      /\ native' = native \cup Shadows(S)
      /\ Shadows({id \in S : records[id].of \in seen}) \subseteq Shadows(S)
  BY DEF DrawNative, Shadows, install, game, registry, gathered
<1>2. \A b \in Shadows(S) : \E id \in S : Drawable(id) /\ records[id].birth = b
  BY DEF Shadows
<1>3. ASSUME ~Paused, NEW id \in S
      PROVE  ~HasCaster(id)
  <2>1. SUFFICES ASSUME HasCaster(id) PROVE FALSE
    OBVIOUS
  <2>2. manager = city /\ casters # NoCasters
    BY <2>1 DEF Once, CastersFit, HasCaster, NoCasters
  <2>3. sites = AllSites /\ site \in AllSites
    BY <2>2 DEF Inv, RegistryIsHonest, AllSites, Sites
  <2> QED  BY <1>3, <2>2, <2>3 DEF Gathers
<1>4. /\ \A i, j \in Ids :
           records[i] # None /\ records[j] # None /\ records[i].birth = records[j].birth => i = j
      /\ \A i, j \in Ids :
           records[i] # None /\ casters[j] # None /\ records[i].birth = casters[j].birth => i = j
      /\ \A i \in Ids : records[i] # None => records[i].birth <= births
  BY DEF Inv, NumbersApart
<1>5. InstalledWhole' /\ PassInTime'
  BY <1>1 DEF Once, InstalledWhole, PassInTime, Paused
<1>6. CallIsUnasked'
  <2>1. ASSUME NEW id \in S, Drawable(id)
        PROVE  /\ records[id].birth <= births
               /\ call # None => records[id].birth # records[call.id].birth
    <3>1. records[id] # None /\ ~Adding(id)
      BY <2>1 DEF Drawable
    <3>2. call # None => call.id \in Ids /\ records[call.id] # None
      BY DEF Inv, TypeOK, HooksTogether, Calls
    <3> QED  BY <1>4, <3>1, <3>2 DEF Adding
  <2> QED  BY <1>1, <1>2, <2>1 DEF Once, CallIsUnasked
<1>7. SerialsMeanJoined' /\ CastersFit' /\ CastersStay'
  BY <1>1 DEF Once, SerialsMeanJoined, CastersFit, CastersStay, HasCaster, Adding
<1>8. OneDrawer'
  <2>1. ASSUME ~Paused, NEW j \in Ids, casters[j] # None
        PROVE  casters[j].birth \notin native' \ unfiltered
    <3>1. casters[j].birth \notin native \ unfiltered
      BY <2>1 DEF Once, OneDrawer
    <3>2. casters[j].birth \notin Shadows(S)
      BY <1>2, <1>3, <1>4, <2>1 DEF HasCaster
    <3> QED  BY <1>1, <3>1, <3>2
  <2> QED  BY <1>1, <2>1 DEF Once, OneDrawer, Paused
<1>9. NothingLost'
  BY <1>1 DEF Once, EveryShadowOnce, NothingLost
<1>10. OnlyTheRestIsNative'
  <2>1. SUFFICES ASSUME NEW b \in native' \ unfiltered
                 PROVE  /\ b \notin withheld
                        /\ ~Paused => \A i \in 1 .. Len(pass) : pass[i].caster # b
                        /\ ~Paused /\ b \notin failed =>
                             \A id \in Ids :
                               records[id] # None /\ records[id].birth = b =>
                                 Kind[records[id].of] = "building"
    BY <1>1 DEF OnlyTheRestIsNative, Paused
  <2>2. CASE b \in native \ unfiltered
    BY <2>2 DEF Once, EveryShadowOnce, OnlyTheRestIsNative
  <2>3. CASE b \in Shadows(S)
    <3>1. PICK id \in S : Drawable(id) /\ records[id].birth = b
      BY <1>2, <2>3
    <3>2. b \notin withheld
      BY <1>3, <3>1 DEF Once, CastersStay, PassInTime
    <3>3. ASSUME ~Paused, NEW i \in 1 .. Len(pass) PROVE pass[i].caster # b
      BY <1>3, <3>1, <3>3 DEF Once, CastersStay
    <3>4. ASSUME ~Paused, b \notin failed, NEW j \in Ids, records[j] # None, records[j].birth = b
          PROVE  Kind[records[j].of] = "building"
      <4>1. j = id
        BY <1>4, <3>1, <3>4
      <4>2. ~HasCaster(id) /\ records[id].of # Decal /\ ~Adding(id)
        BY <1>3, <3>1, <3>4 DEF Drawable
      <4>3. ~IsRelaxed(records[id].of)
        BY <3>1, <3>4, <4>2 DEF Once, CastersStay
      <4>4. records[id].of \in Occupants
        BY <4>2 DEF Inv, TypeOK, Record
      <4> QED  BY <4>1, <4>3, <4>4, KindAssumption DEF IsRelaxed, Relaxed, Kinds
    <3> QED  BY <3>2, <3>3, <3>4
  <2> QED  BY <1>1, <2>2, <2>3
<1> QED  BY <1>5, <1>6, <1>7, <1>8, <1>9, <1>10 DEF Once, EveryShadowOnce

\* No hook, frame or event makes a shadow drawn twice, or by nobody.
LEMMA OnceStep == Inv /\ Once /\ [Next]_vars => Once'
<1> SUFFICES ASSUME Inv, Once, [Next]_vars PROVE Once'
  OBVIOUS
<1>1. CASE OnStart \/ PreAppShutdown
  BY <1>1, InstallOnce
<1>2. CASE \/ TogglePause \/ BeginPass \/ UNCHANGED vars
           \/ \E o \in Occupants : SuppressAddShadow(o) \/ RejectedAddShadow(o)
  BY <1>2, QuietOnce
<1>3. CASE (\E m \in Managers : OpenCity(m)) \/ CloseCity
  BY <1>3, CityOnce
<1>4. ASSUME NEW id \in Ids, MakeDecal(id) PROVE Once'
  BY <1>4, DecalOnce
<1>5. ASSUME NEW id \in Ids, FreeSilently(id) \/ Show(id) \/ RemoveOverlay(id) PROVE Once'
  BY <1>5, LoseOnce
<1>6. ASSUME NEW o \in Occupants, NEW id \in Ids, NEW shown \in BOOLEAN, NEW textured \in BOOLEAN,
             AddShadow(o, id, shown, textured)
      PROVE  Once'
  BY <1>6, AddShadowOnce
<1>7. CASE (\E indexed \in BOOLEAN : Register(indexed)) \/ FailToRegister
  BY <1>7, RegisterOnce
<1>8. ASSUME NEW site \in {"DrawShadows", "DrawShadowsRough"}, NEW S \in SUBSET Ids,
             NEW seen \in SUBSET Occupants, DrawShadows(site, S, seen)
      PROVE  Once'
  <2>1. /\ drawing /\ \A id \in S : records[id] # None
        /\ asked' = asked \cup Shadows({id \in S : records[id].of \in seen})
        /\ UNCHANGED <<install, paused, game, call, propMeshes, drawing, failed>>
    BY <1>8 DEF DrawShadows
  <2>2. CASE site \in sites /\ Gathers
    <3>1. Gather(S, seen) \/ GatherRunsOut(S, seen)
      BY <1>8, <2>2 DEF DrawShadows
    <3> QED  BY <2>1, <2>2, <3>1, GatherOnce, RunsOutOnce
  <2>3. CASE ~(site \in sites /\ Gathers)
    <3>1. DrawNative(S) /\ UNCHANGED <<registry, gathered, withheld, unfiltered>>
      BY <1>8, <2>3 DEF DrawShadows
    <3> QED  BY <2>1, <2>3, <3>1, NativeOnce
  <2> QED  BY <2>2, <2>3
<1>9. CASE EndPass
  BY <1>9, EndOnce
<1> QED  BY <1>1, <1>2, <1>3, <1>4, <1>5, <1>6, <1>7, <1>8, <1>9 DEF Next

\* Between them, SC4 and the driver draw each shadow of a pass once: none is
\* lost, none is drawn both ways, and SC4 draws only what the registry leaves it,
\* but where a list ran out of memory, for any slots, occupants, kinds and managers.
THEOREM EveryShadowIsDrawnOnce == Spec => []EveryShadowOnce
<1>1. Init => Once
  BY InitOnce
<1>2. Inv /\ Once /\ [Next]_vars => Once'
  BY OnceStep
<1>3. Once => EveryShadowOnce
  BY DEF Once
<1> QED  BY <1>1, <1>2, <1>3, RegistryIsSafeAlways, PTL DEF Spec
=============================================================================
