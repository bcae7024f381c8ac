--------------------------- MODULE StageLocksProofs ---------------------------
(***************************************************************************)
(* Proofs about the locks of stages, for any definitions, extensions,      *)
(* packages and contents of composer.lock, in whatever order stages are    *)
(* locked and whenever the file is edited.                                 *)
(***************************************************************************)
EXTENDS StageLocks, TLAPS

\* An update in progress is a record, and has locked the stages that are not left.
UpdateInv ==
  /\ upd = [pc |-> upd.pc, flags |-> upd.flags, cache |-> upd.cache, todo |-> upd.todo,
            out |-> upd.out]
  /\ upd.pc = "stages" => DOMAIN upd.out = Stages \ upd.todo
  /\ upd.cache # None => def.kind = "php" /\ upd.cache \in Contents \cup {Nothing}
  /\ from # None => DOMAIN locks = Stages

TypeInv == TypeOK /\ UpdateInv

\* The composer.lock an update works on, or worked on.
LockOf(u) == IF u.cache = None THEN Nothing ELSE u.cache

\* The locks of a stage are those the composer.lock c asks for.
LockedFrom(c, l, s) ==
  /\ def.kind = "php" =>
       /\ DOMAIN l.extensions = Wanted(s, c) \ Preinstalled
       /\ \A e \in DOMAIN l.extensions : Satisfies(l.extensions[e], ConstraintOn(e, s, c))
  /\ Infers => DepsOf(DOMAIN l.extensions) \subseteq l.packages
  /\ def.kind = "webserver" /\ Enabled(HealthcheckOf(s)) => "curl" \in l.packages

\* A whole update has one composer.lock for all of the stages it went through.
LockInv ==
  /\ upd.pc = "stages" =>
       Accepted(def) /\ \A s \in DOMAIN upd.out : Valid(s)
  /\ Whole(upd) =>
       \A s \in DOMAIN upd.out : /\ def.kind = "php" => upd.cache # None
                                 /\ LockedFrom(LockOf(upd), upd.out[s], s)
  /\ from # None =>
       /\ from.lock \in Contents \cup {Nothing} /\ Accepted(def)
       /\ \A s \in Stages : Valid(s)
       /\ from.whole => \A s \in Stages : LockedFrom(from.lock, locks[s], s)

\* An image is the one of the locks of its stage.
ImageInv ==
  image # None =>
    /\ image.stage \in Stages /\ image.outcome = Outcome(image.stage)
    /\ image.outcome = "Built" =>
         LET names == DOMAIN locks[image.stage].extensions IN
         /\ def.kind = "php" => image.loaded = Usable(names)
         /\ image.compiled = Compiled(names) \cup Community(names)
         /\ image.packages = locks[image.stage].packages
         /\ image.external = ExternalFiles(image.stage)
         /\ image.test = ToImageConfig(HealthcheckOf(image.stage))

IInv == TypeInv /\ LockInv /\ ImageInv

-----------------------------------------------------------------------------
(* Version maps.                                                           *)

LEMMA WildTyped ==
  ASSUME NEW S, S \subseteq Ext
  PROVE  IsVersionMap(Wild(S)) /\ DOMAIN Wild(S) = S
BY DEF IsVersionMap, Wild

\* Add keeps what is there.
LEMMA AddingTyped ==
  ASSUME NEW m, NEW more, IsVersionMap(m), IsVersionMap(more)
  PROVE  /\ IsVersionMap(Adding(m, more))
         /\ DOMAIN Adding(m, more) = DOMAIN m \cup DOMAIN more
         /\ \A e \in DOMAIN m : Adding(m, more)[e] = m[e]
         /\ \A e \in DOMAIN more \ DOMAIN m : Adding(m, more)[e] = more[e]
BY DEF IsVersionMap, Adding

LEMMA StageTyped ==
  ASSUME def \in Inputs, NEW s \in Stages
  PROVE  IsStage(def.stages[s]) /\ IsDefinition(def)
BY StageLocksAssumption DEF IsDefinition, Stages

LEMMA NothingTyped == IsComposerLock(Nothing) /\ DOMAIN Nothing.prod = {} /\ DOMAIN Nothing.dev = {}
BY DEF IsComposerLock, Nothing, Wild, IsVersionMap

LEMMA ReqsTyped ==
  ASSUME def \in Inputs, NEW s \in Stages, NEW c, IsComposerLock(c)
  PROVE  /\ IsVersionMap(PlatformReqs(s, c))
         /\ DOMAIN PlatformReqs(s, c)
              = DOMAIN c.prod \cup (IF def.stages[s].dev THEN DOMAIN c.dev ELSE {})
         /\ \A e \in DOMAIN PlatformReqs(s, c) :
              PlatformReqs(s, c)[e] =
                IF def.stages[s].dev /\ e \in DOMAIN c.dev THEN c.dev[e] ELSE c.prod[e]
<1>1. IsVersionMap(c.prod) /\ IsVersionMap(c.dev)
  BY DEF IsComposerLock
<1>2. CASE def.stages[s].dev
  <2>1. PlatformReqs(s, c) = Adding(c.dev, c.prod)
    BY <1>2 DEF PlatformReqs, Merging
  <2>2. /\ IsVersionMap(Adding(c.dev, c.prod))
        /\ DOMAIN Adding(c.dev, c.prod) = DOMAIN c.dev \cup DOMAIN c.prod
        /\ \A e \in DOMAIN c.dev : Adding(c.dev, c.prod)[e] = c.dev[e]
        /\ \A e \in DOMAIN c.prod \ DOMAIN c.dev : Adding(c.dev, c.prod)[e] = c.prod[e]
    BY <1>1, AddingTyped, Zenon
  <2> QED
    BY <1>2, <2>1, <2>2
<1>3. CASE ~def.stages[s].dev
  BY <1>1, <1>3 DEF PlatformReqs
<1> QED
  BY <1>2, <1>3

\* What is required: the extensions of the definition, then those of the runtime, then
\* those of the packages.
LEMMA RequiredTyped ==
  ASSUME def \in Inputs, NEW s \in Stages, NEW c, IsComposerLock(c)
  PROVE  /\ IsVersionMap(Required(s, c))
         /\ DOMAIN Required(s, c) = DOMAIN def.stages[s].extensions \cup DOMAIN AtRuntime(s)
                                      \cup DOMAIN PlatformReqs(s, c)
         /\ \A e \in DOMAIN Required(s, c) : Required(s, c)[e] = ConstraintOn(e, s, c)
<1> DEFINE own == def.stages[s].extensions
           two == Adding(own, AtRuntime(s))
<1>1. IsVersionMap(own) /\ def.stages[s].dev \in BOOLEAN /\ def.stages[s].served \in BOOLEAN
  BY StageTyped DEF IsStage
<1>2. /\ IsVersionMap(AtRuntime(s))
      /\ DOMAIN AtRuntime(s) = IF ~def.stages[s].dev /\ def.stages[s].served
                                 THEN {"apcu", "opcache"} ELSE {}
      /\ \A e \in DOMAIN AtRuntime(s) : AtRuntime(s)[e] = AnyVersion
  BY <1>1, StageLocksAssumption DEF AtRuntime, Wild, IsVersionMap, Inferable
<1>3. /\ IsVersionMap(two) /\ DOMAIN two = DOMAIN own \cup DOMAIN AtRuntime(s)
      /\ \A e \in DOMAIN own : two[e] = own[e]
      /\ \A e \in DOMAIN AtRuntime(s) \ DOMAIN own : two[e] = AtRuntime(s)[e]
  BY <1>1, <1>2, AddingTyped, ZenonT(60)
<1>4. Required(s, c) = Adding(two, PlatformReqs(s, c))
  BY DEF Required
<1>9. /\ IsVersionMap(PlatformReqs(s, c))
      /\ DOMAIN PlatformReqs(s, c)
           = DOMAIN c.prod \cup (IF def.stages[s].dev THEN DOMAIN c.dev ELSE {})
      /\ \A e \in DOMAIN PlatformReqs(s, c) :
           PlatformReqs(s, c)[e] =
             IF def.stages[s].dev /\ e \in DOMAIN c.dev THEN c.dev[e] ELSE c.prod[e]
  BY ReqsTyped, Zenon
<1> HIDE DEF two
<1>5. /\ IsVersionMap(Required(s, c))
      /\ DOMAIN Required(s, c) = DOMAIN two \cup DOMAIN PlatformReqs(s, c)
      /\ \A e \in DOMAIN two : Required(s, c)[e] = two[e]
      /\ \A e \in DOMAIN PlatformReqs(s, c) \ DOMAIN two :
           Required(s, c)[e] = PlatformReqs(s, c)[e]
  <2> DEFINE all == Adding(two, PlatformReqs(s, c))
  <2>1. /\ IsVersionMap(all) /\ DOMAIN all = DOMAIN two \cup DOMAIN PlatformReqs(s, c)
        /\ \A e \in DOMAIN two : all[e] = two[e]
        /\ \A e \in DOMAIN PlatformReqs(s, c) \ DOMAIN two : all[e] = PlatformReqs(s, c)[e]
    <3>1. IsVersionMap(two) /\ IsVersionMap(PlatformReqs(s, c))
      BY <1>3, <1>9
    <3> QED
      BY <3>1, AddingTyped, Zenon
  <2>2. Required(s, c) = all
    BY <1>4
  <2> HIDE DEF all
  <2> QED
    BY <2>1, <2>2
<1>6. ASSUME NEW e \in DOMAIN Required(s, c)
      PROVE  Required(s, c)[e] = ConstraintOn(e, s, c)
  <2>1. CASE e \in DOMAIN own
    BY <2>1, <1>3, <1>5 DEF ConstraintOn
  <2>2. CASE e \in DOMAIN AtRuntime(s) \ DOMAIN own
    BY <2>2, <1>2, <1>3, <1>5 DEF ConstraintOn
  <2>3. CASE e \notin DOMAIN own /\ e \notin DOMAIN AtRuntime(s)
    <3>1. e \in DOMAIN PlatformReqs(s, c) /\ Required(s, c)[e] = PlatformReqs(s, c)[e]
      BY <2>3, <1>3, <1>5, <1>6
    <3>2. ~(e \in {"apcu", "opcache"} /\ ~def.stages[s].dev /\ def.stages[s].served)
      BY <2>3, <1>2
    <3>3. CASE def.stages[s].dev /\ e \in DOMAIN c.dev
      BY <3>1, <3>2, <3>3, <2>3, <1>9 DEF ConstraintOn
    <3>4. CASE ~(def.stages[s].dev /\ e \in DOMAIN c.dev)
      <4>1. e \in DOMAIN c.prod
        BY <3>1, <3>4, <1>9
      <4> QED
        BY <3>1, <3>2, <3>4, <4>1, <2>3, <1>9 DEF ConstraintOn
    <3> QED
      BY <3>3, <3>4
  <2> QED
    BY <2>1, <2>2, <2>3
<1> QED
  BY <1>3, <1>5, <1>6

\* The extensions of a stage are those Wanted says, under the constraints ConstraintOn
\* says.
LEMMA ExtensionsTyped ==
  ASSUME def \in Inputs, NEW s \in Stages, NEW c, IsComposerLock(c)
  PROVE  /\ IsVersionMap(Extensions(s, c))
         /\ DOMAIN Extensions(s, c) = Wanted(s, c)
         /\ \A e \in DOMAIN Extensions(s, c) : Extensions(s, c)[e] = ConstraintOn(e, s, c)
<1>1. CASE ~Infers
  <2>1. IsVersionMap(def.stages[s].extensions)
    BY StageTyped DEF IsStage
  <2>2. Extensions(s, c) = def.stages[s].extensions
    BY <1>1 DEF Extensions
  <2> QED
    BY <1>1, <2>1, <2>2 DEF Wanted, ConstraintOn
<1>2. CASE Infers
  <2> DEFINE required == Required(s, c)
             soap == Wild(IF "soap" \in DOMAIN required THEN {"sockets"} ELSE {})
             two == Adding(required, soap)
             zip == Wild({"zip"})
             three == Adding(two, zip)
  <2>1. /\ IsVersionMap(required)
        /\ DOMAIN required = DOMAIN def.stages[s].extensions \cup DOMAIN AtRuntime(s)
                               \cup DOMAIN PlatformReqs(s, c)
        /\ \A e \in DOMAIN required : required[e] = ConstraintOn(e, s, c)
    BY RequiredTyped, Zenon
  <2>2. /\ IsVersionMap(soap) /\ \A e \in DOMAIN soap : soap[e] = AnyVersion
        /\ DOMAIN soap = IF "soap" \in DOMAIN required THEN {"sockets"} ELSE {}
    BY StageLocksAssumption DEF Wild, IsVersionMap, Inferable
  <2>3. /\ IsVersionMap(zip) /\ zip["zip"] = AnyVersion /\ DOMAIN zip = {"zip"}
    BY StageLocksAssumption DEF Wild, IsVersionMap, Inferable
  <2>4. Extensions(s, c) = three
    BY <1>2 DEF Extensions
  <2> HIDE DEF required, soap, zip
  <2>5. /\ IsVersionMap(two) /\ DOMAIN two = DOMAIN required \cup DOMAIN soap
        /\ \A e \in DOMAIN required : two[e] = required[e]
        /\ \A e \in DOMAIN soap \ DOMAIN required : two[e] = soap[e]
    <3>1. IsVersionMap(required) /\ IsVersionMap(soap)
      BY <2>1, <2>2
    <3> QED
      BY <3>1, AddingTyped, Zenon
  <2> HIDE DEF two
  <2>6. /\ IsVersionMap(three) /\ DOMAIN three = DOMAIN two \cup DOMAIN zip
        /\ \A e \in DOMAIN two : three[e] = two[e]
        /\ \A e \in DOMAIN zip \ DOMAIN two : three[e] = zip[e]
    <3>1. IsVersionMap(two) /\ IsVersionMap(zip)
      BY <2>3, <2>5
    <3> QED
      BY <3>1, AddingTyped, Zenon
  <2> HIDE DEF three
  <2>7. /\ DOMAIN AtRuntime(s) = IF ~def.stages[s].dev /\ def.stages[s].served
                                   THEN {"apcu", "opcache"} ELSE {}
        /\ def.stages[s].dev \in BOOLEAN /\ def.stages[s].served \in BOOLEAN
    BY StageTyped DEF IsStage, AtRuntime, Wild
  <2>8. DOMAIN PlatformReqs(s, c)
          = DOMAIN c.prod \cup (IF def.stages[s].dev THEN DOMAIN c.dev ELSE {})
    BY ReqsTyped, Zenon
  <2>9. DOMAIN three = Wanted(s, c)
    BY <1>2, <2>1, <2>2, <2>3, <2>5, <2>6, <2>7, <2>8 DEF Wanted
  <2>10. ASSUME NEW e \in DOMAIN three PROVE three[e] = ConstraintOn(e, s, c)
    <3>1. CASE e \in DOMAIN required
      BY <3>1, <2>1, <2>5, <2>6
    <3>2. CASE e \notin DOMAIN required
      <4>1. three[e] = AnyVersion
        BY <3>2, <2>2, <2>3, <2>5, <2>6, <2>10
      <4>2. ConstraintOn(e, s, c) = AnyVersion
        BY <3>2, <2>1, <2>7, <2>8 DEF ConstraintOn
      <4> QED
        BY <4>1, <4>2
    <3> QED
      BY <3>1, <3>2
  <2> QED
    BY <2>4, <2>6, <2>9, <2>10
<1> QED
  BY <1>1, <1>2

\* What is locked is what was asked for without the preinstalled extensions.
LEMMA LockedTyped ==
  ASSUME NEW extensions, IsVersionMap(extensions), NEW l \in LockedExtensions(extensions)
  PROVE  /\ IsVersionMap(l) /\ DOMAIN l = DOMAIN extensions \ Preinstalled
         /\ \A e \in DOMAIN l : Satisfies(l[e], extensions[e])
<1> DEFINE names == DOMAIN extensions \ Preinstalled
           pecl == names \ Core
<1>1. PICK m \in [pecl -> Version] :
        /\ \A e \in pecl : m[e] \in Pecl[e] /\ Satisfies(m[e], extensions[e])
        /\ l = [e \in names |-> IF e \in pecl THEN m[e] ELSE extensions[e]]
  BY DEF LockedExtensions
<1> QED
  BY <1>1 DEF IsVersionMap, Satisfies

LEMMA PackagesTyped ==
  ASSUME def \in Inputs, NEW s \in Stages, NEW c, IsComposerLock(c)
  PROVE  /\ SystemPackages(s, c) \subseteq Package
         /\ Infers => DepsOf(Wanted(s, c)) \subseteq SystemPackages(s, c)
<1>1. /\ def.stages[s].packages \subseteq Package /\ def.os \in OS
  BY StageTyped DEF IsStage, IsDefinition
<1>2. DOMAIN Extensions(s, c) = Wanted(s, c) /\ IsVersionMap(Extensions(s, c))
  BY ExtensionsTyped, Zenon
<1>3. Wanted(s, c) \subseteq Ext
  BY <1>2 DEF IsVersionMap
<1>4. DepsOf(Wanted(s, c)) \subseteq Package
  BY <1>1, <1>3, StageLocksAssumption DEF DepsOf
<1> QED
  BY <1>1, <1>2, <1>4, StageLocksAssumption DEF SystemPackages

-----------------------------------------------------------------------------
(* Types.                                                                  *)

\* What the stages of an update are given decodes, and does not change.
LEMMA ComposerLockTyped ==
  ASSUME TypeInv, ComposerLock(upd) \notin Unreadable
  PROVE  /\ ComposerLock(upd) \in Contents \cup {Nothing}
         /\ IsComposerLock(ComposerLock(upd))
         /\ def.kind = "php" => CacheOf(upd) = ComposerLock(upd)
         /\ def.kind # "php" => CacheOf(upd) = None
<1>1. \A c \in Contents \cup {Nothing} : IsComposerLock(c)
  BY StageLocksAssumption, NothingTyped
<1>2. ComposerLock(upd) \in Contents \cup {Nothing}
  BY DEF TypeInv, TypeOK, UpdateInv, ComposerLock, Loaded
<1> QED
  BY <1>1, <1>2 DEF CacheOf

LEMMA KeptTyped ==
  ASSUME TypeInv, NEW s \in Stages
  PROVE  IsStageLocks(KeptLocks(s))
<1>1. IsStageLocks(NoStageLocks)
  BY DEF IsStageLocks, NoStageLocks, Wild, IsVersionMap
<1> QED
  BY <1>1 DEF TypeInv, TypeOK, UpdateInv, KeptLocks

LEMMA TypeInit == Init => TypeInv
BY StageLocksAssumption DEF Init, TypeInv, TypeOK, UpdateInv, Idle, Wild

LEMMA LockStageTyped ==
  ASSUME TypeInv, NEW s \in Stages, LockStage(s)
  PROVE  TypeInv'
<1>1. PICK extensions \in IF def.kind = "php" /\ "extensions" \in upd.flags
                            THEN LockedExtensions(Extensions(s, ComposerLock(upd)))
                            ELSE {KeptLocks(s).extensions} :
        LET packages == IF "packages" \in upd.flags THEN SystemPackages(s, ComposerLock(upd))
                        ELSE KeptLocks(s).packages
            lock == [packages |-> packages, extensions |-> extensions]
        IN  upd' = [upd EXCEPT !.cache = CacheOf(upd), !.todo = @ \ {s},
                      !.out = [t \in DOMAIN @ \cup {s} |-> IF t = s THEN lock ELSE @[t]]]
  BY DEF LockStage
<1> DEFINE packages == IF "packages" \in upd.flags THEN SystemPackages(s, ComposerLock(upd))
                       ELSE KeptLocks(s).packages
           lock == [packages |-> packages, extensions |-> extensions]
<1>2. def \in Inputs /\ IsComposerLock(ComposerLock(upd)) /\ ComposerLock(upd) \in Contents \cup {Nothing}
  BY ComposerLockTyped DEF LockStage, TypeInv, TypeOK
<1>3. IsVersionMap(Extensions(s, ComposerLock(upd)))
  BY <1>2, ExtensionsTyped, Zenon
<1>4. IsVersionMap(KeptLocks(s).extensions) /\ KeptLocks(s).packages \subseteq Package
  BY KeptTyped DEF IsStageLocks
<1>5. IsVersionMap(extensions)
  <2>1. CASE def.kind = "php" /\ "extensions" \in upd.flags
    <3>1. extensions \in LockedExtensions(Extensions(s, ComposerLock(upd)))
      BY <1>1, <2>1
    <3> QED
      BY <1>3, <3>1, LockedTyped, Zenon
  <2>2. CASE ~(def.kind = "php" /\ "extensions" \in upd.flags)
    BY <1>1, <1>4, <2>2
  <2> QED
    BY <2>1, <2>2
<1>6. SystemPackages(s, ComposerLock(upd)) \subseteq Package
  BY <1>2, PackagesTyped, Zenon
<1>7. IsStageLocks(lock)
  BY <1>4, <1>5, <1>6 DEF IsStageLocks
<1> HIDE DEF lock
<1>8. upd' = [pc |-> upd.pc, flags |-> upd.flags, cache |-> CacheOf(upd),
              todo |-> upd.todo \ {s},
              out |-> [t \in DOMAIN upd.out \cup {s} |-> IF t = s THEN lock ELSE upd.out[t]]]
  BY <1>1 DEF TypeInv, UpdateInv, lock
<1>9. CacheOf(upd) = None \/ CacheOf(upd) = ComposerLock(upd)
  BY DEF CacheOf
<1>10. TypeOK'
  BY <1>2, <1>7, <1>8, <1>9, StageLocksAssumption DEF TypeInv, TypeOK, LockStage, Stages
<1>11. UpdateInv'
  <2>1. CacheOf(upd) # None => def.kind = "php" /\ CacheOf(upd) \in Contents \cup {Nothing}
    BY <1>2, <1>9 DEF CacheOf
  <2> QED
    BY <1>8, <2>1 DEF TypeInv, UpdateInv, LockStage, Stages, TypeOK
<1> QED
  BY <1>10, <1>11 DEF TypeInv

LEMMA HealthcheckTyped ==
  ASSUME def \in Inputs, NEW s \in Stages
  PROVE  /\ HealthcheckOf(s) \in Healthcheck \cup {None}
         /\ ToImageConfig(HealthcheckOf(s)) \in Types \cup {"none", "empty", "panic"}
<1>1. def.health[s] \in Healthcheck \cup {None} /\ def.health["base"] \in Healthcheck \cup {None}
  BY StageTyped DEF IsDefinition, Stages
<1>2. DefaultHealthcheck(def.kind) \in Healthcheck
  BY DEF DefaultHealthcheck, Healthcheck, Types
<1>3. HealthcheckOf(s) \in Healthcheck \cup {None}
  BY <1>1, <1>2 DEF HealthcheckOf, Merged
<1> QED
  BY <1>3 DEF ToImageConfig, Enabled, Healthcheck

LEMMA BuildTyped ==
  ASSUME TypeInv, NEW s \in Stages, Build(s)
  PROVE  TypeInv' /\ ImageInv'
<1>1. CASE Outcome(s) = "Built"
  <2> DEFINE names == DOMAIN locks[s].extensions
  <2>1. s \in DOMAIN locks /\ ToImageConfig(HealthcheckOf(s)) # "panic"
    BY <1>1 DEF Outcome
  <2>2. IsStageLocks(locks[s])
    BY <2>1 DEF TypeInv, TypeOK, UpdateInv
  <2>3. names \subseteq Ext /\ locks[s].packages \subseteq Package
    BY <2>2 DEF IsStageLocks, IsVersionMap
  <2>4. ToImageConfig(HealthcheckOf(s)) \in Types \cup {"none", "empty"}
    BY <2>1, HealthcheckTyped DEF TypeInv, TypeOK
  <2>5. ExternalFiles(s) \subseteq {"fcgi-client"}
    BY DEF ExternalFiles
  <2> HIDE DEF names
  <2>6. /\ Usable(names) \subseteq Ext
        /\ Compiled(names) \cup Community(names) \subseteq Ext
    <3>1. def.bundled \subseteq Ext
      BY StageTyped DEF IsDefinition, TypeInv, TypeOK
    <3> QED
      BY <2>3, <3>1, StageLocksAssumption DEF Usable, Compiled, Community
  <2>7. image' = [stage |-> s, outcome |-> "Built",
                  loaded |-> IF def.kind = "php" THEN Usable(names) ELSE {},
                  compiled |-> Compiled(names) \cup Community(names),
                  packages |-> locks[s].packages, external |-> ExternalFiles(s),
                  test |-> ToImageConfig(HealthcheckOf(s))]
    BY <1>1 DEF Build, Built, names
  <2>8. TypeOK'
    BY <2>3, <2>4, <2>5, <2>6, <2>7 DEF TypeInv, TypeOK, Build, Stages, Failures
  <2>9. Outcome(s)' = "Built" /\ ExternalFiles(s)' = ExternalFiles(s)
        /\ HealthcheckOf(s)' = HealthcheckOf(s)
    BY <1>1 DEF Build, Outcome, Accepted, Valid, HealthcheckOf, Merged, ExternalFiles, Infers
  <2>10. ImageInv'
    <3>1. def' = def /\ locks' = locks /\ DOMAIN locks[s].extensions = names
      BY DEF Build, names
    <3>2. /\ Usable(names)' = Usable(names)
          /\ Compiled(names)' = Compiled(names) /\ Community(names)' = Community(names)
      BY <3>1 DEF Usable, Compiled, Community, names
    <3>3. image'.stage = s /\ image'.outcome = "Built" /\ s \in Stages'
      BY <2>7, <3>1 DEF Stages
    <3>4. /\ def'.kind = "php" => image'.loaded = Usable(names)'
          /\ image'.compiled = Compiled(names)' \cup Community(names)'
      BY <2>7, <3>1, <3>2
    <3>5. /\ image'.packages = locks'[s].packages /\ image'.external = ExternalFiles(s)'
          /\ image'.test = ToImageConfig(HealthcheckOf(s)')
      BY <2>7, <2>9, <3>1
    <3> QED
      BY <2>9, <3>1, <3>3, <3>4, <3>5 DEF ImageInv, names
  <2> QED
    BY <2>8, <2>10 DEF TypeInv, UpdateInv, Build, Stages
<1>2. CASE Outcome(s) # "Built"
  <2>1. image' = [stage |-> s, outcome |-> Outcome(s), loaded |-> {}, compiled |-> {},
                  packages |-> {}, external |-> {}, test |-> "none"]
    BY <1>2 DEF Build, Failed
  <2>2. Outcome(s) \in Failures
    BY <1>2 DEF Outcome, Failures
  <2>3. Outcome(s)' = Outcome(s)
    BY DEF Build, Outcome, Accepted, Valid, HealthcheckOf, Merged
  <2>4. TypeOK'
    BY <2>1, <2>2 DEF TypeInv, TypeOK, Build, Stages
  <2>5. ImageInv'
    BY <1>2, <2>1, <2>3 DEF ImageInv, Build, Stages
  <2> QED
    BY <2>4, <2>5 DEF TypeInv, UpdateInv, Build, Stages
<1> QED
  BY <1>1, <1>2

LEMMA TypeNext == TypeInv /\ [Next]_vars => TypeInv'
<1> SUFFICES ASSUME TypeInv, [Next]_vars PROVE TypeInv'
  OBVIOUS
<1>1. CASE StartUpdate
  <2>1. PICK flags \in SUBSET Flags :
          upd' = [pc |-> "stages", flags |-> flags, cache |-> None, todo |-> Stages,
                  out |-> Wild({})]
    BY <1>1 DEF StartUpdate, Idle
  <2>2. DOMAIN Wild({}) = {}
    BY DEF Wild
  <2>3. TypeOK'
    <3>1. /\ upd'.pc = "stages" /\ upd'.flags \subseteq Flags /\ upd'.cache = None
          /\ upd'.todo = Stages /\ DOMAIN upd'.out = {} /\ None \notin {Missing} \cup Unreadable
      BY <2>1, <2>2, StageLocksAssumption
    <3>2. updates' \in 0..MaxUpdates
      BY <1>1, StageLocksAssumption DEF StartUpdate, TypeInv, TypeOK
    <3> QED
      BY <1>1, <3>1, <3>2 DEF StartUpdate, TypeInv, TypeOK, Stages
  <2>4. UpdateInv'
    BY <1>1, <2>1, <2>2, StageLocksAssumption DEF StartUpdate, TypeInv, UpdateInv, Stages
  <2> QED
    BY <2>3, <2>4 DEF TypeInv
<1>2. ASSUME NEW s \in Stages, LockStage(s) PROVE TypeInv'
  BY <1>2, LockStageTyped
<1>3. CASE FinishUpdate
  <2>1. IsComposerLock(LockOf(upd)) /\ Whole(upd) \in BOOLEAN
    BY NothingTyped DEF LockOf, Whole, TypeInv, TypeOK
  <2>2. from' = [lock |-> LockOf(upd), whole |-> Whole(upd)] /\ locks' = upd.out
    BY <1>3 DEF FinishUpdate, LockOf
  <2>3. IsSource(from')
    BY <2>1, <2>2 DEF IsSource
  <2> QED
    BY <1>3, <2>2, <2>3, StageLocksAssumption
    DEF FinishUpdate, TypeInv, TypeOK, UpdateInv, Idle, Stages, Wild
<1>4. CASE AbortUpdate
  BY <1>4, StageLocksAssumption DEF AbortUpdate, TypeInv, TypeOK, UpdateInv, Idle, Stages, Wild
<1>5. CASE EditComposerLock
  BY <1>5, StageLocksAssumption DEF EditComposerLock, TypeInv, TypeOK, UpdateInv, Stages
<1>6. ASSUME NEW s \in Stages, Build(s) PROVE TypeInv'
  BY <1>6, BuildTyped
<1>7. CASE UNCHANGED vars
  BY <1>7 DEF vars, TypeInv, TypeOK, UpdateInv, Stages
<1> QED
  BY <1>1, <1>2, <1>3, <1>4, <1>5, <1>6, <1>7 DEF Next

-----------------------------------------------------------------------------
(* Locks and images.                                                       *)

\* An update that goes on keeps the composer.lock it works on.
LEMMA SameLock ==
  ASSUME TypeInv, ComposerLock(upd) \notin Unreadable
  PROVE  /\ def.kind = "php" => CacheOf(upd) # None
         /\ upd.cache # None => CacheOf(upd) = upd.cache
         /\ ComposerLock(upd) = IF CacheOf(upd) = None THEN Nothing ELSE CacheOf(upd)
<1>1. ComposerLock(upd) \in Contents \cup {Nothing}
  BY ComposerLockTyped
<1>2. None \notin Contents \cup {Nothing}
  BY StageLocksAssumption
<1> QED
  BY <1>1, <1>2 DEF CacheOf, ComposerLock, LockOf, TypeInv, UpdateInv

\* What a whole update locks for a stage is what its composer.lock asks for.
LEMMA StageIsLocked ==
  ASSUME TypeInv, NEW s \in Stages, ComposerLock(upd) \notin Unreadable,
         NEW extensions, NEW packages,
         def.kind = "php" =>
           extensions \in LockedExtensions(Extensions(s, ComposerLock(upd))),
         packages = SystemPackages(s, ComposerLock(upd))
  PROVE  LockedFrom(ComposerLock(upd), [packages |-> packages, extensions |-> extensions], s)
<1> DEFINE c == ComposerLock(upd)
<1>1. def \in Inputs /\ IsComposerLock(c)
  BY ComposerLockTyped DEF TypeInv, TypeOK
<1>2. /\ IsVersionMap(Extensions(s, c)) /\ DOMAIN Extensions(s, c) = Wanted(s, c)
      /\ \A e \in DOMAIN Extensions(s, c) : Extensions(s, c)[e] = ConstraintOn(e, s, c)
  BY <1>1, ExtensionsTyped, Zenon
<1>3. Infers => DepsOf(Wanted(s, c)) \subseteq packages
  <2>1. Infers => DepsOf(Wanted(s, c)) \subseteq SystemPackages(s, c)
    BY <1>1, PackagesTyped, Zenon
  <2> QED
    BY <2>1
<1>4. ASSUME def.kind = "php"
      PROVE  /\ DOMAIN extensions = Wanted(s, c) \ Preinstalled
             /\ \A e \in DOMAIN extensions : Satisfies(extensions[e], ConstraintOn(e, s, c))
  <2>1. extensions \in LockedExtensions(Extensions(s, c))
    BY <1>4
  <2>2. /\ DOMAIN extensions = DOMAIN Extensions(s, c) \ Preinstalled
        /\ \A e \in DOMAIN extensions : Satisfies(extensions[e], Extensions(s, c)[e])
    BY <1>2, <2>1, LockedTyped, Zenon
  <2> QED
    BY <1>2, <2>2
<1>5. def.kind = "webserver" /\ Enabled(HealthcheckOf(s)) => "curl" \in packages
  BY DEF SystemPackages
<1>6. Infers => DepsOf(DOMAIN extensions) \subseteq packages
  BY <1>3, <1>4 DEF DepsOf, Infers
<1> QED
  BY <1>4, <1>5, <1>6 DEF LockedFrom

\* LockedFrom speaks of the definition, which never changes.
LEMMA LockedFromStable ==
  ASSUME def' = def, NEW c, NEW l, NEW s
  PROVE  LockedFrom(c, l, s)' <=> LockedFrom(c, l, s)
BY DEF LockedFrom, Wanted, ConstraintOn, Infers, DepsOf, HealthcheckOf, Merged, Enabled

LEMMA LockStageLocks ==
  ASSUME TypeInv, LockInv, NEW s \in Stages, LockStage(s)
  PROVE  LockInv'
<1>1. PICK extensions \in IF def.kind = "php" /\ "extensions" \in upd.flags
                            THEN LockedExtensions(Extensions(s, ComposerLock(upd)))
                            ELSE {KeptLocks(s).extensions} :
        LET packages == IF "packages" \in upd.flags THEN SystemPackages(s, ComposerLock(upd))
                        ELSE KeptLocks(s).packages
            lock == [packages |-> packages, extensions |-> extensions]
        IN  upd' = [upd EXCEPT !.cache = CacheOf(upd), !.todo = @ \ {s},
                      !.out = [t \in DOMAIN @ \cup {s} |-> IF t = s THEN lock ELSE @[t]]]
  BY DEF LockStage
<1> DEFINE packages == IF "packages" \in upd.flags THEN SystemPackages(s, ComposerLock(upd))
                       ELSE KeptLocks(s).packages
           lock == [packages |-> packages, extensions |-> extensions]
<1>2. upd' = [pc |-> upd.pc, flags |-> upd.flags, cache |-> CacheOf(upd),
              todo |-> upd.todo \ {s},
              out |-> [t \in DOMAIN upd.out \cup {s} |-> IF t = s THEN lock ELSE upd.out[t]]]
  BY <1>1 DEF TypeInv, UpdateInv
<1>3. Whole(upd) => LockedFrom(ComposerLock(upd), lock, s)
  <2> SUFFICES ASSUME Whole(upd) PROVE LockedFrom(ComposerLock(upd), lock, s)
    OBVIOUS
  <2>1. packages = SystemPackages(s, ComposerLock(upd)) /\ ComposerLock(upd) \notin Unreadable
    BY DEF Whole, Flags, LockStage
  <2>2. def.kind = "php" => extensions \in LockedExtensions(Extensions(s, ComposerLock(upd)))
    BY <1>1 DEF Whole, Flags
  <2> HIDE DEF packages
  <2> QED
    BY <2>1, <2>2, StageIsLocked, Zenon
<1> HIDE DEF lock
<1>4. /\ def.kind = "php" => CacheOf(upd) # None
      /\ upd.cache # None => CacheOf(upd) = upd.cache
      /\ ComposerLock(upd) = LockOf(upd')
  BY <1>2, SameLock DEF LockStage, LockOf
<1>5. ASSUME Whole(upd), NEW t \in DOMAIN upd'.out
      PROVE  LockedFrom(LockOf(upd'), upd'.out[t], t)
  <2>1. CASE t = s
    BY <1>2, <1>3, <1>4, <1>5, <2>1
  <2>2. CASE t # s
    <3>1. /\ t \in DOMAIN upd.out /\ upd'.out[t] = upd.out[t]
          /\ LockedFrom(LockOf(upd), upd.out[t], t)
      BY <1>2, <1>5, <2>2 DEF LockInv
    <3>2. LockOf(upd) = LockOf(upd')
      BY <1>2, <1>4, <1>5, <3>1 DEF LockOf, LockInv, CacheOf, TypeInv, UpdateInv
    <3> QED
      BY <3>1, <3>2
  <2> QED
    BY <2>1, <2>2
<1>6. def' = def /\ from' = from /\ locks' = locks /\ Whole(upd') = Whole(upd)
  BY <1>2 DEF LockStage, Whole
<1>7. \A t \in DOMAIN upd'.out : Valid(t)
  BY <1>2 DEF LockStage, LockInv
<1>8. \A c, l, t : LockedFrom(c, l, t)' <=> LockedFrom(c, l, t)
  BY <1>6, LockedFromStable
<1> QED
  BY <1>2, <1>4, <1>5, <1>6, <1>7, <1>8 DEF LockInv, Accepted, Valid, Stages, LockStage, LockOf

LEMMA LockNext == TypeInv /\ LockInv /\ [Next]_vars => LockInv'
<1> SUFFICES ASSUME TypeInv, LockInv, [Next]_vars PROVE LockInv'
  OBVIOUS
<1>1. def' = def
  BY DEF Next, vars, StartUpdate, FinishUpdate, AbortUpdate, EditComposerLock, LockStage, Build
<1>2. \A c, l, t : LockedFrom(c, l, t)' <=> LockedFrom(c, l, t)
  BY <1>1, LockedFromStable
<1>3. Accepted(def)' <=> Accepted(def)
  BY <1>1 DEF Accepted
<1>4. \A s : Valid(s)' <=> Valid(s)
  BY <1>1 DEF Valid
<1>5. CASE StartUpdate
  <2>1. DOMAIN upd'.out = {} /\ DOMAIN Wild({}) = {}
    BY <1>5 DEF StartUpdate, Idle, Wild
  <2> QED
    BY <1>1, <1>2, <1>3, <1>4, <1>5, <2>1 DEF LockInv, StartUpdate, Stages
<1>6. ASSUME NEW s \in Stages, LockStage(s) PROVE LockInv'
  BY <1>6, LockStageLocks
<1>7. CASE FinishUpdate
  <2>1. /\ from' = [lock |-> LockOf(upd), whole |-> Whole(upd)] /\ locks' = upd.out
        /\ upd' = Idle /\ upd.pc = "stages"
    BY <1>7 DEF FinishUpdate, LockOf
  <2>2. DOMAIN upd.out = Stages
    BY <1>7 DEF FinishUpdate, TypeInv, UpdateInv
  <2>3. LockOf(upd) \in Contents \cup {Nothing}
    BY DEF LockOf, TypeInv, UpdateInv
  <2>4. DOMAIN upd'.out = {} /\ upd'.pc = "idle"
    BY <2>1 DEF Idle, Wild
  <2>5. from'.lock = LockOf(upd) /\ from'.whole = Whole(upd)
    BY <2>1
  <2> QED
    BY <1>1, <1>2, <1>3, <1>4, <2>1, <2>2, <2>3, <2>4, <2>5 DEF LockInv, Stages
<1>8. CASE AbortUpdate
  <2>1. DOMAIN upd'.out = {} /\ upd'.pc = "idle"
    BY <1>8 DEF AbortUpdate, Idle, Wild
  <2> QED
    BY <1>1, <1>2, <1>3, <1>4, <1>8, <2>1 DEF LockInv, AbortUpdate, Stages
<1>9. CASE EditComposerLock
  BY <1>1, <1>2, <1>3, <1>4, <1>9 DEF LockInv, EditComposerLock, Stages, Whole, LockOf
<1>10. ASSUME NEW s \in Stages, Build(s) PROVE LockInv'
  BY <1>1, <1>2, <1>3, <1>4, <1>10 DEF LockInv, Build, Stages, Whole, LockOf
<1>11. CASE UNCHANGED vars
  BY <1>1, <1>2, <1>3, <1>4, <1>11 DEF LockInv, vars, Stages, Whole, LockOf
<1> QED
  BY <1>5, <1>6, <1>7, <1>8, <1>9, <1>10, <1>11 DEF Next

\* Only builds leave an image.
LEMMA ImageNext == TypeInv /\ ImageInv /\ [Next]_vars => ImageInv'
<1> SUFFICES ASSUME TypeInv, ImageInv, [Next]_vars PROVE ImageInv'
  OBVIOUS
<1>1. ASSUME NEW s \in Stages, Build(s) PROVE ImageInv'
  BY <1>1, BuildTyped
<1>2. CASE image' = None
  BY <1>2 DEF ImageInv
<1>3. CASE UNCHANGED vars
  <2> DEFINE names == DOMAIN locks[image.stage].extensions
  <2>1. Outcome(image.stage)' = Outcome(image.stage) /\ def' = def /\ image' = image
    BY <1>3 DEF vars, Outcome, Accepted, Valid, HealthcheckOf, Merged
  <2>2. Usable(names)' = Usable(names) /\ names' = names
    BY <1>3 DEF vars, Usable
  <2>3. /\ ExternalFiles(image.stage)' = ExternalFiles(image.stage)
        /\ ToImageConfig(HealthcheckOf(image.stage))' = ToImageConfig(HealthcheckOf(image.stage))
    BY <1>3 DEF vars, HealthcheckOf, Merged, ExternalFiles
  <2> QED
    BY <1>3, <2>1, <2>2, <2>3 DEF ImageInv, vars, Stages
<1> QED
  BY <1>1, <1>2, <1>3 DEF Next, StartUpdate, FinishUpdate, AbortUpdate, EditComposerLock, LockStage

THEOREM Inductive == Spec => []IInv
<1>1. Init => IInv
  <2>1. DOMAIN Wild({}) = {}
    BY DEF Wild
  <2> QED
    BY <2>1, TypeInit DEF Init, IInv, LockInv, ImageInv, Idle
<1>2. IInv /\ [Next]_vars => IInv'
  BY TypeNext, LockNext, ImageNext DEF IInv
<1> QED
  BY <1>1, <1>2, PTL DEF Spec

\* TypeOK holds in every reachable state, and with it the lists of the locks and of
\* images stay within the extensions and packages there are.
THEOREM TypeCorrect == Spec => []TypeOK
<1>1. IInv => TypeOK
  BY DEF IInv, TypeInv
<1> QED
  BY <1>1, Inductive, PTL

-----------------------------------------------------------------------------
(* What the locks and the images promise.                                  *)

\* In every reachable state the extensions locked by a whole update are those that one
\* composer.lock requires of all the stages (composer.go:19-48).
THEOREM OneLock == Spec => []OneComposerLock
<1>1. IInv => OneComposerLock
  <2> SUFFICES ASSUME IInv, def.kind = "php", from # None, from.whole
               PROVE  \E c \in Contents \cup {Nothing} : \A s \in Stages :
                        /\ DOMAIN locks[s].extensions = Wanted(s, c) \ Preinstalled
                        /\ \A e \in DOMAIN locks[s].extensions :
                             Satisfies(locks[s].extensions[e], ConstraintOn(e, s, c))
    BY DEF OneComposerLock
  <2>1. from.lock \in Contents \cup {Nothing} /\ \A s \in Stages : LockedFrom(from.lock, locks[s], s)
    BY DEF IInv, LockInv
  <2> QED
    BY <2>1 DEF LockedFrom
<1> QED
  BY <1>1, Inductive, PTL

\* An image that a whole update is behind is made of locks that hold.
LEMMA BuiltLocked ==
  ASSUME IInv, BuiltWhole
  PROVE  /\ image.stage \in Stages /\ def \in Inputs
         /\ from.lock \in Contents \cup {Nothing} /\ IsComposerLock(from.lock)
         /\ LockedFrom(from.lock, locks[image.stage], image.stage)
         /\ def.kind = "php" => image.loaded = Usable(DOMAIN locks[image.stage].extensions)
         /\ image.compiled = Compiled(DOMAIN locks[image.stage].extensions)
                               \cup Community(DOMAIN locks[image.stage].extensions)
         /\ image.packages = locks[image.stage].packages
         /\ image.external = ExternalFiles(image.stage)
         /\ image.test = ToImageConfig(HealthcheckOf(image.stage))
BY StageLocksAssumption, NothingTyped DEF IInv, TypeInv, TypeOK, LockInv, ImageInv, BuiltWhole

\* In every reachable state an image that was built has the extensions its stage needs.
THEOREM RequirementsAreMet == Spec => []RequirementsMet
<1>1. IInv => RequirementsMet
  <2> SUFFICES ASSUME IInv, BuiltWhole, def.kind = "php",
                      NEW e \in Wanted(image.stage, from.lock),
                      ~(e \in Alias /\ "gd" \notin Wanted(image.stage, from.lock)),
                      e \notin Preinstalled \ def.bundled
               PROVE  e \in image.loaded
    BY DEF RequirementsMet
  <2> DEFINE names == DOMAIN locks[image.stage].extensions
  <2>1. /\ names = Wanted(image.stage, from.lock) \ Preinstalled
        /\ image.loaded = Usable(names)
    BY BuiltLocked DEF LockedFrom
  <2>2. CASE e \in Preinstalled
    BY <2>1, <2>2 DEF Usable
  <2>3. CASE e \notin Preinstalled /\ e \in Alias
    <3>1. "gd" \in names /\ e \in names
      BY <2>1, <2>3, StageLocksAssumption
    <3> QED
      BY <2>1, <2>3, <3>1 DEF Usable
  <2>4. CASE e \notin Preinstalled /\ e \notin Alias
    BY <2>1, <2>4 DEF Usable, Compiled, Community
  <2> QED
    BY <2>2, <2>3, <2>4
<1> QED
  BY <1>1, Inductive, PTL

\* In every reachable state an image has the packages its extensions need.
THEOREM DepsAreLocked == Spec => []DepsLocked
<1>1. IInv => DepsLocked
  <2> SUFFICES ASSUME IInv, BuiltWhole, Infers
               PROVE  DepsOf(image.compiled) \subseteq image.packages
    BY DEF DepsLocked
  <2> DEFINE names == DOMAIN locks[image.stage].extensions
  <2>1. /\ DepsOf(names) \subseteq image.packages
        /\ image.compiled = Compiled(names) \cup Community(names)
    BY BuiltLocked DEF LockedFrom
  <2>2. image.compiled \subseteq names
    BY <2>1 DEF Compiled, Community
  <2> HIDE DEF names
  <2> QED
    BY <2>1, <2>2 DEF DepsOf
<1> QED
  BY <1>1, Inductive, PTL

\* In every reachable state what a whole update locked can be built.
THEOREM LockedStagesCanBuild == Spec => []LockedStagesBuild
<1>1. IInv => LockedStagesBuild
  <2> SUFFICES ASSUME IInv, image # None, from # None, from.whole
               PROVE  \/ image.outcome \in {"Built", "Undecodable"}
                      \/ image.outcome = "Panic" /\ (def.kind = "webserver" \/ composer = Mistyped)
                      \/ image.outcome = "NotCompiled" /\ ~Infers
    BY DEF LockedStagesBuild
  <2> DEFINE s == image.stage
             names == DOMAIN locks[s].extensions
  <2>1. /\ s \in Stages /\ image.outcome = Outcome(s) /\ DOMAIN locks = Stages
        /\ Accepted(def) /\ Valid(s) /\ LockedFrom(from.lock, locks[s], s)
    BY DEF IInv, TypeInv, UpdateInv, LockInv, ImageInv
  <2>2. image.outcome \notin {"Rejected", "Invalid", "NoLocks"}
    BY <2>1 DEF Outcome
  <2>3. Infers => Compiles(names)
    <3>1. Infers => "zip" \in names
      BY <2>1, StageLocksAssumption DEF LockedFrom, Wanted, Infers
    <3> QED
      BY <3>1, StageLocksAssumption DEF Compiles, Compiled, Alias
  <2>4. def.kind # "webserver" => ToImageConfig(HealthcheckOf(s)) # "panic"
    <3> SUFFICES ASSUME def.kind # "webserver" PROVE ToImageConfig(HealthcheckOf(s)) # "panic"
      OBVIOUS
    <3>1. \A t \in DOMAIN def.health : IsValid(def.health[t], def.kind)
      BY <2>1 DEF Accepted
    <3>2. DOMAIN def.health = Stages \cup {"base"} /\ def.health \in [DOMAIN def.health -> Healthcheck \cup {None}]
      BY <2>1, StageTyped DEF IsDefinition, Stages, IInv, TypeInv, TypeOK
    <3>3. IsValid(HealthcheckOf(s), def.kind)
      BY <2>1, <3>1, <3>2 DEF HealthcheckOf, Merged, DefaultHealthcheck, IsValid, TypeIsValid, AllowedTypes
    <3>4. HealthcheckOf(s) \in Healthcheck \cup {None}
      BY <2>1, HealthcheckTyped DEF IInv, TypeInv, TypeOK
    <3> QED
      BY <3>3, <3>4 DEF ToImageConfig, IsValid, Enabled, Healthcheck, Types
  <2> HIDE DEF names, s
  <2>5. Outcome(s) \in {"Undecodable", "NotCompiled", "Panic", "Built", "Rejected", "Invalid", "NoLocks"}
    BY DEF Outcome
  <2>6. Outcome(s) = "NotCompiled" => ~Infers
    BY <2>3 DEF Outcome, names
  <2>7. Outcome(s) = "Panic" => def.kind = "webserver" \/ composer = Mistyped
    BY <2>4 DEF Outcome
  <2> QED
    BY <2>1, <2>2, <2>5, <2>6, <2>7
<1> QED
  BY <1>1, Inductive, PTL

\* In every reachable state the healthcheck of an image finds its client.
THEOREM HealthchecksHaveClients == Spec => []HealthcheckHasClient
<1>1. IInv => HealthcheckHasClient
  <2> SUFFICES ASSUME IInv, BuiltWhole PROVE HealthcheckHasClient
    BY DEF HealthcheckHasClient
  <2> DEFINE s == image.stage
  <2>1. /\ s \in Stages /\ image.test = ToImageConfig(HealthcheckOf(s))
        /\ image.external = ExternalFiles(s) /\ image.packages = locks[s].packages
        /\ LockedFrom(from.lock, locks[s], s)
    BY BuiltLocked
  <2> HIDE DEF s
  <2>2. image.test \in {"http", "fcgi"} => Enabled(HealthcheckOf(s)) /\ HealthcheckOf(s).type = image.test
    BY <2>1 DEF ToImageConfig
  <2> QED
    BY <2>1, <2>2 DEF HealthcheckHasClient, ExternalFiles, LockedFrom
<1> QED
  BY <1>1, Inductive, PTL

=============================================================================
