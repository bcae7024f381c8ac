------------------------------ MODULE StageLocks ------------------------------
(***************************************************************************)
(* What the handlers lock for each stage of a definition, and what a build *)
(* makes of it.  `zbuild update` resolves the stages one after the other:  *)
(* for a php stage it reads the extensions composer.lock requires, once    *)
(* per update, infers others and the system packages they need, then locks *)
(* both lists.  Builds resolve their stage again but install what is       *)
(* locked.  Meanwhile the user edits composer.lock.                        *)
(*                                                                         *)
(* Stages are the merged ones of StageChain.  The versions of packages are *)
(* left to PackageSolver: a list of packages is a set of names.            *)
(***************************************************************************)
EXTENDS Naturals

CONSTANTS
  Inputs,        \* the definitions
  Ext, Package, Version,
  Core,          \* extensions compiled from the sources of php
  Preinstalled,  \* extensions taken to be in every base image
  Deps,          \* [Ext -> [OS -> SUBSET Package]]: extensionsDeps
  Pecl,          \* [Ext -> SUBSET Version]: what the index of PECL has
  Contents,      \* what composer.lock may hold
  MaxEdits, MaxUpdates, \* bounds for TLC
  Missing, Broken, Mistyped, None \* Mistyped: a platform value that is not a string

OS == {"debian", "alpine"}
AnyVersion == "*"
Types == {"http", "fcgi", "cmd"}
Flags == {"packages", "extensions"}
Inferable == {"apcu", "opcache", "soap", "sockets", "zip"}
Alias == {"gd.freetype", "gd.jpeg", "gd.webp"}

\* An optional block of parameters per type: users may give any of them.
Healthcheck == [type : Types \cup {"disabled", "unset"}, blocks : SUBSET Types]

\* A map from names to version constraints.
IsVersionMap(m) == DOMAIN m \subseteq Ext /\ m \in [DOMAIN m -> Version \cup {AnyVersion}]
Wild(S) == [e \in S |-> AnyVersion]
Adding(m, more) ==
  [e \in DOMAIN m \cup DOMAIN more |-> IF e \in DOMAIN m THEN m[e] ELSE more[e]]
Merging(m, overriding) == Adding(overriding, m)

IsStage(stage) ==
  /\ stage.dev \in BOOLEAN /\ stage.served \in BOOLEAN /\ stage.command \in BOOLEAN
  /\ stage.dump \subseteq {"apcu", "authoritative"}
  /\ IsVersionMap(stage.extensions) /\ stage.packages \subseteq Package

\* served: FPM for php, not a frontend for nodejs. health: of "base" and of stages.
\* bundled: the extensions that its base image really has.
IsDefinition(d) ==
  /\ d.kind \in {"php", "nodejs", "webserver"} /\ d.os \in OS /\ d.infer \in BOOLEAN
  /\ d.bundled \subseteq Ext
  /\ \A s \in DOMAIN d.stages : IsStage(d.stages[s])
  /\ d.health \in [DOMAIN d.stages \cup {"base"} -> Healthcheck \cup {None}]

IsComposerLock(c) == IsVersionMap(c.prod) /\ IsVersionMap(c.dev)
\* An error for the one, a panic for the other.
Unreadable == {Broken, Mistyped}
Nothing == [prod |-> Wild({}), dev |-> Wild({})]

ASSUME StageLocksAssumption ==
  /\ \A d \in Inputs : IsDefinition(d)
  /\ Inferable \subseteq Ext /\ {"git", "unzip", "curl"} \subseteq Package
  /\ Core \subseteq Ext /\ Preinstalled \subseteq Ext
  /\ "zip" \in Core /\ {"zip", "gd"} \cap Preinstalled = {}
  /\ Deps \in [Ext -> [OS -> SUBSET Package]]
  /\ Pecl \in [Ext -> SUBSET Version]
  /\ \A c \in Contents : IsComposerLock(c)
  /\ MaxEdits \in Nat /\ MaxUpdates \in Nat
  /\ ({None} \cup Unreadable \cup {Missing}) \cap (Contents \cup {Nothing}) = {}
  /\ None \notin {Missing} \cup Unreadable

VARIABLES
  def,
  composer, \* composer.lock in the context
  upd,      \* the update in progress
  locks,    \* what the lockfile has: a function of the stages it locks
  image,    \* what the last step made, if it was a build
  from,     \* ghost: what the locks come from
  edits, updates

vars == <<def, composer, upd, locks, image, from, edits, updates>>

Stages == DOMAIN def.stages
NoStageLocks == [packages |-> {}, extensions |-> Wild({})]
Idle == [pc |-> "idle", flags |-> {}, cache |-> None, todo |-> {}, out |-> Wild({})]

IsStageLocks(l) == l.packages \subseteq Package /\ IsVersionMap(l.extensions)
IsSource(f) == IsComposerLock(f.lock) /\ f.whole \in BOOLEAN

Failures == {"Rejected", "NoLocks", "Undecodable", "Invalid", "NotCompiled", "Panic"}

TypeOK ==
  /\ def \in Inputs
  /\ composer \in Contents \cup {Missing} \cup Unreadable
  /\ upd.pc \in {"idle", "stages"} /\ upd.flags \subseteq Flags
  /\ upd.cache \notin {Missing} \cup Unreadable /\ (upd.cache # None => IsComposerLock(upd.cache))
  /\ upd.todo \subseteq Stages
  /\ \A s \in DOMAIN upd.out : s \in Stages /\ IsStageLocks(upd.out[s])
  /\ \A s \in DOMAIN locks : s \in Stages /\ IsStageLocks(locks[s])
  /\ from = None \/ IsSource(from)
  /\ image = None \/
       /\ image.stage \in Stages /\ image.outcome \in Failures \cup {"Built"}
       /\ image.loaded \subseteq Ext /\ image.compiled \subseteq Ext
       /\ image.packages \subseteq Package /\ image.external \subseteq {"fcgi-client"}
       /\ image.test \in Types \cup {"none", "empty"}
  /\ edits \in 0..MaxEdits /\ updates \in 0..MaxUpdates

-----------------------------------------------------------------------------
(* Healthchecks.                                                           *)

Disabled == [type |-> "disabled", blocks |-> {}]
DefaultHealthcheck(kind) ==
  IF kind = "php" THEN [type |-> "fcgi", blocks |-> {"fcgi"}]
  ELSE [type |-> "http", blocks |-> {"http"}]
DecodeBool(kind, b) == IF b THEN DefaultHealthcheck(kind) ELSE Disabled

AllowedTypes(kind) == IF kind = "php" THEN {"fcgi", "cmd"} ELSE {"http", "cmd"}

\* The comparison is with "is not": two allowed types allow every type.
TypeIsValid(type, allowed) == type # "disabled" => \E t \in allowed : t # type

\* The parameters of the type have to be there.
IsValid(hc, kind) ==
  hc # None =>
    /\ TypeIsValid(hc.type, AllowedTypes(kind))
    /\ hc.type # "disabled" => hc.type \in hc.blocks

\* A slip: derived stages are not looked at.
AcceptedBase(d) == IF d.kind = "webserver" THEN TRUE ELSE IsValid(d.health["base"], d.kind)

\* A webserver definition is only asked for its type.
Accepted(d) ==
  \A s \in DOMAIN d.health :
    LET hc == d.health[s] IN
    IF d.kind = "webserver"
      THEN hc # None => TypeIsValid(hc.type, AllowedTypes(d.kind))
      ELSE IsValid(hc, d.kind)

Merged(s) ==
  IF def.health[s] # None THEN def.health[s]
  ELSE IF def.health["base"] # None THEN def.health["base"]
  ELSE DefaultHealthcheck(def.kind)

HealthcheckOf(s) ==
  IF def.kind # "webserver" /\ (def.stages[s].dev \/ ~def.stages[s].served) THEN None
  ELSE Merged(s)

Enabled(hc) == hc # None /\ hc.type # "disabled"

\* The command of the image's healthcheck; the parameters are dereferenced.
ToImageConfig(hc) ==
  IF ~Enabled(hc) THEN "none" ELSE IF hc.type = "unset" THEN "empty"
  ELSE IF hc.type \in hc.blocks THEN hc.type ELSE "panic"

ExternalFiles(s) ==
  LET hc == HealthcheckOf(s) IN
  IF def.kind = "php" /\ Enabled(hc) /\ hc.type = "fcgi" THEN {"fcgi-client"} ELSE {}

-----------------------------------------------------------------------------
(* Resolution of a stage.                                                  *)

\* What LoadComposerLock returns.
Loaded == IF composer = Missing THEN Nothing ELSE composer

\* A slip: composer.lock is loaded for each stage.
ReloadedLock(u) == IF def.kind # "php" THEN Nothing ELSE Loaded

\* What the loader shared by the stages of an update has, after it is called.
ComposerLock(u) ==
  IF def.kind # "php" THEN Nothing ELSE IF u.cache # None THEN u.cache ELSE Loaded

\* A slip: packages-dev are left out.
PlatformReqsProd(s, lock) == lock.prod
PlatformReqs(s, lock) ==
  IF def.stages[s].dev THEN Merging(lock.prod, lock.dev) ELSE lock.prod

Valid(s) ==
  def.kind = "php" =>
    /\ def.stages[s].served \/ def.stages[s].command
    /\ def.stages[s].dump # {"apcu", "authoritative"}

Infers == def.kind = "php" /\ def.infer

AtRuntime(s) ==
  IF ~def.stages[s].dev /\ def.stages[s].served THEN Wild({"apcu", "opcache"}) ELSE Wild({})

Required(s, lock) ==
  Adding(Adding(def.stages[s].extensions, AtRuntime(s)), PlatformReqs(s, lock))

Extensions(s, lock) ==
  IF ~Infers THEN def.stages[s].extensions
  ELSE LET required == Required(s, lock)
           soap == IF "soap" \in DOMAIN required THEN {"sockets"} ELSE {}
       IN  Adding(Adding(required, Wild(soap)), Wild({"zip"}))

DepsOf(names) == UNION {Deps[e][def.os] : e \in names}

\* Slips: packages inferred before extensions are; curl left out.
SystemPackagesFirst(s, lock) ==
  def.stages[s].packages \cup (IF Infers THEN DepsOf(DOMAIN Required(s, lock)) ELSE {})
SystemPackagesOnly(s, lock) ==
  def.stages[s].packages
    \cup (IF Infers THEN DepsOf(DOMAIN Extensions(s, lock)) \cup {"git", "unzip"} ELSE {})

SystemPackages(s, lock) ==
  def.stages[s].packages
    \cup (IF Infers THEN DepsOf(DOMAIN Extensions(s, lock)) \cup {"git", "unzip"} ELSE {})
    \cup (IF def.kind = "webserver" /\ Enabled(HealthcheckOf(s)) THEN {"curl"} ELSE {})

-----------------------------------------------------------------------------
(* zbuild update, past the base image.                                     *)

Satisfies(v, constraint) == constraint = AnyVersion \/ v = constraint

\* Preinstalled extensions are removed; constraints on core ones are locked as they
\* are, and PECL answers any version that satisfies the others.
LockedExtensions(extensions) ==
  LET names == DOMAIN extensions \ Preinstalled
      pecl == names \ Core
      found == {m \in [pecl -> Version] :
                  \A e \in pecl : m[e] \in Pecl[e] /\ Satisfies(m[e], extensions[e])}
  IN  {[e \in names |-> IF e \in pecl THEN m[e] ELSE extensions[e]] : m \in found}

StartUpdate ==
  /\ upd.pc = "idle" /\ updates < MaxUpdates
  /\ Accepted(def)
  /\ \E flags \in SUBSET Flags :
       upd' = [Idle EXCEPT !.pc = "stages", !.flags = flags, !.todo = Stages]
  /\ updates' = updates + 1
  /\ image' = None
  /\ UNCHANGED <<def, composer, locks, from, edits>>

KeptLocks(s) == IF s \in DOMAIN locks THEN locks[s] ELSE NoStageLocks

\* A slip: that composer.lock is not there is not remembered.
CacheMissing(u) == IF u.cache = None THEN composer ELSE u.cache
CacheOf(u) == IF def.kind = "php" THEN ComposerLock(u) ELSE None

LockStage(s) ==
  /\ upd.pc = "stages" /\ s \in upd.todo
  /\ ComposerLock(upd) \notin Unreadable
  /\ Valid(s)
  /\ \E extensions \in IF def.kind = "php" /\ "extensions" \in upd.flags
                         THEN LockedExtensions(Extensions(s, ComposerLock(upd)))
                         ELSE {KeptLocks(s).extensions} :
       LET packages == IF "packages" \in upd.flags THEN SystemPackages(s, ComposerLock(upd))
                       ELSE KeptLocks(s).packages
           lock == [packages |-> packages, extensions |-> extensions]
       IN  upd' = [upd EXCEPT !.cache = CacheOf(upd), !.todo = @ \ {s},
                     !.out = [t \in DOMAIN @ \cup {s} |-> IF t = s THEN lock ELSE @[t]]]
  /\ image' = None
  /\ UNCHANGED <<def, composer, locks, from, edits, updates>>

\* Lists that are not updated are those of the update before.
Whole(u) == u.flags = Flags

FinishUpdate ==
  /\ upd.pc = "stages" /\ upd.todo = {}
  /\ locks' = upd.out
  /\ from' = [lock |-> IF upd.cache = None THEN Nothing ELSE upd.cache, whole |-> Whole(upd)]
  /\ upd' = Idle
  /\ image' = None
  /\ UNCHANGED <<def, composer, edits, updates>>

\* A stage that is not valid, a composer.lock that does not decode or makes the update
\* panic, a version that PECL or the package manager does not have: nothing is written.
AbortUpdate ==
  /\ upd.pc = "stages"
  /\ upd' = Idle
  /\ image' = None
  /\ UNCHANGED <<def, composer, locks, from, edits, updates>>

-----------------------------------------------------------------------------
(* Builds.                                                                 *)

Compiled(names) == (names \cap Core) \ Alias
Community(names) == names \ Core

\* docker-php-ext-install fails when it is given no extension.
Compiles(names) == names \cap Core # {} => Compiled(names) # {}

\* An alias only passes a flag to the build of gd.
Usable(names) ==
  def.bundled \cup Compiled(names) \cup Community(names)
    \cup (IF "gd" \in names THEN names \cap Alias ELSE {})

Outcome(s) ==
  IF ~Accepted(def) THEN "Rejected"
  ELSE IF def.kind = "php" /\ composer = Broken THEN "Undecodable"
  ELSE IF def.kind = "php" /\ composer = Mistyped THEN "Panic"
  ELSE IF ~Valid(s) THEN "Invalid"
  ELSE IF s \notin DOMAIN locks THEN "NoLocks"
  ELSE IF ~Compiles(DOMAIN locks[s].extensions) THEN "NotCompiled"
  ELSE IF ToImageConfig(HealthcheckOf(s)) = "panic" THEN "Panic" ELSE "Built"

Failed(s) ==
  [stage |-> s, outcome |-> Outcome(s), loaded |-> {}, compiled |-> {}, packages |-> {},
   external |-> {}, test |-> "none"]

Built(s) ==
  LET names == DOMAIN locks[s].extensions IN
  [stage |-> s, outcome |-> "Built",
   loaded |-> IF def.kind = "php" THEN Usable(names) ELSE {},
   compiled |-> Compiled(names) \cup Community(names),
   packages |-> locks[s].packages, external |-> ExternalFiles(s),
   test |-> ToImageConfig(HealthcheckOf(s))]

Build(s) ==
  /\ image' = IF Outcome(s) = "Built" THEN Built(s) ELSE Failed(s)
  /\ UNCHANGED <<def, composer, upd, locks, from, edits, updates>>

\* Only php definitions read composer.lock.
EditComposerLock ==
  /\ def.kind = "php" /\ edits < MaxEdits
  /\ composer' \in (Contents \cup {Missing} \cup Unreadable) \ {composer}
  /\ edits' = edits + 1
  /\ image' = None
  /\ UNCHANGED <<def, upd, locks, from, updates>>

Init ==
  /\ def \in Inputs
  /\ composer \in IF def.kind = "php" THEN Contents \cup {Missing} \cup Unreadable ELSE {Missing}
  /\ upd = Idle /\ locks = Wild({}) /\ image = None /\ from = None
  /\ edits = 0 /\ updates = 0

Next ==
  \/ StartUpdate \/ FinishUpdate \/ AbortUpdate \/ EditComposerLock
  \/ \E s \in Stages : LockStage(s) \/ Build(s)

Spec == Init /\ [][Next]_vars

-----------------------------------------------------------------------------
(* Properties.                                                             *)

\* The extensions a stage needs, given a composer.lock.
Wanted(s, c) ==
  LET stage == def.stages[s]
      runtime == IF stage.dev \/ ~stage.served THEN {} ELSE {"apcu", "opcache"}
      reqs == DOMAIN c.prod \cup (IF stage.dev THEN DOMAIN c.dev ELSE {})
      all == DOMAIN stage.extensions \cup runtime \cup reqs \cup {"zip"}
  IN  IF ~Infers THEN DOMAIN stage.extensions
      ELSE IF "soap" \in all THEN all \cup {"sockets"} ELSE all

\* The constraint on an extension: the one of the definition, or that of the packages
\* of the stage.
ConstraintOn(e, s, c) ==
  LET stage == def.stages[s] IN
  IF e \in DOMAIN stage.extensions THEN stage.extensions[e]
  ELSE IF e \in {"apcu", "opcache"} /\ ~stage.dev /\ stage.served THEN AnyVersion
  ELSE IF stage.dev /\ e \in DOMAIN c.dev THEN c.dev[e]
  ELSE IF e \in DOMAIN c.prod THEN c.prod[e] ELSE AnyVersion

\* The extensions a whole update locks are, for all of the stages, those that one and
\* the same composer.lock requires, whatever the order of the stages and the edits of
\* the file, and under the constraints users gave when they did
\* (builddef/builddef.go:58-63: "add infered items without rewriting manually-defined
\* values").  Development requirements stay out of the other stages.
OneComposerLock ==
  def.kind = "php" /\ from # None /\ from.whole =>
    \E c \in Contents \cup {Nothing} : \A s \in Stages :
      /\ DOMAIN locks[s].extensions = Wanted(s, c) \ Preinstalled
      /\ \A e \in DOMAIN locks[s].extensions :
           Satisfies(locks[s].extensions[e], ConstraintOn(e, s, c))

BuiltWhole == image # None /\ image.outcome = "Built" /\ from # None /\ from.whole

\* An image has every extension its definition and the composer.lock of the update
\* require (docs/kind-php.md:68-73), whatever was removed from the lists in between:
\* those that are taken to be preinstalled too, when the base image has them.
RequirementsMet ==
  BuiltWhole /\ def.kind = "php" =>
    \A e \in Wanted(image.stage, from.lock) :
      \/ e \in Alias /\ "gd" \notin Wanted(image.stage, from.lock)
      \/ e \in Preinstalled \ def.bundled
      \/ e \in image.loaded

\* Every extension a build compiles has the packages it needs in the image
\* (docs/kind-php.md:76: "Add known system packages requirements for extensions to
\* install"), those that were inferred from other extensions too.
DepsLocked ==
  BuiltWhole /\ Infers => DepsOf(image.compiled) \subseteq image.packages

\* What a whole update locked can be built, until composer.lock cannot be read any
\* more: the update refuses stages and healthchecks that builds cannot handle.  A php
\* stage that asks for parts of gd without gd, and nothing else, has no such promise,
\* and neither has a webserver (webserver/definition.go:113).
LockedStagesBuild ==
  image # None /\ from # None /\ from.whole =>
    \/ image.outcome \in {"Built", "Undecodable"}
    \/ image.outcome = "Panic" /\ (def.kind = "webserver" \/ composer = Mistyped)
    \/ image.outcome = "NotCompiled" /\ ~Infers

\* The healthcheck of an image finds the client it runs (docs/kind-webserver.md:59:
\* "`http` healthchecks are using `curl` and corresponding package is automatically
\* added", docs/generic-parameters.md:196: "uses fcgi-client").  Nothing adds curl to
\* nodejs images, nor a client for a type that the kind does not document.
HealthcheckHasClient ==
  BuiltWhole =>
    /\ def.kind = "php" /\ image.test = "fcgi" => "fcgi-client" \in image.external
    /\ def.kind = "webserver" /\ image.test = "http" => "curl" \in image.packages

=============================================================================
