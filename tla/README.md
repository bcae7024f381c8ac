# A TLA+ verification of zbuild

zbuild builds container images without a Dockerfile: a `zbuild.yml` describes the
stages of a php, nodejs or webserver image, `zbuild update` locks every version
it needs in `zbuild.lock`, and `docker build` (through the `zbuilder` BuildKit
frontend) or `zbuild debug-llb` turns both files into an LLB graph. This
directory holds TLA+ models of that code, the TLC configurations that check them
and TLAPS proofs about them. Paths such as `pkg/builder/builder.go` are relative
to `src/`.

- [Inventory](#inventory)
- [Modules](#modules)
- [Runs](#runs)
- [Where the code and its documents disagree](#where-the-code-and-its-documents-disagree)
- [Proofs](#proofs)
- [What is not modelled](#what-is-not-modelled)
- [Plan](#plan)

To check a run: `tlc -config lock_full.cfg MCLockLifecycle.tla`. To check a
proof: `tlapm LockLifecycleProofs.tla`. `PROJECT.json` lists the runs, the lines
each definition models, the mutants that show each property can fail, the
findings and the hazards.

## Inventory

| Component | State it keeps | Operations | What is hard |
|---|---|---|---|
| Loader and builder (`pkg/defloader`, `pkg/builder`) | `zbuild.yml`, `zbuild.lock`, the definition in memory | `Load`, `Build`, `Debug`, `UpdateLockFile`, `DumpConfig` | two files read one after the other, a shared pointer to the definition, a file written in place |
| Lock handlers (`pkg/defkinds/*/locks.go`) | the locks of a definition: base image, source context, stages | `UpdateLocks` | tags that move, stages in random order, flags that keep old values |
| Stage resolution (`pkg/defkinds/{php,nodejs}/definition.go`) | the stages of a definition and their parents, the composer.lock shared by the stages of an update | `ResolveStageDefinition`, `Merge`, `Copy`, `inferConfig` | cycles, unknown parents, order and aliasing of merges, lists inferred from one another |
| Package solvers (`pkg/pkgsolver`) | none; the output of one command | `ResolveVersions` | orders of Go maps, partial outputs, exit codes |
| Local solver (`pkg/statesolver/local.go`) | containers in the Docker daemon | `ExecImage`, `FromImage`, `FromContext`, `FileExists` | asynchronous exits, failures at every step, cleanup, links |
| BuildKit solver (`pkg/statesolver/buildkit.go`) | none | the same | errors that are not there |
| Source contexts (`pkg/builddef/context.go`, `statesolver/context_locker.go`, `php/composer.go`) | a git reference or a local directory | `LockContext`, `LoadComposerLock` | a repository that moves between the update and the builds |
| Image builds (`pkg/defkinds/*/builder.go`, `php/extensions.go`, `pkg/llbutils`) | an LLB state, the image metadata | one function per step | order of steps, layer cache, paths, patterns |
| Healthchecks (`pkg/builddef/healthcheck.go`) | none | decoding, validation, metadata | the types each kind allows, parameters that may be missing, the client they run |
| CLI, registry, graph and JSON dumps, image types | none worth modelling | | |

How they interact: the CLI and the frontend call the builder. The builder calls
the loader, which reads both files through a *state solver* (the local one for
the CLI, the BuildKit one in `docker build`), then the *handler* of the kind
found in the registry. For `update`, a handler resolves the base image, locks the
source context, and for each stage resolves the stage, infers extensions and
packages and asks a *package solver* for versions, which runs a command in the
base image through the local solver. For `build`, a handler resolves the stage
and appends layers to an LLB state, each made of a command or of a copy from a
context. A `webserver-` stage is built by building the stage and then, with its
state as source, the embedded webserver definition. Nothing in the program is
concurrent by itself: concurrency comes from several processes on the same
files, from the Docker daemon, the registry, the git server, and from the user
who edits files in the meantime.

What makes each of them correct:

- *Lock life cycle*: a build is refused or is made of the locks of one update of
  the very definition it builds, complete for its stage.
- *Stage resolution*: it ends; the answer and every value are those the chain of
  ancestors defines; resolving one stage leaves the others alone.
- *Package solvers*: what is locked is what was asked for, or an error.
- *Local solver*: an output is whole or an error; a file read is the right one;
  no container is left; every call returns.
- *Source contexts*: builds of one update use one commit, the one the locked
  extensions were read from.
- *Image builds*: the same commands every time, dependencies reused, only the
  listed sources in the image, state directories empty, assets of a webserver
  taken from the finished stage.
- *Locks of stages*: all of them come from one composer.lock; an image has the
  extensions its stage needs, their packages and the client of its healthcheck;
  what was locked can be built.

## Modules

| Module | Models |
|---|---|
| `LockContract` | abstract: updates publish sets of locks, a build uses one of its own definition or is refused |
| `LockLifecycle` | update, build, debug-llb and debug-config over the two files, with edits, deletions, tag moves, torn writes; implements `LockContract` (`KeepsContract`) |
| `StageChain` | the resolution of a stage: `resolveStageChain`, `mergeStages`, the `Merge` methods |
| `ConfigFiles` | `PathsMap.Merge` over the shared, mutable maps of a definition |
| `PackageSolver` | `ResolveVersions` of APT and APK |
| `LocalSolver` | `ExecImage` and `FromImage` with the Docker daemon |
| `SourceContext` | locking, reading and copying a source context that changes |
| `StageLocks` | what is locked for each stage of a definition (inference from composer.lock, extensions, packages, healthchecks), and what a build makes of it |
| `ImageBuild` | the steps of php, nodejs and webserver builds, twice over a context that is edited |
| `MC...` | small instances of these for TLC |
| `...Proofs` | their theorems |

**LockLifecycle.** `upd` is the process of `HandleUpdateCmd`: its fields are the
locals of `UpdateLockFile` and `updateLocks` (`def` is `opts.BuildOpts.Def`, the
pointer shared by both). One action per step that another process can see or
disturb: `LoadZbuildfile`, `LoadLockfile` (the two reads of `Load`),
`ResolveImage`, `LockStage`, `EnterWebserver` (the recursion), `FinishLocks`,
`TruncateLockfile`, `WriteLockfile`, or `TearLockfile`, which leaves one of the
prefixes of the marshalled map that decode, or one that does not (`Garbled`).
`kind` tells which handler wrote a lockfile: the keys of one kind are refused by
the decoders of the others (`Decodable`), so that after a change of kind an update
fails until the user deletes the lockfile. A prefix so short that only keys common
to two kinds are left is taken for one of the kind that wrote it.
`job[b]` is a build: `ReadZbuildfile`, `ReadLockfile`, `FinishBuild` (the
comparison, unless it is `debug-llb` or `debug-config`, and whether the handler
finds the locks it needs: `Buildable` and `Dumpable`). A definition is
an element of `Def` and its hash is itself; a locked value is a stamp (run,
definition, image) which says where it was resolved. `origin` and `published`
are ghosts. Several builds and one update run at a time.

**StageChain.** Definitions are maps of stages as users write them;
`Init` merges them over the default ones and the rest is the loop of
`resolveStageChain` (`WalkUp`, `FailCyclic`, `FailNotFound`) and that of
`mergeStages` (`StartMerge`, `MergeNext`, `FinishMerge`). Of the parameters one
of each way of merging is kept. The references the properties compare with are two
recursive functions: `ancestor`, the parents from the stage asked for upwards, and
`declared`, the lists of the first of them, the highest first.

**ConfigFiles.** `target` is the map of the overriding stage, to which
`PathsMap.Merge` adds entries of its receiver in any order: one action per
iteration. `files` are the maps of the definition, which change with it.

**PackageSolver.** The request and the repository are chosen once; `Split`
decides the arguments of the command in the order of a map, `Exec` and its
variants the output, which is parsed package by package. The errors APK's solver drops
are there: a killed command whose output is partial, or has no output at all (`ExecNoLogs`,
a panic), and names no regular expression can be made of (`Irregular`, `ParseFails`).

**LocalSolver.** `pc` is the position of the call in progress, `container` what
the daemon has, `wait` the two channels of `ContainerWait`. A fault is a lost or
refused wait, a removal the daemon does not perform, or a kill.

**SourceContext.** A commit is a number and `refs` says where references are.
`Ask` is the set of what a solver may answer, the errors of clones and of BuildKit's
solves included; `FileExists` what the program makes of an answer.

**ImageBuild.** `layers` is the LLB state, one record per operation with the
versions of the files it copies; `files` is what the image has at the paths that
properties speak of; `cwd` is `state.Dir`. `before` keeps the layers of the
first of two builds. Paths are a directory and a name, and relative ones are
resolved where the code does it. `manager` is what `determinePackageManager` found, once,
as the build started; a local context may have another lock file by the second build
(`Again`), and commands and manifest follow (`Tool`, `Manifests`). `site` is the LLB state of the webserver: the
steps `web-...` come after those of the stage it is built with, whose final state
`CopyAssets` reads (`buildOpts.SourceState`), or alone for a webserver definition.

**StageLocks.** `upd` is an update past the base image: `cache` is the variable the
closure of `composerLockCacheLoader` keeps for all of the stages, `todo` the stages
that the range over a map has not reached, `out` the map `updateStagesLocks` fills.
`LockStage` resolves a stage (`Valid`, `Extensions`, `SystemPackages`) and locks it;
PECL answers any of its versions that satisfies the constraint. composer.lock may be
missing, undecodable (`Broken`) or have a platform value that is not a string
(`Mistyped`), which makes updates and builds panic. The code takes `Preinstalled` to be in
every base image; `bundled` is what the one of a definition really has. A webserver
definition is one stage, a nodejs one has no extension. `Build` resolves the stage
again with the composer.lock of that moment and installs what is locked; its
`Outcome` is the first error on the way. `locks` has no stage before any update.
`from` is a ghost: the composer.lock the locks come from, and whether the update
refreshed both lists. Stages are merged ones, as `StageChain` leaves them, and
versions of packages are left to `PackageSolver`.

## Runs

Passing runs, with their bounds:

| Run | Shows | Bounds and why they are enough |
|---|---|---|
| `lock_full` | with full updates written whole, a build is made of the locks of one update, of its own definition, complete for its stage (`UsesOwnLocks`, `UsesOneUpdate`, `NothingMissing`, `InSyncBuildsEveryStage`), and the refinement of `LockContract` | two php definitions with different stages and one with an embedded webserver that has a tag of its own; 2 updates, 2 edits or deletions, 1 tag move, 2 digests, 1 build at a time that is retried: a mixture needs two updates, one edit between two reads and one move during an update |
| `lock_torn` | types, and `HashCheckExact` with any flags, torn writes, and updates whose working directory is not the context | php, nodejs and webserver definitions, 2 updates, 1 edit |
| `stage_chain` | answers, values, lists, termination | `dev`, `prod` and one more stage, every parent and `dev` setting, cycles of length 1 to 3 |
| `config_files` | resolutions do not disturb one another | 3 stages (two siblings and a child), 3 sources, 2 destinations, 3 resolutions |
| `packages` | what is locked is what was asked for | 3 packages, 2 versions for APT and 1 for APK (an Alpine repository has one), every order of the map; for APK also a name that begins another one and one that is no regular expression, and the pins it honours |
| `solver` | outputs, files, containers, return | 3 calls, 1 fault, every acyclic tree of 3 paths |
| `context` | one commit per update, whatever is pushed | 3 commits, 2 updates, 2 builds |
| `image` | same commands, reuse, sources, state directories, assets | php, nodejs and webserver definitions, an embedded webserver with an asset of each origin, two builds, one edit of any file at any time, npm or yarn for each build |
| `stage_locks` | one composer.lock for all of the stages, requirements and packages in the image, no accepted stage that cannot be built, clients of healthchecks | two stages (a mistake needs one that reads and one that reuses) in both orders, 2 updates with any flags, 1 edit of composer.lock (missing, undecodable, mistyped, or two contents that differ in what both stages get), base images with and without the preinstalled extension, every healthcheck a user can write on the base stage |

Each property holds in the conditions its run sets, and these are part of what
it says:

- `lock_full`: full flags and whole writes. After an edit, `update --no-packages`
  keeps the packages of the old definition under the new hash; a write cut after
  `defhash` decodes as a lockfile with fewer packages, which the check accepts.
- `lock_torn`: no embedded webserver (see `lock_embedded`).
- `config_files`: a source always has the same destination. `PathsMap.Merge`
  lets an entry of the parent overwrite one of the stage for the same source and
  another destination (`pkg/builddef/builddef.go:222`).
- `packages`: APK is asked for wildcards, and for pins that are what the repository has
  (see `packages_apk_pins` for the others). `LocksWhatWasAsked` says nothing of the
  versions of two packages when the name of one begins that of the other, only of
  those beside them: the alternatives of APK's regular expression are in the order of a
  map, and `curl` tried before `curl-dev` takes the line `curl-dev-7.1` for its own
  (`pkg/pkgsolver/apk.go:69`).
- `solver`: links have no cycle; the code would follow it forever
  (`pkg/statesolver/local.go:279`).
- `image`: `SameSteps` and `DepsReused` compare builds that found the same package
  manager. At most one global package and one extension to configure, as commands
  with more of them are in the order of a map; some sources, as none means the
  whole local context; state directories relative to `/app` for local contexts,
  and outside the sources for git ones, where the exclude patterns are dropped.
- `stage_locks`: `RequirementsMet`, `DepsLocked`, `LockedStagesBuild` and
  `HealthcheckHasClient` speak of updates of both lists (`from.whole`). The
  properties name what they leave out: an alias of gd without gd, preinstalled
  extensions that the base image lacks, a composer.lock that cannot be read any more,
  webservers whose healthcheck has no parameters, clients that nothing adds.

Deadlock is checked in the lock runs and in `stage_locks`, where builds can always
start. The other models stop when the bounded work is done.

**Fairness.** Safety needs none. `StageChain` has `WF_vars(Next)`: a resolution
is a loop without any input or wait. `LocalSolver` has weak fairness of the
steps of the CLI (a sequential program that never waits but for the daemon, which
answers every request) and of `ContainerExits` (the commands zbuild runs,
`apt-cache`, `apk`, `git`, `php -r`, `cat`, end). Faults and calls have no
fairness.

## Where the code and its documents disagree

Each of these is a run that finds the property violated:

| Run | Property | What happens |
|---|---|---|
| `lock_embedded` | `HashCheckExact` | `updateLocks` recurses in the embedded webserver with the pointer `UpdateLockFile` hashes afterwards: the wrong definition is hashed, and every build is refused as out of sync |
| `packages_apk_pins` | `LocksWhatWasAsked` | APK overwrites pinned versions with those of the repository |
| `context_crash` | `FileExistsIsRight` | `BuildkitSolver.FileExists` panics for a file that exists, as it calls `Error` on a nil error |

Met while modelling, without a run of their own:

- Relative state directories are created in the working directory of the base
  image, before `state.Dir`, and their volumes declared under `/app`, where no
  directory is (`php/builder.go:140`; docs/generic-parameters.md:261-262:
  "relative to the root of the project directory in the image"). `MakeDirs` has it.
- State directories under a source of a git context are not excluded: patterns are
  only given to local contexts (`llbutils/utils.go:378`).
- `HealthcheckType.IsValid` accepts the types a kind does not document
  (`builddef/healthcheck.go:89`), such as http for php, for which nothing installs
  a client. A webserver does not ask for the parameters of the type
  (`webserver/definition.go:113`): its build panics (`Outcome` is "Panic").
- http healthchecks of nodejs images run curl (docs/generic-parameters.md:211),
  which nothing adds to their packages.
- `debug-config` of a `webserver-` stage always fails: `DumpConfig` has already
  replaced the definition when it looks for a handler that embeds one
  (`builder.go:265-272`).
- Extensions to configure get the flags of php 7.2 when the definition gives a base
  image, as `MajMinVersion` is empty then (`php/extensions.go:506`); flags are
  outside of the model.
- The extensions of official php images are removed from the locks whatever the base
  image is (`php/locks.go:172`; the comment at `php/definition.go:631` speaks of official
  images only): with another base image a required extension may be neither there nor
  compiled.
- A platform value of composer.lock that is not a string makes `normalizePlatform` panic
  (`php/composer.go:123`). So does a killed `apk` whose logs cannot be fetched: the error
  is ignored, and its buffer is nil (`pkgsolver/apk.go:54-75`).
- `CloneMeta` copies a pointer where its comment says a deep copy
  (`image/image.go:67`); the image it is given is not used again.

## Proofs

Checked by TLAPS for every value of the constants that satisfies the named
assumptions of the modules (`LifecycleAssumption`, `SentinelAssumption`,
`ChainAssumption`, `DefinitionsAssumption`, `ConfigAssumption`, `PackageAssumption`,
`SolverAssumption`, `ContextAssumption`, `ImageAssumption`, `StageLocksAssumption`),
which TLC also evaluates on the instances. Every invariant a passing run checks is the
subject of a theorem. Some theorems have a hypothesis besides: it is named, its module
states it next to the theorem, and the instance of the passing run that checks the
property satisfies it. They are:

| Hypothesis | Says | Without it |
|---|---|---|
| `NoEmbedded` (`LockLifecycle`) | no definition embeds a webserver | `HashCheckExact` is false (`lock_embedded`) |
| `FullOnly` (`LockLifecycle`) | updates have no flag that keeps old lists | values of two updates mix |
| `TornWrites = FALSE` | lockfiles are written whole | a prefix decodes with fewer packages |
| `EmbeddedApart` (`LockLifecycle`) | no zbuildfile holds, on its own, the webserver another one embeds | the lockfile of the one has the hash of the other, and not its stages |
| `OneDestination` (`ConfigFiles`) | a source always has the same destination | an entry of a parent overwrites one of the stage |
| `PinsHonoured` (`PackageSolver`) | APK has at most one version of a package, the one it is pinned to if it is | `packages_apk_pins` |
| `Listed` (`ImageBuild`) | stages of a local context list sources | the whole context is copied |
| `StateApart` (`ImageBuild`) | directories with state are neither the manifest nor the place of a config file, and not sources where the patterns cannot exclude them | they are copied over |
| `AssetsApart` (`ImageBuild`) | assets have destinations of their own, and no config file is put over `node_modules` | one replaces the other |
| `OneOrder` (`ImageBuild`) | at most one global package, and one of gd and imap | commands in the order of a map |

**LockLifecycle** (`LockLifecycleProofs`)

- `TypeCorrect`: `Spec => []TypeOK`. `TypeOK` is not inductive: that a value written
  in a lockfile is a stamp relies on the definition loaded and on a base image found,
  so `TypeInv` adds `UpdateInv`, what an update has in hand past each of its steps.
- `HashCheckCorrect` (`NoEmbedded`): `HashCheckExact` for any flags and with torn
  writes. `HashInv` says that wherever a set of locks is (on disk, in an update, in a
  build) its hash is that of its origin; torn writes keep it because every decodable
  prefix has both or neither.
- `BuildsUseTheirOwnLocks` and `BuildsUseOneUpdate` (`FullOnly`): `UsesOwnLocks` and
  `UsesOneUpdate`, with embedded webservers and torn writes. `LocksInv` says of the values
  of each part of a lockfile, the top one and the webserver's, that they are one stamp,
  and that both are of one run (`OneRun`); and that a file which the definition hashed in
  it can decode was resolved for that definition (`Rightful`). The file of a definition
  that embeds a webserver has the hash of the latter and the keys of the former, so that
  docker build refuses it (`lock_embedded`): of embedded webservers these theorems speak
  through debug builds. While an update runs, the stamp is the base image it has just
  resolved (`Stamped`).
- `BuildsMissNothing` and `InSyncIsBuildable` (`FullOnly`, whole writes, and
  `EmbeddedApart` for the second): `NothingMissing` and `InSyncBuildsEveryStage`. The
  stages an update has been through are locked with all their lists (`StageWhole`),
  hence all of the definition's once it writes (`Whole`, `WholeFile`).
- `LockfileKeepsContract` (`FullOnly`, whole writes): `KeepsContract`, the
  implementation of `LockContract`. Its initial states map to initial ones, the write
  of a lockfile to a publication, the end of an accepted build to a use of a published
  set, of its own definition and complete by the invariants above, and all other steps
  to stutters.

**LocalSolver** (`LocalSolverProofs`)

- `TypeCorrect`, `OutputsAreWhole` and `NothingIsLeft`: `OutputIsWhole` and
  `LeavesNothing` are not inductive, as both depend on what a call knows of its
  container at each `pc`: `RunInv` relates the two channels of `ContainerWait` to the
  state of the container, `CleanInv` says that the containers of earlier calls are
  gone and that the one to remove is not running.
- `ReadsAreRight`: `ReadIsRight`, for any tree, those with circles of links included,
  where a read never returns. `ReadInv` says that the path being read is `target[k]`
  for some k. `LinksEnd` shows that `k` may be replaced by the number of paths: longer,
  and the same path would be met twice (`FS_PigeonHole`), after which links repeat
  (`LinksRepeat`) and never end.

**SourceContext** (`SourceContextProofs`): `TypeCorrect`, `OneCommit` and
`ReqsAreOfSources`. The strengthening `AgreeInv` relates the lockfile, the update that
writes it and the builds that read it to the commit that was locked.

**StageChain** (`StageChainProofs`)

- `TypeCorrect` and `ChainIsBounded`: the chain has no repetition and only declared
  stages, hence is no longer than their number.
- `AnswersAreRight`: `AnswerIsRight`. `WalkInv` says that the chain holds the ancestors
  in order and `current` is the next one. Above the base stage, or a stage nobody
  declared, there is nothing (`NothingAbove`); and a chain whose last stage has a parent
  in the chain is closed under parents (`CycleIsClosed`), so that the base stage is
  never reached.
- `NearestAncestorWins`: `NearestWins`. `NearestInv` says that what is merged so far is
  what the nearest of the ancestors already merged gives; `NearerOverrides` is one step.
- `ListsAreInOrder`: `ListsInOrder`. `ListsInv`: what is merged, followed by what the
  stages still to merge list, is the whole list.

**ConfigFiles** (`ConfigFilesProofs`): `TypeCorrect`, and under `OneDestination`
`ResolutionsDoNotLeak`, `OwnEntriesWin` and `NearestStageFills`. The maps of the
definition do change, as merges add entries to them. `FilesInv` says that each keeps what
the user wrote, and that whatever else it has comes from the nearest stage of its own line
that fills the destination (`Sound`); `MergedInv` says so of the result, which fills all
that the stages merged so far fill, and `RangeInv` of the map in the middle of a merge,
entry after entry in any order.

**PackageSolver** (`PackageSolverProofs`): `TypeCorrect`, `SolversLockWhatWasAsked`
(`PinsHonoured`, which says nothing of APT) and `APTMissesOnlyTheUnavailable`. Pins are
set before the command runs and never overwritten, and what else is resolved is the first
version of its package (`ResolvedInv`); every wildcard is among the arguments of the
command, then in the output or served (`MissingInv`), in whatever order maps are read. What a package is given
is right unless its name begins another one or is begun by one (`Distinct`).

**ImageBuild** (`ImageBuildProofs`)

- `TypeCorrect`; `OnlySourcesAreCopied` (`Listed`).
- `StateIsLeftOut` (`StateApart`): `StateInv` adds that those outside of the project are
  directories from the step that makes them on, and that volumes come after it.
- `AssetsAreOfTheStage` (`StateApart`, `AssetsApart`): `BuiltInv` says what the steps
  done so far leave in the image of the stage, `AssetsInv` that what is copied from it to
  the webserver stays.
- `CommandsStay` (`OneOrder`): `SameSteps`. A build is a concatenation of what each step
  adds, which depends on the definition, the options and the package manager alone once
  the versions of files are left out (`Outline`); both builds have the story of such a
  concatenation, each with the package manager it found.
- `DependenciesAreReused` (`OneOrder`): `DepsReused`. Up to the dependencies the only
  versions in the layers are those of the files that come before them (`Uniform`).

**StageLocks** (`StageLocksProofs`): all six properties of `stage_locks`, for any
definitions, extensions, packages, contents of composer.lock, and orders of the stages
(`TypeCorrect`, `OneLock`, `RequirementsAreMet`, `DepsAreLocked`,
`LockedStagesCanBuild`, `HealthchecksHaveClients`). None is inductive: they speak of
the end of an update, or of an image. `LockInv` follows an update instead: each
stage it has been through is locked as the composer.lock in `cache` asks for
(`LockedFrom`), and that cache, once filled, is the one of all later stages, while
the file changes (`SameLock`); `ImageInv` relates an image to the locks it was
built from. What `Extensions` returns is described by `Wanted` and `ConstraintOn`
(`ExtensionsTyped`), one `Add` at a time (`AddingTyped`). From
`StageLocksAssumption` the proofs use that zip is a core extension which is neither
preinstalled nor an alias: with inference there is always something to compile.

Induction. The rules of induction of the library cannot be instantiated by the
installed provers. Where a property speaks of a recursive function (`ancestor`,
`declared`, `target`), that it satisfies its equations is proved: `Recursion` builds
a function from its finite approximations, which exist and agree, and every
induction is by a least counterexample (`LeastNatural`, from the well-foundedness of
the naturals). The stories of `ImageBuild` are of the same sort.

Only model-checked: the liveness properties `Terminates` and `CallReturns`, which need
fairness and `ENABLED`.

## What is not modelled

- YAML and JSON decoding and the validation of names and versions, hash collisions,
  the parsing of references of contexts and of `/etc/os-release`.
- Two updates at once on the same directory.
- Image metadata but the volumes and the healthcheck (the stop signal of webservers,
  which is SIGSTOP where `webserver/builder.go:156` says "gracefully", the
  environment, the entry point); the fate of BuildKit's cache beyond equality
  of commands and contents.
- The registration of kinds, what `debug-config` prints, graph and JSON dumps,
  logging, tests and mocks: no state, or formatting only.

## Plan

Done: the core (`LockLifecycle`, `LockContract`), the parts it rests on
(`StageChain`, `ConfigFiles`, `PackageSolver`, `LocalSolver`, `SourceContext`,
`StageLocks`) and the builds (`ImageBuild`, with webservers). What could follow:

1. A composition of `LockLifecycle` and `SourceContext`, so that one lockfile
   carries both, and of `PackageSolver` over `LocalSolver`.
2. The environment and the user of images, in `ImageBuild`.

Theorems: the compositions above, once they are written; weaker hypotheses where one
is stronger than the code needs: `OneDestination` only for the stages of one line of
ancestors.
