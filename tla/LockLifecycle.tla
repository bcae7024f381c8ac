--------------------------- MODULE LockLifecycle ---------------------------
(***************************************************************************)
(* The life of a zbuild lockfile.  `zbuild update` loads the zbuildfile    *)
(* and its lockfile, resolves a base image and, stage by stage, the        *)
(* versions to install, and writes a new lockfile.  `docker build` loads   *)
(* both files, refuses to build when the hash recorded in the lockfile is  *)
(* not the hash of the zbuildfile, and otherwise builds from the locks.    *)
(* `zbuild debug-llb` does the same without the comparison, and            *)
(* `zbuild debug-config` stops at the config of the stage.  In the         *)
(* meantime the user edits the zbuildfile, deletes the lockfile, kills an  *)
(* update, and image tags move in the registry.                            *)
(*                                                                         *)
(* A BuildDef (kind and raw config) is one element of Def, and its hash is *)
(* the element itself: hash collisions are left out.  A locked value is a  *)
(* Stamp, which says in which run of `zbuild update` it was resolved, for  *)
(* which definition, and against which base image.                         *)
(***************************************************************************)
EXTENDS Naturals

CONSTANTS
  Def,        \* the build definitions, embedded webserver ones included
  ZbuildDef,  \* those the user writes in a zbuildfile
  Kind,       \* [Def -> {"php", "nodejs", "webserver"}]
  Web,        \* [Def -> Def \cup {None}]: the embedded webserver definition
  Stage,      \* stage names; a webserver definition has the one WebStage
  WebStage,
  Stages,     \* [Def -> SUBSET Stage]: the stages a definition declares
  Rank,       \* [Stage -> Nat]: the order yaml.Marshal gives stage names
  Tag, Digest,
  ImageTag,   \* [Def -> Tag]: the base image a definition names
  Builder,    \* concurrent builds
  Flags,      \* the sets of things an update may be asked to update
  TornWrites, \* whether WriteFile may be cut short
  Targets,    \* where updates may write, the working directory: the context or not
  MaxEdits, MaxDrifts, MaxRuns, \* bounds on the environment, for TLC
  None, Garbled

Kinds == {"php", "nodejs", "webserver"}
FullUpdate == {"image", "packages", "extensions"}
Dir == {"context", "cwd"}

ASSUME LifecycleAssumption ==
  /\ ZbuildDef \subseteq Def /\ ZbuildDef # {}
  /\ Kind \in [Def -> Kinds]
  /\ Web \in [Def -> Def \cup {None}]
  /\ \A d \in Def : Web[d] # None => /\ Kind[d] # "webserver"
                                     /\ Kind[Web[d]] = "webserver"
  /\ WebStage \in Stage
  /\ Stages \in [Def -> SUBSET Stage]
  /\ \A d \in Def : Kind[d] = "webserver" => Stages[d] = {WebStage}
  /\ Rank \in [Stage -> Nat]
  /\ ImageTag \in [Def -> Tag]
  /\ Flags \subseteq SUBSET FullUpdate
  /\ TornWrites \in BOOLEAN /\ Targets \subseteq Dir
  /\ MaxEdits \in Nat /\ MaxDrifts \in Nat /\ MaxRuns \in Nat
  /\ None \notin Def

Stamp == [run : Nat, def : Def, image : Digest]

(***************************************************************************)
(* The locks of one handler (DefinitionLocks) and the lockfile.  run and   *)
(* origin are ghosts: the update that wrote the file and the definition it *)
(* had loaded.  A missing file and an empty one decode alike.              *)
(***************************************************************************)
StageLocks == [packages : Stamp \cup {None}, extensions : Stamp \cup {None}]
ASSUME SentinelAssumption == None \notin Stamp /\ None \notin StageLocks /\ None \notin Kinds
HandlerLocks == [base : Stamp \cup {None}, stages : [Stage -> StageLocks \cup {None}]]
RawLocks == [hash : Def \cup {None}, kind : Kinds \cup {None}, top : HandlerLocks, web : HandlerLocks,
             origin : Def \cup {None}]  \* kind tells the keys that are there

NoStageLocks == [packages |-> None, extensions |-> None]
NoLocks == [base |-> None, stages |-> [s \in Stage |-> None]]
EmptyLockfile == [hash |-> None, kind |-> None, top |-> NoLocks, web |-> NoLocks,
                  origin |-> None]

VARIABLES
  zbuildfile, \* the content of zbuild.yml in the build context
  lockfile,   \* [Dir -> RawLocks \cup {Garbled}]
  registry,   \* [Tag -> Digest]
  upd,        \* the `zbuild update` process
  job,        \* [Builder -> the state of a build]
  runs, edits, drifts,  \* how many updates, edits and tag moves so far
  published   \* ghost: one stamp per lockfile written whole

env == <<registry, edits, drifts>>
vars == <<zbuildfile, lockfile, registry, upd, job, runs, edits, drifts, published>>

Update == [pc : {"idle", "zbuildfile", "lockfile", "image", "stages", "open", "write"},
           flags : SUBSET FullUpdate,
           dir : Dir,                \* what WriteFile's relative path means
           def : Def \cup {None},    \* opts.BuildOpts.Def
           origin : Def \cup {None}, \* the definition Load returned
           read : RawLocks,      \* the locks Load returned
           embedded : BOOLEAN,   \* recursing into the embedded webserver
           parent : HandlerLocks,
           out : HandlerLocks,   \* the locks being resolved
           todo : SUBSET Stage]

\* A process that ended: nothing of it is left in memory.
NoUpdate == [pc |-> "idle", flags |-> {}, dir |-> "context", def |-> None, origin |-> None,
             read |-> EmptyLockfile, embedded |-> FALSE, parent |-> NoLocks,
             out |-> NoLocks, todo |-> {}]

Outcomes == {"none", "Built", "Dumped", "OutOfSync", "Error"}

Job == [pc : {"idle", "zbuildfile", "lockfile", "check"},
        mode : {"build", "debug", "dump"},
        stage : Stage, webserver : BOOLEAN,
        def : Def \cup {None}, locks : RawLocks, outcome : Outcomes]

NoJob == [pc |-> "idle", mode |-> "build", stage |-> WebStage, webserver |-> FALSE,
          def |-> None, locks |-> EmptyLockfile, outcome |-> "none"]

TypeOK ==
  /\ zbuildfile \in ZbuildDef
  /\ lockfile \in [Dir -> RawLocks \cup {Garbled}]
  /\ registry \in [Tag -> Digest]
  /\ upd \in Update
  /\ job \in [Builder -> Job]
  /\ runs \in Nat /\ edits \in Nat /\ drifts \in Nat
  /\ published \subseteq Stamp

Init ==
  /\ zbuildfile \in ZbuildDef
  /\ lockfile = [d \in Dir |-> EmptyLockfile]
  /\ registry \in [Tag -> Digest]
  /\ upd = NoUpdate
  /\ job = [b \in Builder |-> NoJob]
  /\ runs = 0 /\ edits = 0 /\ drifts = 0
  /\ published = {}

-----------------------------------------------------------------------------
(* The environment.                                                        *)

EditZbuildfile ==
  /\ edits < MaxEdits
  /\ zbuildfile' \in ZbuildDef \ {zbuildfile}
  /\ edits' = edits + 1
  /\ UNCHANGED <<lockfile, registry, upd, job, runs, drifts, published>>

DeleteLockfile ==
  /\ edits < MaxEdits
  /\ lockfile' = [lockfile EXCEPT !["context"] = EmptyLockfile]
  /\ edits' = edits + 1
  /\ UNCHANGED <<zbuildfile, registry, upd, job, runs, drifts, published>>

MoveTag ==
  /\ drifts < MaxDrifts
  /\ \E t \in Tag, g \in Digest : registry' = [registry EXCEPT ![t] = g]
  /\ drifts' = drifts + 1
  /\ UNCHANGED <<zbuildfile, lockfile, upd, job, runs, edits, published>>

-----------------------------------------------------------------------------
(* zbuild update.                                                          *)

\* What the embedded handler or the top-level one read from the lockfile.
ReadLocks(u) == IF u.embedded THEN u.read.web ELSE u.read.top

\* The handlers refuse the keys they do not know, those of the other kinds.
Decodable(locks, d) == locks.kind \in {None, Kind[d]}

\* The base image of the lockfile. The OS release, without which the packages
\* cannot be resolved, is written after the hash.
LockedBase(u) == IF u.read.hash = None THEN None ELSE ReadLocks(u).base

StampNow(u, image) == [run |-> runs, def |-> u.def, image |-> image]

\* Slips LockedStage could have: packages resolved against the tag rather than
\* the locked reference, a stage locked before left alone, a flag negated.
LockedFromTag(u, s) ==
  LET now == StampNow(u, registry[ImageTag[u.def]])
  IN  [packages |-> now,
       extensions |-> IF Kind[u.def] = "php" THEN now ELSE None]
LockedOnce(u, s) ==
  LET now == StampNow(u, u.out.base.image)
  IN  IF ReadLocks(u).stages[s] # None THEN ReadLocks(u).stages[s]
      ELSE [packages |-> now, extensions |-> IF Kind[u.def] = "php" THEN now ELSE None]
LockedWithoutExtensions(u, s) ==
  [packages |-> StampNow(u, u.out.base.image), extensions |-> None]

\* A php stage locks packages and extensions; nodejs and webserver ones packages.
LockedStage(u, s) ==
  LET old == ReadLocks(u).stages[s]
      kept == IF old = None THEN NoStageLocks ELSE old
      now == StampNow(u, u.out.base.image)
  IN  [packages |-> IF "packages" \in u.flags THEN now ELSE kept.packages,
       extensions |-> IF Kind[u.def] # "php" THEN None
                      ELSE IF "extensions" \in u.flags THEN now ELSE kept.extensions]

\* A slip: the zbuildfile is read once more to be hashed.
RehashedLocks(u) ==
  [hash |-> zbuildfile, kind |-> Kind[u.origin],
   top |-> IF u.embedded THEN u.parent ELSE u.out,
   web |-> IF u.embedded THEN u.out ELSE NoLocks,
   origin |-> u.origin]

\* The map UpdateLockFile marshals; the hash is that of opts.BuildOpts.Def.
UpdatedLocks(u) ==
  [hash |-> u.def, kind |-> Kind[u.origin],
   top |-> IF u.embedded THEN u.parent ELSE u.out,
   web |-> IF u.embedded THEN u.out ELSE NoLocks,
   origin |-> u.origin]

\* The decodable prefixes of the marshalled map: keys are sorted, so base_image
\* comes before defhash, then the stages in order, extensions before packages,
\* then webserver.  A list cut short counts as absent.
StagesUpTo(locks, s, partial) ==
  [t \in Stage |-> IF Rank[t] < Rank[s] THEN locks.stages[t]
                   ELSE IF t = s /\ locks.stages[t] # None THEN partial ELSE None]
ExtensionsOnly(locks, s) ==
  IF locks.stages[s] = None THEN NoStageLocks
  ELSE [NoStageLocks EXCEPT !.extensions = locks.stages[s].extensions]
CutStages(c, stages) == [c EXCEPT !.top.stages = stages, !.web = NoLocks]
Prefixes(c) ==
  {[EmptyLockfile EXCEPT !.kind = c.kind, !.top.base = c.top.base],
   CutStages(c, NoLocks.stages),
   [c EXCEPT !.web.stages = NoLocks.stages]}
  \cup {CutStages(c, StagesUpTo(c.top, s, NoStageLocks)) : s \in Stage}
  \cup {CutStages(c, StagesUpTo(c.top, s, ExtensionsOnly(c.top, s))) : s \in Stage}

\* -c names another context than the working directory; the lockfile is read in the
\* context and written in the working directory.
StartUpdate ==
  /\ upd.pc = "idle"
  /\ runs < MaxRuns
  /\ \E f \in Flags, d \in Targets :
        upd' = [upd EXCEPT !.pc = "zbuildfile", !.flags = f, !.dir = d]
  /\ runs' = runs + 1
  /\ UNCHANGED <<zbuildfile, lockfile, env, job, published>>

LoadZbuildfile ==
  /\ upd.pc = "zbuildfile"
  /\ upd' = [upd EXCEPT !.pc = "lockfile", !.def = zbuildfile, !.origin = zbuildfile]
  /\ UNCHANGED <<zbuildfile, lockfile, env, job, runs, published>>

\* A slip: the decoding error is dropped.
LoadUndecodable ==
  /\ upd.pc = "lockfile"
  /\ upd' = [upd EXCEPT !.pc = "image", !.read = lockfile["context"], !.embedded = FALSE]
  /\ UNCHANGED <<zbuildfile, lockfile, env, job, runs, published>>

LoadLockfile ==
  /\ upd.pc = "lockfile"
  /\ lockfile["context"] # Garbled
  /\ upd' = [upd EXCEPT !.pc = "image", !.read = lockfile["context"], !.embedded = FALSE]
  /\ UNCHANGED <<zbuildfile, lockfile, env, job, runs, published>>

\* handler.UpdateLocks begins with NewKind, which decodes the definition's locks.
ResolveImage ==
  /\ upd.pc = "image"
  /\ Decodable(upd.read, upd.origin)
  /\ LET base == IF "image" \in upd.flags THEN StampNow(upd, registry[ImageTag[upd.def]])
                 ELSE LockedBase(upd)
     IN  /\ base # None
         /\ upd' = [upd EXCEPT !.pc = "stages", !.out = [NoLocks EXCEPT !.base = base],
                               !.todo = Stages[upd.def]]
  /\ UNCHANGED <<zbuildfile, lockfile, env, job, runs, published>>

\* A slip: the loop returns from its first iteration.
LockFirstStage(s) ==
  /\ upd.pc = "stages"
  /\ s \in upd.todo
  /\ upd' = [upd EXCEPT !.out.stages[s] = LockedStage(upd, s), !.todo = {}]
  /\ UNCHANGED <<zbuildfile, lockfile, env, job, runs, published>>

\* The stages are ranged over in the random order of a Go map.
LockStage(s) ==
  /\ upd.pc = "stages"
  /\ s \in upd.todo
  /\ upd' = [upd EXCEPT !.out.stages[s] = LockedStage(upd, s), !.todo = @ \ {s}]
  /\ UNCHANGED <<zbuildfile, lockfile, env, job, runs, published>>

\* updateLocks recurses, and leaves opts.BuildOpts.Def to the embedded definition.
EnterWebserver ==
  /\ upd.pc = "stages" /\ upd.todo = {}
  /\ ~upd.embedded /\ Web[upd.def] # None
  /\ upd' = [upd EXCEPT !.pc = "image", !.def = Web[upd.def], !.embedded = TRUE,
                        !.parent = upd.out]
  /\ UNCHANGED <<zbuildfile, lockfile, env, job, runs, published>>

FinishLocks ==
  /\ upd.pc = "stages" /\ upd.todo = {}
  /\ upd.embedded \/ Web[upd.def] = None
  /\ upd' = [upd EXCEPT !.pc = "open"]
  /\ UNCHANGED <<zbuildfile, lockfile, env, job, runs, published>>

TruncateLockfile ==
  /\ upd.pc = "open"
  /\ lockfile' = [lockfile EXCEPT ![upd.dir] = EmptyLockfile]
  /\ upd' = [upd EXCEPT !.pc = "write"]
  /\ UNCHANGED <<zbuildfile, env, job, runs, published>>

WriteLockfile ==
  /\ upd.pc = "write"
  /\ lockfile' = [lockfile EXCEPT ![upd.dir] = UpdatedLocks(upd)]
  /\ upd' = NoUpdate
  /\ published' = published \cup {[run |-> runs, def |-> upd.origin,
                                   image |-> UpdatedLocks(upd).top.base.image]}
  /\ UNCHANGED <<zbuildfile, env, job, runs>>

\* The disk fills up or the process dies before the whole buffer is written.
TearLockfile ==
  /\ TornWrites
  /\ upd.pc = "write"
  /\ \E c \in Prefixes(UpdatedLocks(upd)) \cup {Garbled} :
        lockfile' = [lockfile EXCEPT ![upd.dir] = c]
  /\ upd' = NoUpdate
  /\ UNCHANGED <<zbuildfile, env, job, runs, published>>

\* Any step may fail or be interrupted; a lockfile that does not decode and an
\* unsupported OS are among the causes.
AbortUpdate ==
  /\ upd.pc # "idle"
  /\ upd' = NoUpdate
  /\ UNCHANGED <<zbuildfile, lockfile, env, job, runs, published>>

-----------------------------------------------------------------------------
(* docker build, zbuild debug-llb and zbuild debug-config.                 *)

NeverChecked(j) == TRUE \* a slip: the comparison is dropped
InSync(j) == j.mode # "build" \/ j.locks.hash = j.def

\* A webserver definition ignores the stage asked for.
StageOf(j) == IF Kind[j.def] = "webserver" THEN WebStage ELSE j.stage

\* What both handler.Build and handler.DebugConfig need: locks of its kind, and stage
\* locks for the stage (php and nodejs).
Resolvable(j) ==
  /\ Decodable(j.locks, j.def)
  /\ Kind[j.def] # "webserver" => j.stage \in Stages[j.def] /\ j.locks.top.stages[j.stage] # None

\* A build also needs an image reference, and the embedded definition for a webserver-
\* stage.
Buildable(j) ==
  /\ Resolvable(j)
  /\ j.locks.top.base # None
  /\ j.webserver => Web[j.def] # None /\ j.locks.web.base # None

StartBuild(b) ==
  /\ job[b].pc = "idle"
  /\ job' = [job EXCEPT ![b] = [NoJob EXCEPT !.pc = "zbuildfile"]]
  /\ UNCHANGED <<zbuildfile, lockfile, env, upd, runs, published>>

ReadZbuildfile(b) ==
  /\ job[b].pc = "zbuildfile"
  /\ job' = [job EXCEPT ![b].pc = "lockfile", ![b].def = zbuildfile]
  /\ UNCHANGED <<zbuildfile, lockfile, env, upd, runs, published>>

ReadLockfile(b) ==
  /\ job[b].pc = "lockfile"
  /\ job' = IF lockfile["context"] = Garbled
            THEN [job EXCEPT ![b].pc = "idle", ![b].outcome = "Error"]
            ELSE [job EXCEPT ![b].pc = "check", ![b].locks = lockfile["context"]]
  /\ UNCHANGED <<zbuildfile, lockfile, env, upd, runs, published>>

\* DumpConfig looks for the handler of the embedded definition as if it embedded one
\* itself: no webserver- stage is ever dumped.
Dumpable(j) == Resolvable(j) /\ ~j.webserver

Verdict(j) ==
  IF ~InSync(j) THEN "OutOfSync"
  ELSE IF j.mode = "dump" THEN IF Dumpable(j) THEN "Dumped" ELSE "Error"
  ELSE IF Buildable(j) THEN "Built" ELSE "Error"

\* The comparison, then build() or DumpConfig: they work on what was loaded, for the command
\* and the stage the user asked for, which nothing looked at before.
FinishBuild(b) ==
  /\ job[b].pc = "check"
  /\ \E m \in {"build", "debug", "dump"}, s \in Stage, w \in BOOLEAN :
       LET j == [job[b] EXCEPT !.pc = "idle", !.mode = m, !.stage = s, !.webserver = w]
       IN  job' = [job EXCEPT ![b] = [j EXCEPT !.outcome = Verdict(j)]]
  /\ UNCHANGED <<zbuildfile, lockfile, env, upd, runs, published>>

UpdateStep ==
  \/ LoadZbuildfile \/ LoadLockfile \/ ResolveImage \/ (\E s \in Stage : LockStage(s))
  \/ EnterWebserver \/ FinishLocks \/ TruncateLockfile \/ WriteLockfile

BuildStep(b) == ReadZbuildfile(b) \/ ReadLockfile(b) \/ FinishBuild(b)

Next ==
  \/ EditZbuildfile \/ DeleteLockfile \/ MoveTag
  \/ StartUpdate \/ UpdateStep \/ TearLockfile \/ AbortUpdate
  \/ \E b \in Builder : StartBuild(b) \/ BuildStep(b)

Spec == Init /\ [][Next]_vars

-----------------------------------------------------------------------------
(* Properties.                                                             *)

Present(S) == S \ {None}

StampsOf(locks, s) ==
  Present({locks.base} \cup (IF locks.stages[s] = None THEN {}
                             ELSE {locks.stages[s].packages, locks.stages[s].extensions}))

\* The locked values an image was made from.
TopStamps(j) == StampsOf(j.locks.top, StageOf(j))
WebStamps(j) == IF j.webserver THEN StampsOf(j.locks.web, WebStage) ELSE {}

BuiltJobs == {b \in Builder : job[b].outcome = "Built"}

\* The out-of-sync check (builder.go:115-122) refuses exactly the lockfiles
\* that were generated for another definition than the one being built: what
\* the check lets through was generated for it, and what it refuses was not,
\* so that running `zbuild update`, as the error asks, is of some use.
HashCheckExact ==
  \A b \in Builder :
    /\ job[b].outcome = "OutOfSync" => job[b].locks.origin # job[b].def
    /\ job[b].outcome = "Built" /\ job[b].mode = "build" => job[b].locks.origin = job[b].def

\* Every locked value docker build puts in an image was resolved for the
\* definition it builds, the webserver part's for the embedded definition,
\* whatever edits, updates and kills happened between its two reads.
UsesOwnLocks ==
  \A b \in BuiltJobs : job[b].mode = "build" =>
    /\ \A st \in TopStamps(job[b]) : st.def = job[b].def
    /\ \A st \in WebStamps(job[b]) : st.def = Web[job[b].def]

\* An image is made of values resolved by one run of zbuild update, packages
\* and extensions resolved against the very base image they are installed on,
\* even when the tag moved while the update was running.
UsesOneUpdate ==
  \A b \in BuiltJobs :
    /\ \A st1, st2 \in TopStamps(job[b]) \cup WebStamps(job[b]) : st1.run = st2.run
    /\ \A st1, st2 \in TopStamps(job[b]) : st1.image = st2.image
    /\ \A st1, st2 \in WebStamps(job[b]) : st1.image = st2.image

Complete(j) ==
  /\ j.locks.top.stages[StageOf(j)] # None
  /\ j.locks.top.stages[StageOf(j)].packages # None
  /\ Kind[j.def] = "php" => j.locks.top.stages[StageOf(j)].extensions # None
  /\ j.webserver => /\ j.locks.web.stages[WebStage] # None
                    /\ j.locks.web.stages[WebStage].packages # None

\* docker build never installs less than what the definition asks for: the
\* stage has its package list, and its extensions for a php definition.
NothingMissing ==
  \A b \in BuiltJobs : job[b].mode = "build" => Complete(job[b])

\* A lockfile the check accepts has locks for every stage of the definition,
\* so "no locks available for stage" is never the answer to a stage that the
\* zbuildfile declares, to docker build, debug-llb or debug-config.
InSyncBuildsEveryStage ==
  \A b \in Builder :
    /\ job[b].outcome = "Error" /\ ~job[b].webserver
    /\ job[b].locks.hash = job[b].def
    => Kind[job[b].def] # "webserver" /\ job[b].stage \notin Stages[job[b].def]

-----------------------------------------------------------------------------
(* The contract this design implements: the locks a finished docker build  *)
(* was made from are read back from the values it used, and a mixture of   *)
(* updates, or a missing list, has no counterpart in the contract.         *)

\* The one set of locks all of the values come from, None when there is none.
SourceOf(j) ==
  LET stamps == TopStamps(j) IN
  IF Complete(j) /\ \A st1, st2 \in stamps : st1 = st2
  THEN CHOOSE st \in stamps : TRUE ELSE None

VerdictOf(j) ==
  IF j.outcome = "none" \/ j.mode # "build" THEN [is |-> "pending"]
  ELSE IF j.outcome = "Built" THEN [is |-> "accepted", def |-> j.def, locks |-> SourceOf(j)]
  ELSE [is |-> "refused"]

Contract == INSTANCE LockContract
              WITH verdict <- [b \in Builder |-> VerdictOf(job[b])]

\* The lockfile keeps its promise (README.md:44-48): a build that is not
\* refused is made of the locks of one whole update, of its own definition.
KeepsContract == Contract!ContractSpec

=============================================================================
