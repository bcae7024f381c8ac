---------------------------- MODULE SourceContext ----------------------------
(***************************************************************************)
(* The source context of a definition: a git repository, or the local      *)
(* directory.  `zbuild update` locks a git reference to a commit, and for  *)
(* php definitions reads composer.lock in it.  Builds copy the sources     *)
(* from the locked commit and look for one file in it: composer.lock, or   *)
(* package-lock.json, which decides between npm and yarn.                  *)
(*                                                                         *)
(* The CLI reads files of a repository from a shallow clone, which only    *)
(* has the last commit of the default branch; BuildKit fetches the commit  *)
(* it is asked for.  The repository and the directory change meanwhile.    *)
(***************************************************************************)
EXTENDS Naturals

CONSTANTS
  Kinds,      \* a subset of {"php", "nodejs"}
  Types,      \* a subset of {"git", "local"}: the type of the context
  Modes,      \* a subset of {"build", "debug"}: docker build or zbuild debug-llb
  Job,        \* concurrent builds
  MaxCommits, \* bounds on the environment, for TLC
  MaxUpdates,
  None

Commit == 1..MaxCommits
Ref == {"HEAD", "tag", "worktree"} \* what a context may refer to

ASSUME ContextAssumption ==
  /\ Kinds \subseteq {"php", "nodejs"} /\ Types \subseteq {"git", "local"}
  /\ Modes \subseteq {"build", "debug"}
  /\ MaxCommits \in Nat \ {0} /\ MaxUpdates \in Nat
  /\ None \notin Nat

VARIABLES
  kind, type,
  reference, \* the reference of the source context
  refs,      \* [Ref -> Commit]: where the references are now
  has,       \* [Commit -> whether the file looked for is in it]
  commits,   \* how many commits there are
  upd,       \* the `zbuild update` process
  lockfile,  \* what the last update locked
  job,       \* [Job -> a build]
  used       \* ghost: the commits sources were copied from, with their lockfile's run

definition == <<kind, type, reference>>
source == <<refs, has, commits>>
vars == <<kind, type, reference, refs, has, commits, upd, lockfile, job, used>>

\* A local context is locked as it is: commit is None.  reqs is the commit of the
\* composer.lock the locked extensions come from, None without one.
Locks == [run : 0..MaxUpdates, commit : Commit \cup {None}, reqs : Commit \cup {None}]
NoLocks == [run |-> 0, commit |-> None, reqs |-> None]

Answers == {"none", "found", "absent", "error", "crash"}
AJob == [pc : {"idle", "look", "copy"}, mode : {"build", "debug"}, locks : Locks,
         commit : Commit \cup {None}, \* the one the file was looked for in
         answer : Answers]

TypeOK ==
  /\ kind \in Kinds /\ type \in Types /\ reference \in Ref
  /\ refs \in [Ref -> Commit] /\ has \in [Commit -> BOOLEAN] /\ commits \in Commit
  /\ upd \in [pc : {"idle", "lock", "read", "write"}, locks : Locks]
  /\ lockfile \in Locks
  /\ job \in [Job -> AJob]
  /\ used \subseteq (1..MaxUpdates) \X Commit

Init ==
  /\ kind \in Kinds /\ type \in Types
  /\ reference \in IF type = "git" THEN {"HEAD", "tag"} ELSE {"worktree"}
  /\ refs = [r \in Ref |-> 1] /\ commits = 1
  /\ has \in [Commit -> BOOLEAN]
  /\ upd = [pc |-> "idle", locks |-> NoLocks]
  /\ lockfile = NoLocks
  /\ job = [j \in Job |-> [pc |-> "idle", mode |-> "build", locks |-> NoLocks,
                           commit |-> None, answer |-> "none"]]
  /\ used = {}

\* Someone pushes, or edits the local directory.  Tags do not move.
Push ==
  /\ commits < MaxCommits
  /\ \E r \in {"HEAD", "worktree"} : refs' = [refs EXCEPT ![r] = commits + 1]
  /\ commits' = commits + 1
  /\ UNCHANGED <<definition, has, upd, lockfile, job, used>>

-----------------------------------------------------------------------------
(* Reading a file of the context.                                          *)

\* The content of the context: git contexts are locked, local ones are not.
Locked(locks) == IF type = "git" THEN locks.commit ELSE refs["worktree"]

\* What a solver may answer: reading, cloning and solving may fail at any time.
\* In the CLI git show fails alike for a missing file and for a commit that the
\* shallow clone does not have.
AskLocal(c) ==
  {"error"} \cup IF type = "git" THEN IF c = refs["HEAD"] /\ has[c] THEN {"found"} ELSE {}
                 ELSE IF has[c] THEN {"found"} ELSE {"absent"}

AskBuildkit(c) == {"error"} \cup IF has[c] THEN {"found"} ELSE {"absent"}

Ask(mode, c) == IF mode = "debug" THEN AskLocal(c) ELSE AskBuildkit(c)

\* LocalSolver takes any error of a git context for a missing file; BuildkitSolver
\* calls a method of the error it does not have when the file exists.
FileExists(mode, c) ==
  {IF mode = "debug" THEN IF answer = "error" /\ type = "git" THEN "absent" ELSE answer
   ELSE IF answer = "found" THEN "crash" ELSE answer : answer \in Ask(mode, c)}

-----------------------------------------------------------------------------
(* zbuild update.                                                          *)

StartUpdate ==
  /\ upd.pc = "idle" /\ lockfile.run < MaxUpdates
  /\ upd' = [pc |-> "lock", locks |-> [NoLocks EXCEPT !.run = lockfile.run + 1]]
  /\ UNCHANGED <<definition, source, lockfile, job, used>>

\* A full clone knows the commits of the default branch and of the tags.
LockContext ==
  /\ upd.pc = "lock"
  /\ upd' = [upd EXCEPT !.pc = IF kind = "php" THEN "read" ELSE "write",
                        !.locks.commit = IF type = "git" THEN refs[reference] ELSE None]
  /\ UNCHANGED <<definition, source, lockfile, job, used>>

\* A slip: composer.lock is read in the context the definition names.
ReadUnlocked ==
  /\ upd.pc = "read"
  /\ has[refs[reference]]
  /\ upd' = [upd EXCEPT !.pc = "write", !.locks.reqs = refs[reference]]
  /\ UNCHANGED <<definition, source, lockfile, job, used>>

\* LoadComposerLock goes on without a file that is not there; any other error ends
\* the update.
ReadComposerLock ==
  /\ upd.pc = "read"
  /\ \E answer \in AskLocal(Locked(upd.locks)) :
       upd' = [upd EXCEPT !.pc = IF answer = "error" THEN "idle" ELSE "write",
                          !.locks.reqs = IF answer = "found" THEN Locked(upd.locks) ELSE None]
  /\ UNCHANGED <<definition, source, lockfile, job, used>>

WriteLockfile ==
  /\ upd.pc = "write"
  /\ lockfile' = upd.locks
  /\ upd' = [upd EXCEPT !.pc = "idle"]
  /\ UNCHANGED <<definition, source, job, used>>

\* Cloning or resolving failed, or the process was stopped.
AbortUpdate ==
  /\ upd.pc # "idle"
  /\ upd' = [upd EXCEPT !.pc = "idle"]
  /\ UNCHANGED <<definition, source, lockfile, job, used>>

-----------------------------------------------------------------------------
(* Builds.                                                                 *)

StartBuild(j) ==
  /\ job[j].pc = "idle" /\ lockfile.run > 0
  /\ \E mode \in Modes :
       job' = [job EXCEPT ![j] = [pc |-> "look", mode |-> mode, locks |-> lockfile,
                                  commit |-> None, answer |-> "none"]]
  /\ UNCHANGED <<definition, source, upd, lockfile, used>>

\* determinePackageManager, or LoadComposerLock, whose errors end the build.
Look(j) ==
  /\ job[j].pc = "look"
  /\ LET c == Locked(job[j].locks) IN
     \E answer \in IF kind = "nodejs" THEN FileExists(job[j].mode, c) ELSE Ask(job[j].mode, c) :
       job' = [job EXCEPT ![j].pc = IF answer \in {"found", "absent"} THEN "copy" ELSE "idle",
                          ![j].commit = c, ![j].answer = answer]
  /\ UNCHANGED <<definition, source, upd, lockfile, used>>

\* A slip: the sources are those of the reference.
CopyReference(j) ==
  /\ job[j].pc = "copy"
  /\ used' = used \cup {<<job[j].locks.run, refs[reference]>>}
  /\ job' = [job EXCEPT ![j].pc = "idle"]
  /\ UNCHANGED <<definition, source, upd, lockfile>>

\* A slip: a local context, which is not locked, is copied as if it were.
CopyLocked(j) ==
  /\ job[j].pc = "copy"
  /\ used' = used \cup {<<job[j].locks.run, job[j].locks.commit>>}
  /\ job' = [job EXCEPT ![j].pc = "idle"]
  /\ UNCHANGED <<definition, source, upd, lockfile>>

CopySources(j) ==
  /\ job[j].pc = "copy"
  /\ used' = used \cup {<<job[j].locks.run, Locked(job[j].locks)>>}
  /\ job' = [job EXCEPT ![j].pc = "idle"]
  /\ UNCHANGED <<definition, source, upd, lockfile>>

Next ==
  \/ Push
  \/ StartUpdate \/ LockContext \/ ReadComposerLock \/ WriteLockfile \/ AbortUpdate
  \/ \E j \in Job : StartBuild(j) \/ Look(j) \/ CopySources(j)

Spec == Init /\ [][Next]_vars

-----------------------------------------------------------------------------
(* Properties.                                                             *)

\* All of the builds between two updates copy the same commit of a git context,
\* wherever its reference moves (docs/generic-parameters.md:122-124).
SameCommit ==
  type = "git" => \A u, v \in used : u[1] = v[1] => u[2] = v[2]

\* The extensions an update locks are required by the composer.lock of the very
\* commit it locks, and so of the sources that builds copy.
ReqsOfSources ==
  type = "git" =>
    \A locks \in {lockfile} \cup {job[j].locks : j \in Job} :
      locks.reqs # None => /\ locks.reqs = locks.commit
                           /\ \A u \in used : u[1] = locks.run => u[2] = locks.reqs

\* Asking whether a file exists gets the right answer: dependencies are installed
\* with npm when the sources have a package-lock.json, and with yarn when they do not
\* (solver.go:24: "FileExists check if the given filepath exists in the given
\* context").
FileExistsIsRight ==
  kind = "nodejs" => \A j \in Job : /\ job[j].answer # "crash"
                                    /\ job[j].answer = "found" => has[job[j].commit]
                                    /\ job[j].answer = "absent" => ~has[job[j].commit]
=============================================================================
