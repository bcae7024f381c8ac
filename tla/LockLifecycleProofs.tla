------------------------- MODULE LockLifecycleProofs -------------------------
(***************************************************************************)
(* Proofs about the lockfile's life, for any number of definitions,        *)
(* stages, builders, edits, updates and tag moves.                         *)
(***************************************************************************)
EXTENDS LockLifecycle, TLAPS

\* What an update has in hand once it got past each of its steps.
UpdateInv ==
  /\ upd.pc \notin {"idle", "zbuildfile"} => upd.def # None /\ upd.origin # None
  /\ upd.pc \in {"stages", "open", "write"} => upd.out.base # None
  /\ upd.embedded => upd.parent.base # None

TypeInv == TypeOK /\ UpdateInv

-----------------------------------------------------------------------------
(* What the operators return.                                              *)

LEMMA EmptyTyped ==
  /\ NoStageLocks \in StageLocks
  /\ NoLocks \in HandlerLocks
  /\ EmptyLockfile \in RawLocks
  /\ NoUpdate \in Update
  /\ NoJob \in Job
<1>1. NoStageLocks \in StageLocks
  BY DEF NoStageLocks, StageLocks
<1>2. NoLocks \in HandlerLocks
  BY DEF NoLocks, HandlerLocks
<1>3. EmptyLockfile \in RawLocks
  BY <1>2 DEF EmptyLockfile, RawLocks
<1>4. NoUpdate \in Update
  BY <1>2, <1>3 DEF NoUpdate, Update, FullUpdate, Dir
<1>5. NoJob \in Job
  BY <1>3, LifecycleAssumption DEF NoJob, Job, Outcomes
<1> QED
  BY <1>1, <1>2, <1>3, <1>4, <1>5

LEMMA StampTyped ==
  ASSUME NEW u \in Update, u.def # None, runs \in Nat, NEW g \in Digest
  PROVE  StampNow(u, g) \in Stamp
BY DEF StampNow, Stamp, Update

LEMMA LockedStageTyped ==
  ASSUME NEW u \in Update, u.def # None, u.out.base # None, runs \in Nat, NEW s \in Stage
  PROVE  LockedStage(u, s) \in StageLocks
<1>1. u.out.base \in Stamp
  BY DEF Update, HandlerLocks
<1>2. StampNow(u, u.out.base.image) \in Stamp
  BY <1>1, StampTyped DEF Stamp
<1>3. ReadLocks(u) \in HandlerLocks
  BY DEF ReadLocks, Update, RawLocks
<1>4. ReadLocks(u).stages[s] \in StageLocks \cup {None}
  BY <1>3 DEF HandlerLocks
<1>5. (IF ReadLocks(u).stages[s] = None THEN NoStageLocks ELSE ReadLocks(u).stages[s])
        \in StageLocks
  BY <1>4, EmptyTyped
<1> QED
  BY <1>2, <1>5 DEF LockedStage, StageLocks

LEMMA UpdatedLocksTyped ==
  ASSUME NEW u \in Update, u.origin # None
  PROVE  UpdatedLocks(u) \in RawLocks
BY EmptyTyped, LifecycleAssumption DEF UpdatedLocks, Update, RawLocks

LEMMA StagesUpToTyped ==
  ASSUME NEW locks \in HandlerLocks, NEW s \in Stage, NEW partial \in StageLocks
  PROVE  StagesUpTo(locks, s, partial) \in [Stage -> StageLocks \cup {None}]
BY DEF StagesUpTo, HandlerLocks

LEMMA PrefixesTyped ==
  ASSUME NEW c \in RawLocks
  PROVE  Prefixes(c) \subseteq RawLocks
<1>1. /\ c.top \in HandlerLocks /\ c.web \in HandlerLocks
      /\ c.hash \in Def \cup {None} /\ c.kind \in Kinds \cup {None}
      /\ c.origin \in Def \cup {None}
  BY DEF RawLocks
<1>2. /\ c.top.base \in Stamp \cup {None}
      /\ c.top.stages \in [Stage -> StageLocks \cup {None}]
      /\ NoLocks.stages \in [Stage -> StageLocks \cup {None}]
  BY <1>1, EmptyTyped DEF HandlerLocks
<1>3. [EmptyLockfile EXCEPT !.kind = c.kind, !.top.base = c.top.base] \in RawLocks
  BY <1>2, EmptyTyped DEF RawLocks, HandlerLocks
<1>4. \A st \in [Stage -> StageLocks \cup {None}] : CutStages(c, st) \in RawLocks
  BY <1>1, EmptyTyped DEF CutStages, RawLocks, HandlerLocks
<1>5. [c EXCEPT !.web.stages = NoLocks.stages] \in RawLocks
  BY <1>1, <1>2 DEF RawLocks, HandlerLocks
<1>6. ASSUME NEW s \in Stage
      PROVE  ExtensionsOnly(c.top, s) \in StageLocks
  <2>1. c.top.stages[s] \in StageLocks \cup {None}
    BY <1>2
  <2> QED
    BY <2>1, EmptyTyped DEF ExtensionsOnly, StageLocks
<1>7. ASSUME NEW s \in Stage, NEW partial \in StageLocks
      PROVE  CutStages(c, StagesUpTo(c.top, s, partial)) \in RawLocks
  BY <1>1, <1>4, StagesUpToTyped
<1> QED
  BY <1>2, <1>3, <1>4, <1>5, <1>6, <1>7, EmptyTyped DEF Prefixes

-----------------------------------------------------------------------------
(* Type correctness.                                                       *)

LEMMA TypeInvInit == Init => TypeInv
BY EmptyTyped DEF Init, TypeInv, TypeOK, UpdateInv, NoUpdate

LEMMA UpdateStepTypeInv == TypeInv /\ UpdateStep => TypeInv'
<1> SUFFICES ASSUME TypeInv, UpdateStep PROVE TypeInv'
  OBVIOUS
<1> USE DEF TypeInv, TypeOK, UpdateInv
<1>1. CASE LoadZbuildfile
  <2>1. zbuildfile \in Def /\ zbuildfile # None
    BY LifecycleAssumption
  <2>2. upd' \in Update
    BY <1>1, <2>1 DEF LoadZbuildfile, Update
  <2>3. UpdateInv'
    BY <1>1, <2>1 DEF LoadZbuildfile, Update
  <2> QED
    BY <1>1, <2>2, <2>3 DEF LoadZbuildfile, env
<1>2. CASE LoadLockfile
  <2>1. lockfile["context"] \in RawLocks
    BY <1>2 DEF LoadLockfile, Dir
  <2> QED
    BY <1>2, <2>1 DEF LoadLockfile, Update, env
<1>3. CASE ResolveImage
  <2> DEFINE base == IF "image" \in upd.flags THEN StampNow(upd, registry[ImageTag[upd.def]])
                     ELSE LockedBase(upd)
  <2>1. upd.def \in Def /\ upd.def # None
    BY <1>3 DEF ResolveImage, Update
  <2>2. StampNow(upd, registry[ImageTag[upd.def]]) \in Stamp
    BY <2>1, StampTyped, LifecycleAssumption
  <2>3. ReadLocks(upd) \in HandlerLocks
    BY DEF ReadLocks, Update, RawLocks
  <2>4. base \in Stamp \cup {None} /\ base # None
    BY <1>3, <2>2, <2>3 DEF ResolveImage, LockedBase, HandlerLocks
  <2>5. Stages[upd.def] \in SUBSET Stage
    BY <2>1, LifecycleAssumption
  <2>6. [NoLocks EXCEPT !.base = base] \in HandlerLocks
    BY <2>4, EmptyTyped DEF HandlerLocks
  <2>7. upd' = [upd EXCEPT !.pc = "stages", !.out = [NoLocks EXCEPT !.base = base],
                           !.todo = Stages[upd.def]]
    BY <1>3 DEF ResolveImage
  <2>8. upd' \in Update /\ upd'.out.base # None
    BY <2>4, <2>5, <2>6, <2>7, EmptyTyped DEF Update, HandlerLocks
  <2> QED
    BY <1>3, <2>1, <2>7, <2>8 DEF ResolveImage, env, Update
<1>4. ASSUME NEW s \in Stage, LockStage(s) PROVE TypeInv'
  <2>1. LockedStage(upd, s) \in StageLocks
    BY <1>4, LockedStageTyped DEF LockStage, Update
  <2>2. upd.out \in HandlerLocks
    BY DEF Update
  <2>3. [upd.out EXCEPT !.stages[s] = LockedStage(upd, s)] \in HandlerLocks
    BY <2>1, <2>2 DEF HandlerLocks
  <2>4. upd' = [upd EXCEPT !.out = [upd.out EXCEPT !.stages[s] = LockedStage(upd, s)],
                           !.todo = @ \ {s}]
    BY <1>4 DEF LockStage, Update, HandlerLocks
  <2>5. upd' \in Update
    BY <2>3, <2>4 DEF Update
  <2>6. UpdateInv'
    BY <1>4, <2>2, <2>4 DEF LockStage, Update, HandlerLocks
  <2> QED
    BY <1>4, <2>5, <2>6 DEF LockStage, env
<1>5. CASE EnterWebserver
  <2>1. upd.def \in Def /\ Web[upd.def] \in Def /\ Web[upd.def] # None
    BY <1>5, LifecycleAssumption DEF EnterWebserver, Update
  <2> QED
    BY <1>5, <2>1 DEF EnterWebserver, Update, env
<1>6. CASE FinishLocks
  BY <1>6 DEF FinishLocks, Update, env
<1>7. CASE TruncateLockfile
  BY <1>7, EmptyTyped DEF TruncateLockfile, Dir, Update, env
<1>8. CASE WriteLockfile
  <2>1. UpdatedLocks(upd) \in RawLocks
    BY <1>8, UpdatedLocksTyped DEF WriteLockfile
  <2>2. UpdatedLocks(upd).top.base \in Stamp
    BY <1>8, <2>1 DEF WriteLockfile, UpdatedLocks, Update, RawLocks, HandlerLocks
  <2>3. [run |-> runs, def |-> upd.origin, image |-> UpdatedLocks(upd).top.base.image]
          \in Stamp
    BY <1>8, <2>2 DEF WriteLockfile, Update, Stamp
  <2>4. UpdateInv'
    BY <1>8 DEF WriteLockfile, NoUpdate
  <2> QED
    BY <1>8, <2>1, <2>3, <2>4, EmptyTyped DEF WriteLockfile, Dir, env
<1> QED
  BY <1>1, <1>2, <1>3, <1>4, <1>5, <1>6, <1>7, <1>8 DEF UpdateStep

LEMMA BuildStepTypeInv ==
  ASSUME TypeInv, NEW b \in Builder, StartBuild(b) \/ BuildStep(b)
  PROVE  TypeInv'
<1> USE DEF TypeInv, TypeOK, UpdateInv
<1>1. CASE StartBuild(b)
  <2>1. [NoJob EXCEPT !.pc = "zbuildfile"] \in Job
    BY EmptyTyped DEF Job
  <2> QED
    BY <1>1, <2>1 DEF StartBuild, env
<1>2. CASE ReadZbuildfile(b)
  <2>1. zbuildfile \in Def
    BY LifecycleAssumption
  <2>2. [job[b] EXCEPT !.pc = "lockfile", !.def = zbuildfile] \in Job
    BY <2>1 DEF Job
  <2>3. job' = [job EXCEPT ![b] = [job[b] EXCEPT !.pc = "lockfile", !.def = zbuildfile]]
    BY <1>2 DEF ReadZbuildfile, Job
  <2>4. job' \in [Builder -> Job]
    BY <2>2, <2>3
  <2> QED
    BY <1>2, <2>4 DEF ReadZbuildfile, env
<1>3. CASE ReadLockfile(b)
  <2>1. lockfile["context"] # Garbled => lockfile["context"] \in RawLocks
    BY DEF Dir
  <2> DEFINE failed == [job[b] EXCEPT !.pc = "idle", !.outcome = "Error"]
             loaded == [job[b] EXCEPT !.pc = "check", !.locks = lockfile["context"]]
  <2>2. failed \in Job
    BY DEF Job, Outcomes
  <2>3. lockfile["context"] # Garbled => loaded \in Job
    BY <2>1 DEF Job
  <2>4. job' = [job EXCEPT ![b] = IF lockfile["context"] = Garbled THEN failed ELSE loaded]
    BY <1>3 DEF ReadLockfile, Job
  <2>5. job' \in [Builder -> Job]
    BY <2>2, <2>3, <2>4
  <2> QED
    BY <1>3, <2>5 DEF ReadLockfile, env
<1>4. CASE FinishBuild(b)
  <2>1. PICK m \in {"build", "debug", "dump"}, s \in Stage, w \in BOOLEAN :
          LET j == [job[b] EXCEPT !.pc = "idle", !.mode = m, !.stage = s, !.webserver = w]
          IN  job' = [job EXCEPT ![b] = [j EXCEPT !.outcome = Verdict(j)]]
    BY <1>4 DEF FinishBuild
  <2> DEFINE j == [job[b] EXCEPT !.pc = "idle", !.mode = m, !.stage = s, !.webserver = w]
  <2>2. j \in Job
    BY DEF Job
  <2>3. Verdict(j) \in Outcomes
    BY DEF Verdict, Outcomes
  <2>4. [j EXCEPT !.outcome = Verdict(j)] \in Job
    <3> HIDE DEF j
    <3> QED
      BY <2>2, <2>3 DEF Job
  <2>5. job' \in [Builder -> Job]
    BY <2>1, <2>4
  <2> QED
    BY <1>4, <2>5 DEF FinishBuild, env
<1> QED
  BY <1>1, <1>2, <1>3, <1>4 DEF BuildStep

LEMMA NextTypeInv == TypeInv /\ [Next]_vars => TypeInv'
<1> SUFFICES ASSUME TypeInv, [Next]_vars PROVE TypeInv'
  OBVIOUS
<1> USE DEF TypeInv, TypeOK, UpdateInv
<1>1. CASE EditZbuildfile
  BY <1>1 DEF EditZbuildfile
<1>2. CASE DeleteLockfile
  BY <1>2, EmptyTyped DEF DeleteLockfile, Dir
<1>3. CASE MoveTag
  BY <1>3 DEF MoveTag
<1>4. CASE StartUpdate
  <2>1. PICK f \in Flags, d \in Targets :
               upd' = [upd EXCEPT !.pc = "zbuildfile", !.flags = f, !.dir = d]
    BY <1>4 DEF StartUpdate
  <2>2. f \in SUBSET FullUpdate /\ d \in Dir
    BY LifecycleAssumption
  <2>3. upd' \in Update
    BY <2>1, <2>2 DEF Update
  <2>4. upd'.pc = "zbuildfile" /\ upd'.embedded = upd.embedded /\ upd'.parent = upd.parent
    BY <2>1 DEF Update
  <2>5. UpdateInv'
    BY <2>4
  <2> QED
    BY <1>4, <2>3, <2>5 DEF StartUpdate, env
<1>5. CASE UpdateStep
  BY <1>5, UpdateStepTypeInv
<1>6. CASE TearLockfile
  <2>1. PICK c \in Prefixes(UpdatedLocks(upd)) \cup {Garbled} :
          lockfile' = [lockfile EXCEPT ![upd.dir] = c]
    BY <1>6 DEF TearLockfile
  <2>2. c \in RawLocks \cup {Garbled}
    BY <1>6, UpdatedLocksTyped, PrefixesTyped DEF TearLockfile
  <2>3. UpdateInv'
    BY <1>6 DEF TearLockfile, NoUpdate
  <2> QED
    BY <1>6, <2>1, <2>2, <2>3, EmptyTyped DEF TearLockfile, Dir, env
<1>7. CASE AbortUpdate
  BY <1>7, EmptyTyped DEF AbortUpdate, NoUpdate, env
<1>8. ASSUME NEW b \in Builder, StartBuild(b) \/ BuildStep(b) PROVE TypeInv'
  BY <1>8, BuildStepTypeInv
<1>9. CASE UNCHANGED vars
  BY <1>9 DEF vars
<1> QED
  BY <1>1, <1>2, <1>3, <1>4, <1>5, <1>6, <1>7, <1>8, <1>9 DEF Next

LEMMA TypeInvariance == Spec => []TypeInv
BY TypeInvInit, NextTypeInv, PTL DEF Spec

\* Every state of the specification is well typed: an update that decodes, cuts
\* or keeps locks never puts in the lockfile anything RawLocks cannot decode, and
\* what it resolves is always stamped with a real definition and image.
THEOREM TypeCorrect == Spec => []TypeOK
BY TypeInvariance, PTL DEF TypeInv

-----------------------------------------------------------------------------
(* The out-of-sync check, for definitions without an embedded webserver.   *)
(* With one, the hash recorded is that of the embedded definition, and the *)
(* property is false.                                                      *)

NoEmbedded == \A d \in Def : Web[d] = None

\* The hash recorded in a set of locks is that of the definition loaded by the
\* update that resolved them.
Faithful(locks) == locks.hash = locks.origin

\* The files, the copies of them in memory and the locks an update is about to
\* write are faithful; and a build has no outcome before it ends.
HashInv ==
  /\ \A d \in Dir : lockfile[d] # Garbled => Faithful(lockfile[d])
  /\ ~upd.embedded /\ upd.def = upd.origin
  /\ \A b \in Builder : /\ Faithful(job[b].locks)
                        /\ job[b].pc # "idle" => job[b].outcome = "none"

LEMMA PrefixesFaithful ==
  ASSUME NEW c \in RawLocks, Faithful(c), NEW p \in Prefixes(c)
  PROVE  Faithful(p)
<1>1. Faithful([EmptyLockfile EXCEPT !.kind = c.kind, !.top.base = c.top.base])
  BY EmptyTyped DEF EmptyLockfile, Faithful, RawLocks
<1>2. \A st : Faithful(CutStages(c, st))
  BY DEF CutStages, Faithful, RawLocks
<1>3. Faithful([c EXCEPT !.web.stages = NoLocks.stages])
  BY DEF Faithful, RawLocks
<1> QED
  BY <1>1, <1>2, <1>3 DEF Prefixes

LEMMA HashInvInit == Init => HashInv
BY DEF Init, HashInv, Faithful, EmptyLockfile, NoUpdate, NoJob

LEMMA HashInvNext ==
  ASSUME NoEmbedded, TypeInv, HashInv, [Next]_vars
  PROVE  HashInv'
<1> USE DEF TypeInv, TypeOK, HashInv
<1>1. CASE EditZbuildfile \/ MoveTag \/ UNCHANGED vars
  BY <1>1 DEF EditZbuildfile, MoveTag, vars
<1>2. CASE DeleteLockfile
  BY <1>2 DEF DeleteLockfile, Dir, Faithful, EmptyLockfile
<1>3. CASE StartUpdate
  BY <1>3 DEF StartUpdate, env, Update
<1>4. CASE LoadZbuildfile \/ LoadLockfile \/ FinishLocks
  BY <1>4 DEF LoadZbuildfile, LoadLockfile, FinishLocks, env, Update
<1>5. CASE ResolveImage
  BY <1>5 DEF ResolveImage, env, Update
<1>6. ASSUME NEW s \in Stage, LockStage(s) PROVE HashInv'
  BY <1>6 DEF LockStage, env, Update
<1>7. CASE EnterWebserver
  BY <1>7 DEF EnterWebserver, UpdateInv, NoEmbedded, Update
<1>8. CASE TruncateLockfile
  BY <1>8 DEF TruncateLockfile, Dir, env, Update, Faithful, EmptyLockfile
<1>9. CASE WriteLockfile
  <2>1. Faithful(UpdatedLocks(upd))
    BY DEF Faithful, UpdatedLocks
  <2> QED
    BY <1>9, <2>1 DEF WriteLockfile, Dir, env, NoUpdate
<1>10. CASE TearLockfile
  <2>1. Faithful(UpdatedLocks(upd)) /\ UpdatedLocks(upd) \in RawLocks
    BY <1>10, UpdatedLocksTyped DEF TearLockfile, UpdateInv, Faithful, UpdatedLocks
  <2>2. \A c \in Prefixes(UpdatedLocks(upd)) : Faithful(c)
    BY <2>1, PrefixesFaithful
  <2> QED
    BY <1>10, <2>2 DEF TearLockfile, Dir, env, NoUpdate
<1>11. CASE AbortUpdate
  BY <1>11 DEF AbortUpdate, NoUpdate, env
<1>12. ASSUME NEW b \in Builder, StartBuild(b) PROVE HashInv'
  BY <1>12 DEF StartBuild, env, NoJob, Faithful, EmptyLockfile
<1>13. ASSUME NEW b \in Builder, ReadZbuildfile(b) PROVE HashInv'
  BY <1>13 DEF ReadZbuildfile, env, Job, Faithful
<1>14. ASSUME NEW b \in Builder, ReadLockfile(b) PROVE HashInv'
  BY <1>14 DEF ReadLockfile, env, Job, Faithful, Dir
<1>15. ASSUME NEW b \in Builder, FinishBuild(b) PROVE HashInv'
  <2>1. PICK m \in {"build", "debug", "dump"}, s \in Stage, w \in BOOLEAN :
          LET j == [job[b] EXCEPT !.pc = "idle", !.mode = m, !.stage = s, !.webserver = w]
          IN  job' = [job EXCEPT ![b] = [j EXCEPT !.outcome = Verdict(j)]]
    BY <1>15 DEF FinishBuild
  <2>2. job'[b].locks = job[b].locks /\ job'[b].pc = "idle"
    BY <2>1 DEF Job
  <2> QED
    BY <1>15, <2>1, <2>2 DEF FinishBuild, env
<1> QED
  BY <1>1, <1>2, <1>3, <1>4, <1>5, <1>6, <1>7, <1>8, <1>9, <1>10, <1>11, <1>12, <1>13,
     <1>14, <1>15 DEF Next, UpdateStep, BuildStep

\* What a build is told is decided by what it loaded and nothing else.
LEMMA HashCheckInit == Init => HashCheckExact
BY DEF Init, HashCheckExact, NoJob

LEMMA HashCheckNext ==
  ASSUME TypeInv, HashInv, HashCheckExact, [Next]_vars
  PROVE  HashCheckExact'
<1> USE DEF TypeInv, TypeOK, HashInv, HashCheckExact
<1>1. CASE UNCHANGED job
  BY <1>1
<1>2. ASSUME NEW b \in Builder, StartBuild(b) PROVE HashCheckExact'
  BY <1>2 DEF StartBuild, NoJob
<1>3. ASSUME NEW b \in Builder, ReadZbuildfile(b) PROVE HashCheckExact'
  BY <1>3 DEF ReadZbuildfile, Job
<1>4. ASSUME NEW b \in Builder, ReadLockfile(b) PROVE HashCheckExact'
  BY <1>4 DEF ReadLockfile, Job
<1>5. ASSUME NEW b \in Builder, FinishBuild(b) PROVE HashCheckExact'
  <2>1. PICK m \in {"build", "debug", "dump"}, s \in Stage, w \in BOOLEAN :
          LET j == [job[b] EXCEPT !.pc = "idle", !.mode = m, !.stage = s, !.webserver = w]
          IN  job' = [job EXCEPT ![b] = [j EXCEPT !.outcome = Verdict(j)]]
    BY <1>5 DEF FinishBuild
  <2> DEFINE j == [job[b] EXCEPT !.pc = "idle", !.mode = m, !.stage = s, !.webserver = w]
  <2>2. j \in Job /\ Faithful(j.locks)
    BY ZenonT(60) DEF Job
  <2>3. Verdict(j) = "OutOfSync" => j.locks.hash # j.def
    BY DEF Verdict, InSync
  <2>4. Verdict(j) = "Built" /\ j.mode = "build" => j.locks.hash = j.def
    BY DEF Verdict, InSync
  <2>5. job' = [job EXCEPT ![b] = [j EXCEPT !.outcome = Verdict(j)]]
    BY <2>1
  <2>6. /\ job'[b].outcome = Verdict(j) /\ job'[b].locks = j.locks
        /\ job'[b].def = j.def /\ job'[b].mode = j.mode
    <3> HIDE DEF j
    <3> QED
      BY <2>2, <2>5 DEF Job
  <2>7. \A c \in Builder : c # b => job'[c] = job[c]
    BY <2>5
  <2> HIDE DEF j
  <2> QED
    BY <2>2, <2>3, <2>4, <2>6, <2>7 DEF Faithful
<1>6. CASE UNCHANGED vars
  BY <1>1, <1>6 DEF vars
<1>7. CASE \/ EditZbuildfile \/ DeleteLockfile \/ MoveTag \/ StartUpdate \/ UpdateStep
           \/ TearLockfile \/ AbortUpdate
  BY <1>1, <1>7 DEF EditZbuildfile, DeleteLockfile, MoveTag, StartUpdate, UpdateStep,
     TearLockfile, AbortUpdate, LoadZbuildfile, LoadLockfile, ResolveImage, LockStage,
     EnterWebserver, FinishLocks, TruncateLockfile, WriteLockfile
<1> QED
  BY <1>2, <1>3, <1>4, <1>5, <1>6, <1>7 DEF Next, BuildStep

\* Without embedded webservers, the out-of-sync check refuses a lockfile exactly
\* when it was generated for another definition than the one being built: with
\* any flags given to the updates, with lockfiles cut short, and whatever edits
\* and tag moves come between the steps of updates and builds.
THEOREM HashCheckCorrect ==
  ASSUME NoEmbedded
  PROVE  Spec => []HashCheckExact
<1>1. Spec => []HashInv
  BY TypeInvariance, HashInvInit, HashInvNext, PTL DEF Spec
<1>2. Spec => []HashCheckExact
  BY <1>1, TypeInvariance, HashCheckInit, HashCheckNext, PTL DEF Spec
<1> QED
  BY <1>2

-----------------------------------------------------------------------------
(* Where the values of an image come from, when updates are full ones.     *)
(* Values kept by a partial update belong to the definition of an earlier  *)
(* one, and the properties below are false.                                *)

FullOnly == Flags \subseteq {FullUpdate}

\* No zbuildfile holds, on its own, the very webserver another one embeds.
EmbeddedApart == \A d \in ZbuildDef : Web[d] \notin ZbuildDef

\* Nothing but one value is locked, whichever the stage.
Only(h, st) == \A s \in Stage : StampsOf(h, s) \subseteq {st}

\* The locks of one handler, resolved for d by the update that is running.
Stamped(h, d) == h.base.def = d /\ h.base.run = runs /\ Only(h, h.base)

\* The values of a file are those of one update, and each handler's are one value.
OneRun(locks) ==
  \A s1, s2 \in Stage :
    /\ \A a \in StampsOf(locks.top, s1), b \in StampsOf(locks.top, s2) : a = b
    /\ \A a \in StampsOf(locks.web, s1), b \in StampsOf(locks.web, s2) : a = b
    /\ \A a \in StampsOf(locks.top, s1), b \in StampsOf(locks.web, s2) : a.run = b.run

\* A file that the definition hashed in it can decode was resolved for it.  The
\* hash of an embedded webserver never passes: the keys are those of its parent.
Rightful(locks) ==
  locks.hash # None /\ Decodable(locks, locks.hash) =>
    /\ Web[locks.hash] = None
    /\ \A s \in Stage : \A a \in StampsOf(locks.top, s) : a.def = locks.hash

StageWhole(h, s, d) ==
  /\ h.stages[s] # None /\ h.stages[s].packages # None
  /\ Kind[d] = "php" => h.stages[s].extensions # None

\* The locks of a handler have all that d asks for.
Whole(h, d) == h.base # None /\ \A s \in Stages[d] : StageWhole(h, s, d)

WholeFile(locks) ==
  locks.hash # None /\ Decodable(locks, locks.hash) => Whole(locks.top, locks.hash)

OwnKeys(locks) == locks.hash \in ZbuildDef => locks.kind = Kind[locks.hash]

FileOK(locks) ==
  /\ OneRun(locks) /\ Rightful(locks)
  /\ ~TornWrites => WholeFile(locks)
  /\ EmbeddedApart => OwnKeys(locks)

\* What an update has in hand after each of its steps.
UpdateOK(u) ==
  /\ u.pc # "idle" => u.flags = FullUpdate
  /\ u.pc \in {"idle", "zbuildfile", "lockfile"} => ~u.embedded
  /\ u.pc \in {"lockfile", "image", "stages", "open", "write"} =>
        /\ u.origin \in ZbuildDef
        /\ u.def = IF u.embedded THEN Web[u.origin] ELSE u.origin
  /\ u.pc \in {"stages", "open", "write"} => Stamped(u.out, u.def)
  /\ u.pc = "stages" => \A s \in Stages[u.def] \ u.todo : StageWhole(u.out, s, u.def)
  /\ u.pc \in {"open", "write"} => /\ Whole(u.out, u.def)
                                   /\ u.embedded \/ Web[u.def] = None
  /\ u.embedded => Stamped(u.parent, u.origin)

\* What a build that succeeded has compared, and could do.
Checked(j) ==
  /\ j.def # None
  /\ j.mode = "build" => /\ j.locks.hash = j.def /\ Resolvable(j)
                         /\ j.webserver => Web[j.def] # None

JobOK(j) ==
  /\ FileOK(j.locks)
  /\ j.pc # "idle" => j.outcome = "none"
  /\ j.pc \in {"zbuildfile", "lockfile"} => j.locks.hash = None
  /\ j.pc \in {"lockfile", "check"} => j.def \in ZbuildDef
  /\ j.outcome = "Built" => Checked(j)

LocksInv ==
  /\ \A d \in Dir : lockfile[d] # Garbled => FileOK(lockfile[d])
  /\ UpdateOK(upd)
  /\ \A b \in Builder : JobOK(job[b])

\* An empty lockfile has no value to mix, no hash to mistake.
LEMMA EmptyFileOK == FileOK(EmptyLockfile)
<1>1. None \notin ZbuildDef
  BY LifecycleAssumption
<1>2. /\ EmptyLockfile.hash = None
      /\ EmptyLockfile.top = NoLocks /\ EmptyLockfile.web = NoLocks
  BY DEF EmptyLockfile
<1>3. \A s \in Stage : StampsOf(NoLocks, s) = {}
  BY DEF NoLocks, StampsOf, Present
<1> QED
  BY <1>1, <1>2, <1>3 DEF FileOK, OneRun, Rightful, WholeFile, OwnKeys

\* A lockfile cut short has no value its whole has not, and the keys of its kind.
LEMMA PrefixesLess ==
  ASSUME NEW c \in RawLocks, NEW p \in Prefixes(c)
  PROVE  /\ p.hash \in {None, c.hash} /\ p.kind = c.kind
         /\ \A s \in Stage : /\ StampsOf(p.top, s) \subseteq StampsOf(c.top, s)
                             /\ StampsOf(p.web, s) \subseteq StampsOf(c.web, s)
<1> DEFINE Less(q) ==
      /\ q.hash \in {None, c.hash} /\ q.kind = c.kind
      /\ \A s \in Stage : /\ StampsOf(q.top, s) \subseteq StampsOf(c.top, s)
                          /\ StampsOf(q.web, s) \subseteq StampsOf(c.web, s)
<1>1. /\ c.top \in HandlerLocks /\ c.top.stages \in [Stage -> StageLocks \cup {None}]
      /\ c.web \in HandlerLocks
  BY DEF RawLocks, HandlerLocks
<1>2. \A s \in Stage : StampsOf(NoLocks, s) = {}
  BY DEF NoLocks, StampsOf, Present
<1>3. CASE p = [EmptyLockfile EXCEPT !.kind = c.kind, !.top.base = c.top.base]
  <2>1. /\ p.hash = None /\ p.kind = c.kind
        /\ p.top = [NoLocks EXCEPT !.base = c.top.base] /\ p.web = NoLocks
    BY <1>3 DEF EmptyLockfile
  <2>2. \A s \in Stage : StampsOf(p.top, s) \subseteq StampsOf(c.top, s)
    BY <2>1 DEF NoLocks, StampsOf, Present
  <2> QED
    BY <1>2, <2>1, <2>2
<1>4. ASSUME NEW st \in [Stage -> StageLocks \cup {None}], p = CutStages(c, st),
             \A s \in Stage : st[s] # None =>
                /\ c.top.stages[s] # None
                /\ st[s].packages \in {None, c.top.stages[s].packages}
                /\ st[s].extensions \in {None, c.top.stages[s].extensions}
      PROVE  Less(p)
  <2>1. /\ p.hash = c.hash /\ p.kind = c.kind /\ p.web = NoLocks
        /\ p.top.base = c.top.base /\ p.top.stages = st
    BY <1>1, <1>4 DEF CutStages, RawLocks, HandlerLocks
  <2>2. \A s \in Stage : StampsOf(p.top, s) \subseteq StampsOf(c.top, s)
    BY <2>1, <1>4 DEF StampsOf, Present
  <2> QED
    BY <1>2, <2>1, <2>2
<1>5. CASE p = CutStages(c, NoLocks.stages)
  <2>1. /\ NoLocks.stages \in [Stage -> StageLocks \cup {None}]
        /\ \A s \in Stage : NoLocks.stages[s] = None
    BY DEF NoLocks
  <2> QED
    BY <1>4, <1>5, <2>1
<1>6. CASE p = [c EXCEPT !.web.stages = NoLocks.stages]
  <2>1. /\ p.hash = c.hash /\ p.kind = c.kind /\ p.top = c.top
        /\ p.web = [c.web EXCEPT !.stages = NoLocks.stages]
    BY <1>6 DEF RawLocks
  <2>2. p.web.base = c.web.base /\ \A s \in Stage : p.web.stages[s] = None
    BY <1>1, <2>1 DEF HandlerLocks, NoLocks
  <2>3. \A s \in Stage : StampsOf(p.web, s) \subseteq StampsOf(c.web, s)
    BY <2>2 DEF StampsOf, Present
  <2> QED
    BY <2>1, <2>3
<1>7. ASSUME NEW s \in Stage, NEW partial \in StageLocks,
             p = CutStages(c, StagesUpTo(c.top, s, partial)),
             partial.packages = None,
             c.top.stages[s] # None => partial.extensions \in {None, c.top.stages[s].extensions}
      PROVE  Less(p)
  <2> DEFINE st == StagesUpTo(c.top, s, partial)
  <2>1. st \in [Stage -> StageLocks \cup {None}]
    BY <1>1, StagesUpToTyped
  <2>2. \A t \in Stage : st[t] = IF Rank[t] < Rank[s] THEN c.top.stages[t]
                                 ELSE IF t = s /\ c.top.stages[t] # None THEN partial ELSE None
    BY DEF StagesUpTo
  <2>3. p = CutStages(c, st)
    BY <1>7
  <2> HIDE DEF st, Less
  <2>4. ASSUME NEW t \in Stage, st[t] # None
        PROVE  /\ c.top.stages[t] # None
               /\ st[t].packages \in {None, c.top.stages[t].packages}
               /\ st[t].extensions \in {None, c.top.stages[t].extensions}
    BY <1>7, <2>2, <2>4
  <2> QED
    BY <1>4, <2>1, <2>3, <2>4
<1>8. ASSUME NEW s \in Stage
      PROVE  LET e == ExtensionsOnly(c.top, s) IN
             /\ e \in StageLocks /\ e.packages = None
             /\ c.top.stages[s] # None => e.extensions = c.top.stages[s].extensions
  <2>1. c.top.stages[s] \in StageLocks \cup {None}
    BY <1>1
  <2> QED
    BY <2>1, EmptyTyped DEF ExtensionsOnly, StageLocks, NoStageLocks
<1>9. NoStageLocks \in StageLocks /\ NoStageLocks.packages = None /\ NoStageLocks.extensions = None
  BY EmptyTyped DEF NoStageLocks
<1> HIDE DEF Less
<1>10. Less(p)
  BY <1>3, <1>5, <1>6, <1>7, <1>8, <1>9 DEF Prefixes, Less
<1> QED
  BY <1>10 DEF Less

\* So cutting a file short mixes nothing and takes nothing from its owner.
LEMMA PrefixesOK ==
  ASSUME NEW c \in RawLocks, FileOK(c), NEW p \in Prefixes(c), TornWrites
  PROVE  FileOK(p)
<1>1. /\ p.hash \in {None, c.hash} /\ p.kind = c.kind
      /\ \A s \in Stage : /\ StampsOf(p.top, s) \subseteq StampsOf(c.top, s)
                          /\ StampsOf(p.web, s) \subseteq StampsOf(c.web, s)
  BY PrefixesLess
<1>2. OneRun(p)
  BY <1>1 DEF FileOK, OneRun
<1>3. Rightful(p)
  BY <1>1 DEF FileOK, Rightful, Decodable
<1>4. EmbeddedApart => OwnKeys(p)
  BY <1>1, LifecycleAssumption DEF FileOK, OwnKeys
<1> QED
  BY <1>2, <1>3, <1>4 DEF FileOK

\* A full update locks every value against the image it has just resolved, and
\* leaves nothing of the stage out.
LEMMA LockedStageIsBase ==
  ASSUME NEW u \in Update, u.def # None, u.out.base # None, u.flags = FullUpdate,
         u.out.base.def = u.def, u.out.base.run = runs, NEW s \in Stage
  PROVE  /\ LockedStage(u, s).packages = u.out.base
         /\ LockedStage(u, s).extensions = IF Kind[u.def] = "php" THEN u.out.base ELSE None
<1>1. u.out.base \in Stamp
  BY DEF Update, HandlerLocks
<1>2. StampNow(u, u.out.base.image) = u.out.base
  BY <1>1 DEF StampNow, Stamp
<1> QED
  BY <1>2 DEF LockedStage, FullUpdate

\* What a full update writes, embedded webserver included, is in order.
LEMMA UpdatedLocksOK ==
  ASSUME NEW u \in Update, UpdateOK(u), u.pc \in {"open", "write"}
  PROVE  FileOK(UpdatedLocks(u))
<1> DEFINE c == UpdatedLocks(u)
<1>1. /\ c.hash = u.def /\ c.kind = Kind[u.origin]
      /\ c.top = (IF u.embedded THEN u.parent ELSE u.out)
      /\ c.web = (IF u.embedded THEN u.out ELSE NoLocks)
  BY DEF UpdatedLocks
<1>2. /\ u.origin \in ZbuildDef /\ u.origin \in Def /\ u.origin # None
      /\ u.def = (IF u.embedded THEN Web[u.origin] ELSE u.origin)
      /\ Stamped(u.out, u.def) /\ Whole(u.out, u.def)
      /\ u.embedded \/ Web[u.def] = None
      /\ u.embedded => Stamped(u.parent, u.origin)
  BY LifecycleAssumption DEF UpdateOK
<1>3. \A s \in Stage : StampsOf(NoLocks, s) = {}
  BY DEF NoLocks, StampsOf, Present
<1> HIDE DEF c
<1>4. OneRun(c)
  BY <1>1, <1>2, <1>3 DEF OneRun, Stamped, Only
<1>5. CASE ~u.embedded
  <2>1. c.hash = u.origin /\ c.kind = Kind[u.origin] /\ c.top = u.out
    BY <1>1, <1>2, <1>5
  <2>2. Rightful(c)
    BY <1>2, <1>5, <2>1 DEF Rightful, Stamped, Only
  <2>3. WholeFile(c) /\ OwnKeys(c)
    BY <1>2, <1>5, <2>1 DEF WholeFile, OwnKeys
  <2> QED
    BY <1>4, <2>2, <2>3 DEF FileOK, c
<1>6. CASE u.embedded
  <2>1. c.hash = Web[u.origin] /\ c.kind = Kind[u.origin]
    BY <1>1, <1>2, <1>6
  <2>2. c.hash # None => ~Decodable(c, c.hash)
    BY <1>2, <2>1, LifecycleAssumption, SentinelAssumption DEF Decodable
  <2>3. EmbeddedApart => OwnKeys(c)
    BY <1>2, <2>1 DEF EmbeddedApart, OwnKeys
  <2> QED
    BY <1>4, <2>2, <2>3 DEF FileOK, Rightful, WholeFile, c
<1> QED
  BY <1>5, <1>6

-----------------------------------------------------------------------------
(* Every step keeps the files, the update and the builds in order.         *)

LEMMA LocksInvInit == Init => LocksInv
BY EmptyFileOK DEF Init, LocksInv, UpdateOK, NoUpdate, JobOK, NoJob, EmptyLockfile

LEMMA NoUpdateOK == UpdateOK(NoUpdate) /\ UpdateOK(NoUpdate)'
BY DEF UpdateOK, NoUpdate

\* The steps that resolve locks leave the files and the builds alone.
LEMMA ResolveImageOK ==
  ASSUME FullOnly, TypeInv, LocksInv, ResolveImage
  PROVE  UpdateOK(upd)'
<1> USE DEF TypeInv, TypeOK, LocksInv
<1> DEFINE base == StampNow(upd, registry[ImageTag[upd.def]])
<1>1. upd.pc = "image" /\ UpdateOK(upd) /\ upd.flags = FullUpdate
  BY DEF ResolveImage, UpdateOK
<1>2. upd' = [upd EXCEPT !.pc = "stages", !.out = [NoLocks EXCEPT !.base = base],
                         !.todo = Stages[upd.def]]
  BY <1>1 DEF ResolveImage, FullUpdate
<1>3. /\ upd'.pc = "stages" /\ upd'.def = upd.def /\ upd'.flags = upd.flags
      /\ upd'.origin = upd.origin /\ upd'.embedded = upd.embedded
      /\ upd'.parent = upd.parent /\ upd'.todo = Stages[upd.def]
  BY <1>2 DEF Update
<1>4. base.def = upd.def /\ base.run = runs
  BY DEF StampNow
<1> HIDE DEF base
<1>5. upd'.out.base = base /\ upd'.out.stages = NoLocks.stages
  BY <1>2 DEF Update, NoLocks
<1>6. Only(upd'.out, base)
  BY <1>5 DEF Only, StampsOf, Present, NoLocks
<1>7. runs' = runs
  BY DEF ResolveImage
<1>8. Stamped(upd.out, upd.def)'
  BY <1>3, <1>4, <1>5, <1>6, <1>7 DEF Stamped, Only, StampsOf
<1>9. upd.embedded => Stamped(upd.parent, upd.origin)'
  BY <1>1, <1>3, <1>7 DEF UpdateOK, Stamped, Only, StampsOf
<1> QED
  BY <1>1, <1>3, <1>8, <1>9 DEF UpdateOK

LEMMA LockStageOK ==
  ASSUME TypeInv, LocksInv, NEW s \in Stage, LockStage(s)
  PROVE  UpdateOK(upd)'
<1> USE DEF TypeInv, TypeOK, LocksInv
<1>1. /\ upd.pc = "stages" /\ UpdateOK(upd) /\ upd.flags = FullUpdate /\ s \in upd.todo
      /\ upd.out \in HandlerLocks /\ upd.def # None /\ upd.out.base # None
      /\ Stamped(upd.out, upd.def) /\ upd.def \in Def
  BY DEF LockStage, UpdateOK, UpdateInv, Update
<1>2. /\ LockedStage(upd, s).packages = upd.out.base
      /\ LockedStage(upd, s).extensions = IF Kind[upd.def] = "php" THEN upd.out.base ELSE None
  BY <1>1, LockedStageIsBase DEF Stamped
<1>3. /\ upd'.pc = "stages" /\ upd'.def = upd.def /\ upd'.flags = upd.flags
      /\ upd'.origin = upd.origin /\ upd'.embedded = upd.embedded
      /\ upd'.parent = upd.parent /\ upd'.todo = upd.todo \ {s}
      /\ upd'.out.base = upd.out.base
      /\ upd'.out.stages = [upd.out.stages EXCEPT ![s] = LockedStage(upd, s)]
      /\ runs' = runs
  BY <1>1 DEF LockStage, Update, HandlerLocks
<1>4. /\ upd'.out.stages[s] = LockedStage(upd, s)
      /\ \A t \in Stage : t # s => upd'.out.stages[t] = upd.out.stages[t]
  BY <1>1, <1>3 DEF HandlerLocks
<1>5. \A t \in Stage : StampsOf(upd'.out, t) \subseteq {upd.out.base}
  <2> SUFFICES ASSUME NEW t \in Stage PROVE StampsOf(upd'.out, t) \subseteq {upd.out.base}
    OBVIOUS
  <2>1. CASE t = s
    BY <1>2, <1>3, <1>4, <2>1 DEF StampsOf, Present
  <2>2. CASE t # s
    <3>1. StampsOf(upd'.out, t) = StampsOf(upd.out, t)
      BY <1>3, <1>4, <2>2 DEF StampsOf
    <3> QED
      BY <1>1, <3>1 DEF Stamped, Only
  <2> QED
    BY <2>1, <2>2
<1>6. Stamped(upd.out, upd.def)'
  BY <1>1, <1>3, <1>5 DEF Stamped, Only, StampsOf
<1>7. LockedStage(upd, s) # None
  BY <1>1, LockedStageTyped, SentinelAssumption
<1>8. ASSUME NEW t \in Stages[upd.def] \ (upd.todo \ {s})
      PROVE  StageWhole(upd'.out, t, upd.def)
  <2>1. t \in Stage
    BY <1>1, LifecycleAssumption
  <2>2. CASE t = s
    BY <1>1, <1>2, <1>4, <1>7, <2>2 DEF StageWhole
  <2>3. CASE t # s
    BY <1>1, <1>4, <1>8, <2>1, <2>3 DEF StageWhole, UpdateOK
  <2> QED
    BY <2>2, <2>3
<1>9. \A t \in (Stages[upd.def] \ upd.todo)' : StageWhole(upd.out, t, upd.def)'
  BY <1>3, <1>8 DEF StageWhole
<1>10. upd.embedded => Stamped(upd.parent, upd.origin)'
  BY <1>1, <1>3 DEF UpdateOK, Stamped, Only, StampsOf
<1> QED
  BY <1>1, <1>3, <1>6, <1>9, <1>10 DEF UpdateOK

LEMMA EnterWebserverOK ==
  ASSUME TypeInv, LocksInv, EnterWebserver
  PROVE  UpdateOK(upd)'
<1>1. /\ upd.pc = "stages" /\ UpdateOK(upd) /\ ~upd.embedded /\ upd \in Update
      /\ upd.def = upd.origin /\ Stamped(upd.out, upd.def) /\ upd.origin \in ZbuildDef
  BY DEF EnterWebserver, UpdateOK, TypeInv, TypeOK, LocksInv
<1>2. /\ upd'.pc = "image" /\ upd'.def = Web[upd.origin] /\ upd'.embedded = TRUE
      /\ upd'.parent = upd.out /\ upd'.origin = upd.origin /\ upd'.flags = upd.flags
      /\ runs' = runs
  BY <1>1 DEF EnterWebserver, Update
<1>3. Stamped(upd.parent, upd.origin)'
  BY <1>1, <1>2 DEF Stamped, Only, StampsOf
<1> QED
  BY <1>1, <1>2, <1>3 DEF UpdateOK

LEMMA FinishLocksOK ==
  ASSUME TypeInv, LocksInv, FinishLocks
  PROVE  UpdateOK(upd)'
<1>1. /\ upd.pc = "stages" /\ upd.todo = {} /\ UpdateOK(upd) /\ upd \in Update
      /\ upd.out.base # None
      /\ upd.embedded \/ Web[upd.def] = None
  BY DEF FinishLocks, TypeInv, TypeOK, UpdateInv, LocksInv
<1>2. Whole(upd.out, upd.def)
  BY <1>1 DEF UpdateOK, Whole
<1>3. /\ upd' = [upd EXCEPT !.pc = "open"]
      /\ runs' = runs
  BY DEF FinishLocks
<1>4. /\ upd'.pc = "open" /\ upd'.def = upd.def /\ upd'.flags = upd.flags
      /\ upd'.origin = upd.origin /\ upd'.embedded = upd.embedded
      /\ upd'.parent = upd.parent /\ upd'.out = upd.out
  BY <1>1, <1>3 DEF Update
<1>5. Whole(upd.out, upd.def)' /\ Stamped(upd.out, upd.def)'
  BY <1>1, <1>2, <1>3, <1>4 DEF UpdateOK, Whole, StageWhole, Stamped, Only, StampsOf
<1>6. upd.embedded => Stamped(upd.parent, upd.origin)'
  BY <1>1, <1>3, <1>4 DEF UpdateOK, Stamped, Only, StampsOf
<1> QED
  BY <1>1, <1>4, <1>5, <1>6 DEF UpdateOK

LEMMA TruncateLockfileOK ==
  ASSUME TypeInv, LocksInv, TruncateLockfile
  PROVE  UpdateOK(upd)'
<1>1. upd.pc = "open" /\ UpdateOK(upd) /\ upd \in Update
  BY DEF TruncateLockfile, TypeInv, TypeOK, LocksInv
<1>2. /\ upd'.pc = "write" /\ upd'.def = upd.def /\ upd'.flags = upd.flags
      /\ upd'.origin = upd.origin /\ upd'.embedded = upd.embedded
      /\ upd'.parent = upd.parent /\ upd'.out = upd.out /\ runs' = runs
  BY <1>1 DEF TruncateLockfile, Update
<1>3. Whole(upd.out, upd.def)' /\ Stamped(upd.out, upd.def)'
  BY <1>1, <1>2 DEF UpdateOK, Whole, StageWhole, Stamped, Only, StampsOf
<1>4. upd.embedded => Stamped(upd.parent, upd.origin)'
  BY <1>1, <1>2 DEF UpdateOK, Stamped, Only, StampsOf
<1> QED
  BY <1>1, <1>2, <1>3, <1>4 DEF UpdateOK

LEMMA StartUpdateOK ==
  ASSUME FullOnly, TypeInv, LocksInv, StartUpdate
  PROVE  UpdateOK(upd)'
<1>1. PICK f \in Flags, d \in Targets :
             upd' = [upd EXCEPT !.pc = "zbuildfile", !.flags = f, !.dir = d]
  BY DEF StartUpdate
<1>2. upd.pc = "idle" /\ ~upd.embedded /\ upd \in Update /\ f = FullUpdate
  BY DEF FullOnly, StartUpdate, LocksInv, UpdateOK, TypeInv, TypeOK
<1>3. upd'.pc = "zbuildfile" /\ upd'.flags = FullUpdate /\ ~upd'.embedded
  BY <1>1, <1>2 DEF Update
<1> QED
  BY <1>3 DEF UpdateOK

LEMMA LoadsOK ==
  ASSUME TypeInv, LocksInv, LoadZbuildfile \/ LoadLockfile
  PROVE  UpdateOK(upd)'
<1> USE DEF TypeInv, TypeOK, LocksInv
<1>1. CASE LoadZbuildfile
  <2>1. /\ upd'.pc = "lockfile" /\ upd'.flags = upd.flags /\ upd'.embedded = upd.embedded
        /\ upd.pc = "zbuildfile" /\ upd'.origin = zbuildfile /\ upd'.def = zbuildfile
    BY <1>1 DEF LoadZbuildfile, Update
  <2> QED
    BY <2>1 DEF UpdateOK
<1>2. CASE LoadLockfile
  <2>1. /\ upd'.pc = "image" /\ upd'.flags = upd.flags /\ upd'.embedded = FALSE
        /\ upd.pc = "lockfile" /\ upd'.def = upd.def /\ upd'.origin = upd.origin
    BY <1>2 DEF LoadLockfile, Update
  <2> QED
    BY <2>1 DEF UpdateOK
<1> QED
  BY <1>1, <1>2

LEMMA FinishBuildOK ==
  ASSUME TypeInv, LocksInv, NEW b \in Builder, FinishBuild(b)
  PROVE  JobOK(job'[b]) /\ \A c \in Builder : c # b => job'[c] = job[c]
<1> USE DEF TypeInv, TypeOK, LocksInv
<1>1. PICK m \in {"build", "debug", "dump"}, s \in Stage, w \in BOOLEAN :
        LET j == [job[b] EXCEPT !.pc = "idle", !.mode = m, !.stage = s, !.webserver = w]
        IN  job' = [job EXCEPT ![b] = [j EXCEPT !.outcome = Verdict(j)]]
  BY DEF FinishBuild
<1> DEFINE j == [job[b] EXCEPT !.pc = "idle", !.mode = m, !.stage = s, !.webserver = w]
<1>2. /\ j \in Job /\ j.locks = job[b].locks /\ j.def = job[b].def
      /\ j.pc = "idle" /\ job[b].def \in ZbuildDef /\ FileOK(job[b].locks)
  BY ZenonT(60) DEF Job, FinishBuild, JobOK
<1>3. job' = [job EXCEPT ![b] = [j EXCEPT !.outcome = Verdict(j)]]
  BY <1>1
<1> HIDE DEF j
<1>4. j.def \in Def /\ j.def # None
  BY <1>2, LifecycleAssumption
<1>5. Verdict(j) = "Built" => InSync(j) /\ Buildable(j)
  BY DEF Verdict
<1>6. Verdict(j) = "Built" => Checked(j)
  BY <1>2, <1>4, <1>5 DEF Checked, InSync, Buildable
<1>7. /\ job'[b].outcome = Verdict(j) /\ job'[b].locks = j.locks
      /\ job'[b].def = j.def /\ job'[b].mode = j.mode /\ job'[b].pc = "idle"
      /\ job'[b].webserver = j.webserver /\ job'[b].stage = j.stage
  BY <1>2, <1>3 DEF Job
<1>8. Verdict(j) = "Built" => Checked(job'[b])
  BY <1>6, <1>7 DEF Checked, Resolvable, Decodable
<1> QED
  BY <1>2, <1>3, <1>7, <1>8 DEF JobOK

LEMMA BuildStepOK ==
  ASSUME TypeInv, LocksInv, NEW b \in Builder, StartBuild(b) \/ BuildStep(b)
  PROVE  \A c \in Builder : JobOK(job'[c])
<1> USE DEF TypeInv, TypeOK, LocksInv
<1> SUFFICES JobOK(job'[b]) /\ \A c \in Builder : c # b => job'[c] = job[c]
  OBVIOUS
<1>1. CASE StartBuild(b)
  <2>1. /\ job'[b] = [NoJob EXCEPT !.pc = "zbuildfile"]
        /\ \A c \in Builder : c # b => job'[c] = job[c]
    BY <1>1 DEF StartBuild
  <2>2. /\ job'[b].locks = EmptyLockfile /\ job'[b].pc = "zbuildfile"
        /\ job'[b].outcome = "none"
    BY <2>1 DEF NoJob
  <2> QED
    BY <2>1, <2>2, EmptyFileOK DEF JobOK, EmptyLockfile
<1>2. CASE ReadZbuildfile(b)
  <2>1. /\ job'[b] = [job[b] EXCEPT !.pc = "lockfile", !.def = zbuildfile]
        /\ \A c \in Builder : c # b => job'[c] = job[c]
        /\ job[b].pc = "zbuildfile"
    BY <1>2 DEF ReadZbuildfile, Job
  <2>2. /\ job'[b].locks = job[b].locks /\ job'[b].pc = "lockfile"
        /\ job'[b].outcome = job[b].outcome /\ job'[b].def = zbuildfile
    BY <2>1 DEF Job
  <2>3. JobOK(job[b]) /\ zbuildfile \in ZbuildDef
    OBVIOUS
  <2>4. JobOK(job'[b])
    BY <2>1, <2>2, <2>3 DEF JobOK
  <2> QED
    BY <2>1, <2>4
<1>3. CASE ReadLockfile(b)
  <2>1. job[b].pc = "lockfile" /\ \A c \in Builder : c # b => job'[c] = job[c]
    BY <1>3 DEF ReadLockfile
  <2>2. CASE lockfile["context"] = Garbled
    <3>1. job' = [job EXCEPT ![b] = [job[b] EXCEPT !.pc = "idle", !.outcome = "Error"]]
      BY <1>3, <2>2 DEF ReadLockfile, Job
    <3>2. /\ job'[b].locks = job[b].locks /\ job'[b].pc = "idle"
          /\ job'[b].outcome = "Error"
      BY <3>1 DEF Job
    <3> QED
      BY <2>1, <3>2 DEF JobOK
  <2>3. CASE lockfile["context"] # Garbled
    <3>1. job' = [job EXCEPT ![b] = [job[b] EXCEPT !.pc = "check",
                                                   !.locks = lockfile["context"]]]
      BY <1>3, <2>3 DEF ReadLockfile, Job
    <3>2. /\ job'[b].locks = lockfile["context"] /\ job'[b].pc = "check"
          /\ job'[b].outcome = job[b].outcome /\ job'[b].def = job[b].def
      BY <3>1 DEF Job
    <3>3. FileOK(lockfile["context"])
      BY <2>3 DEF Dir
    <3> QED
      BY <2>1, <3>2, <3>3 DEF JobOK
  <2> QED
    BY <2>2, <2>3
<1>4. CASE FinishBuild(b)
  BY <1>4, FinishBuildOK
<1> QED
  BY <1>1, <1>2, <1>3, <1>4 DEF BuildStep

\* The steps of the update that write no file.
QuietUpdateStep ==
  \/ StartUpdate \/ LoadZbuildfile \/ LoadLockfile \/ ResolveImage
  \/ \E s \in Stage : LockStage(s)
  \/ EnterWebserver \/ FinishLocks \/ AbortUpdate

LEMMA QuietUpdateOK ==
  ASSUME FullOnly, TypeInv, LocksInv, QuietUpdateStep
  PROVE  UpdateOK(upd)' /\ UNCHANGED <<lockfile, job>>
<1>1. UNCHANGED <<lockfile, job>>
  BY DEF QuietUpdateStep, StartUpdate, LoadZbuildfile, LoadLockfile, ResolveImage, LockStage,
     EnterWebserver, FinishLocks, AbortUpdate
<1>2. CASE AbortUpdate
  BY <1>2, NoUpdateOK DEF AbortUpdate, UpdateOK, NoUpdate
<1> QED
  BY <1>1, <1>2, StartUpdateOK, LoadsOK, ResolveImageOK, LockStageOK, EnterWebserverOK,
     FinishLocksOK DEF QuietUpdateStep

LEMMA LocksInvNext ==
  ASSUME FullOnly, TypeInv, LocksInv, [Next]_vars
  PROVE  LocksInv'
<1>1. /\ \A d \in Dir : lockfile[d] # Garbled => FileOK(lockfile[d])
      /\ UpdateOK(upd)
      /\ \A b \in Builder : JobOK(job[b])
      /\ upd \in Update /\ lockfile \in [Dir -> RawLocks \cup {Garbled}]
  BY DEF LocksInv, TypeInv, TypeOK
<1>2. (upd' = upd /\ runs' = runs => UpdateOK(upd)') /\ (upd' = NoUpdate => UpdateOK(upd)')
  BY <1>1 DEF UpdateOK, Stamped, Only, StampsOf, Whole, StageWhole, NoUpdate
<1>3. (\A d \in Dir : lockfile'[d] # Garbled => FileOK(lockfile'[d]))
        /\ UpdateOK(upd)' /\ (\A b \in Builder : JobOK(job'[b])) => LocksInv'
  BY DEF LocksInv, JobOK, FileOK, OneRun, Rightful, WholeFile, OwnKeys, Whole, StageWhole,
     Checked, Resolvable, Decodable, StampsOf, Present
<1>4. CASE EditZbuildfile \/ MoveTag \/ UNCHANGED vars
  BY <1>1, <1>2, <1>3, <1>4 DEF EditZbuildfile, MoveTag, vars
<1>5. CASE DeleteLockfile
  BY <1>1, <1>2, <1>3, <1>5, EmptyFileOK DEF DeleteLockfile, Dir
<1>6. CASE QuietUpdateStep
  BY <1>1, <1>3, <1>6, QuietUpdateOK
<1>7. CASE TruncateLockfile
  BY <1>1, <1>3, <1>7, TruncateLockfileOK, EmptyFileOK DEF TruncateLockfile, Dir, Update
<1>8. CASE WriteLockfile
  <2>1. FileOK(UpdatedLocks(upd))
    BY <1>1, <1>8, UpdatedLocksOK DEF WriteLockfile
  <2> QED
    BY <1>1, <1>2, <1>3, <1>8, <2>1 DEF WriteLockfile, Dir, Update
<1>9. CASE TearLockfile
  <2>1. /\ FileOK(UpdatedLocks(upd)) /\ UpdatedLocks(upd) \in RawLocks /\ TornWrites
    BY <1>1, <1>9, UpdatedLocksOK, UpdatedLocksTyped DEF TearLockfile, TypeInv, UpdateInv
  <2>2. \A c \in Prefixes(UpdatedLocks(upd)) : FileOK(c)
    BY <2>1, PrefixesOK
  <2>3. PICK c \in Prefixes(UpdatedLocks(upd)) \cup {Garbled} :
          lockfile' = [lockfile EXCEPT ![upd.dir] = c]
    BY <1>9 DEF TearLockfile
  <2>4. \A d \in Dir : lockfile'[d] # Garbled => FileOK(lockfile'[d])
    BY <1>1, <2>2, <2>3
  <2> QED
    BY <1>1, <1>2, <1>3, <1>9, <2>4 DEF TearLockfile
<1>10. ASSUME NEW b \in Builder, StartBuild(b) \/ BuildStep(b) PROVE LocksInv'
  <2>1. UNCHANGED <<lockfile, upd, runs>>
    BY <1>10 DEF BuildStep, StartBuild, ReadZbuildfile, ReadLockfile, FinishBuild
  <2> QED
    BY <1>1, <1>2, <1>3, <1>10, <2>1, BuildStepOK
<1> QED
  BY <1>4, <1>5, <1>6, <1>7, <1>8, <1>9, <1>10 DEF Next, UpdateStep, QuietUpdateStep

LEMMA LocksInvariance ==
  ASSUME FullOnly
  PROVE  Spec => [](TypeInv /\ LocksInv)
<1>1. Spec => [](TypeInv /\ LocksInv)
  BY TypeInvariance, LocksInvInit, LocksInvNext, PTL DEF Spec
<1> QED
  BY <1>1

\* With full updates, docker build never puts in an image a value locked for
\* another definition than the one it builds, nor for another webserver than the
\* one it embeds, whatever is edited, deleted, killed or cut short between the
\* steps of both commands.
THEOREM BuildsUseTheirOwnLocks ==
  ASSUME FullOnly
  PROVE  Spec => []UsesOwnLocks
<1>1. ASSUME TypeInv, LocksInv PROVE UsesOwnLocks
  <2> SUFFICES ASSUME NEW b \in Builder, job[b].outcome = "Built", job[b].mode = "build"
               PROVE  /\ \A st \in TopStamps(job[b]) : st.def = job[b].def
                      /\ \A st \in WebStamps(job[b]) : st.def = Web[job[b].def]
    BY DEF UsesOwnLocks, BuiltJobs
  <2>1. /\ job[b] \in Job /\ Rightful(job[b].locks) /\ Checked(job[b])
        /\ StageOf(job[b]) \in Stage
    BY <1>1, LifecycleAssumption DEF TypeInv, TypeOK, LocksInv, JobOK, FileOK, Job, StageOf
  <2>2. /\ job[b].locks.hash = job[b].def /\ job[b].def # None
        /\ Decodable(job[b].locks, job[b].locks.hash)
        /\ job[b].webserver => Web[job[b].def] # None
    BY <2>1 DEF Checked, Resolvable
  <2>3. \A st \in TopStamps(job[b]) : st.def = job[b].def
    BY <2>1, <2>2 DEF TopStamps, Rightful
  <2>4. WebStamps(job[b]) = {}
    BY <2>1, <2>2 DEF WebStamps, Rightful
  <2> QED
    BY <2>3, <2>4
<1>2. Spec => []UsesOwnLocks
  BY <1>1, LocksInvariance, PTL
<1> QED
  BY <1>2

\* With full updates, the values of an image, debug builds and the webserver part
\* included, come from one update, which resolved those of a definition against
\* one base image, however often tags move meanwhile.
THEOREM BuildsUseOneUpdate ==
  ASSUME FullOnly
  PROVE  Spec => []UsesOneUpdate
<1>1. ASSUME TypeInv, LocksInv PROVE UsesOneUpdate
  <2> SUFFICES ASSUME NEW b \in Builder, job[b].outcome = "Built"
               PROVE  /\ \A st1, st2 \in TopStamps(job[b]) : st1 = st2
                      /\ \A st1, st2 \in WebStamps(job[b]) : st1 = st2
                      /\ \A st1 \in TopStamps(job[b]), st2 \in WebStamps(job[b]) :
                           st1.run = st2.run
    BY DEF UsesOneUpdate, BuiltJobs
  <2>1. OneRun(job[b].locks) /\ StageOf(job[b]) \in Stage /\ WebStage \in Stage
    BY <1>1, LifecycleAssumption DEF TypeInv, TypeOK, LocksInv, JobOK, FileOK, Job, StageOf
  <2> QED
    BY <2>1 DEF TopStamps, WebStamps, OneRun
<1>2. Spec => []UsesOneUpdate
  BY <1>1, LocksInvariance, PTL
<1> QED
  BY <1>2

\* With full updates and files written whole or not at all, docker build never
\* installs less than the definition asks for: the lockfile it accepts has the
\* packages of the stage it builds, and the extensions of a php one.
THEOREM BuildsMissNothing ==
  ASSUME FullOnly, TornWrites = FALSE
  PROVE  Spec => []NothingMissing
<1>1. ASSUME TypeInv, LocksInv PROVE NothingMissing
  <2> SUFFICES ASSUME NEW b \in Builder, job[b].outcome = "Built", job[b].mode = "build"
               PROVE  Complete(job[b])
    BY DEF NothingMissing, BuiltJobs
  <2> DEFINE j == job[b]
  <2>1. j \in Job /\ Rightful(j.locks) /\ WholeFile(j.locks) /\ Checked(j)
    BY <1>1 DEF TypeInv, TypeOK, LocksInv, JobOK, FileOK
  <2> HIDE DEF j
  <2>2. /\ j.mode = "build" /\ j.locks.hash = j.def /\ j.def \in Def /\ j.def # None
        /\ Decodable(j.locks, j.locks.hash) /\ Resolvable(j)
        /\ j.webserver => Web[j.def] # None
    <3>1. j.mode = "build"
      BY DEF j
    <3> QED
      BY <2>1, <3>1 DEF Checked, Resolvable, Job
  <2>3. StageOf(j) \in Stages[j.def]
    BY <2>2, LifecycleAssumption DEF StageOf, Resolvable
  <2>4. StageWhole(j.locks.top, StageOf(j), j.def)
    BY <2>1, <2>2, <2>3 DEF WholeFile, Whole
  <2>5. ~j.webserver
    BY <2>1, <2>2 DEF Rightful, Job
  <2>6. Complete(j)
    BY <2>4, <2>5 DEF Complete, StageWhole
  <2> QED
    BY <2>6 DEF j
<1>2. Spec => []NothingMissing
  BY <1>1, LocksInvariance, PTL
<1> QED
  BY <1>2

\* What a build, a debug build or a dump is answered when its lockfile is in sync.
LEMMA InSyncInit == Init => InSyncBuildsEveryStage
BY DEF Init, InSyncBuildsEveryStage, NoJob

LEMMA InSyncNext ==
  ASSUME EmbeddedApart, TornWrites = FALSE, TypeInv, LocksInv, InSyncBuildsEveryStage,
         [Next]_vars
  PROVE  InSyncBuildsEveryStage'
<1> USE DEF TypeInv, TypeOK, InSyncBuildsEveryStage
<1>1. CASE UNCHANGED job
  BY <1>1
<1>2. ASSUME NEW b \in Builder, StartBuild(b) PROVE InSyncBuildsEveryStage'
  BY <1>2 DEF StartBuild, NoJob
<1>3. ASSUME NEW b \in Builder, ReadZbuildfile(b) PROVE InSyncBuildsEveryStage'
  <2>1. job'[b].outcome = "none" /\ \A c \in Builder : c # b => job'[c] = job[c]
    BY <1>3 DEF ReadZbuildfile, LocksInv, JobOK, Job
  <2> QED
    BY <2>1
<1>4. ASSUME NEW b \in Builder, ReadLockfile(b) PROVE InSyncBuildsEveryStage'
  <2>1. /\ job[b].pc = "lockfile" /\ job[b].outcome = "none"
        /\ job[b].locks.hash = None /\ job[b].def # None
    BY <1>4, LifecycleAssumption DEF ReadLockfile, LocksInv, JobOK
  <2>2. \A c \in Builder : c # b => job'[c] = job[c]
    BY <1>4 DEF ReadLockfile
  <2>3. job'[b].outcome = "Error" =>
          job'[b].locks.hash = None /\ job'[b].def = job[b].def
    BY <1>4, <2>1 DEF ReadLockfile, Job
  <2> QED
    BY <2>1, <2>2, <2>3
<1>5. ASSUME NEW b \in Builder, FinishBuild(b) PROVE InSyncBuildsEveryStage'
  <2>1. PICK m \in {"build", "debug", "dump"}, s \in Stage, w \in BOOLEAN :
          LET j == [job[b] EXCEPT !.pc = "idle", !.mode = m, !.stage = s, !.webserver = w]
          IN  job' = [job EXCEPT ![b] = [j EXCEPT !.outcome = Verdict(j)]]
    BY <1>5 DEF FinishBuild
  <2> DEFINE j == [job[b] EXCEPT !.pc = "idle", !.mode = m, !.stage = s, !.webserver = w]
  <2>2. /\ j \in Job /\ j.locks = job[b].locks /\ j.def = job[b].def
        /\ FileOK(job[b].locks) /\ job[b].def \in ZbuildDef
    BY <1>5, ZenonT(60) DEF Job, FinishBuild, LocksInv, JobOK
  <2>3. job' = [job EXCEPT ![b] = [j EXCEPT !.outcome = Verdict(j)]]
    BY <2>1
  <2> HIDE DEF j
  <2>4. j.locks.hash = j.def /\ ~j.webserver /\ Kind[j.def] = "webserver" => Buildable(j) /\ Dumpable(j)
    <3> SUFFICES ASSUME j.locks.hash = j.def, ~j.webserver, Kind[j.def] = "webserver"
                 PROVE  Resolvable(j) /\ j.locks.top.base # None
      BY DEF Buildable, Dumpable
    <3>1. Decodable(j.locks, j.def) /\ j.def # None
      BY <2>2, LifecycleAssumption DEF FileOK, OwnKeys, Decodable
    <3> QED
      BY <2>2, <3>1 DEF FileOK, WholeFile, Whole, Resolvable
  <2>5. j.locks.hash = j.def /\ ~j.webserver /\ j.stage \in Stages[j.def]
          => Buildable(j) /\ Dumpable(j)
    <3> SUFFICES ASSUME j.locks.hash = j.def, ~j.webserver, j.stage \in Stages[j.def]
                 PROVE  Resolvable(j) /\ j.locks.top.base # None
      BY DEF Buildable, Dumpable
    <3>1. Decodable(j.locks, j.def) /\ j.def # None
      BY <2>2, LifecycleAssumption DEF FileOK, OwnKeys, Decodable
    <3> QED
      BY <2>2, <3>1 DEF FileOK, WholeFile, Whole, StageWhole, Resolvable
  <2>6. Verdict(j) = "Error" /\ ~j.webserver /\ j.locks.hash = j.def
          => Kind[j.def] # "webserver" /\ j.stage \notin Stages[j.def]
    BY <2>4, <2>5 DEF Verdict
  <2>7. /\ job'[b].outcome = Verdict(j) /\ job'[b].locks = j.locks
        /\ job'[b].def = j.def /\ job'[b].webserver = j.webserver
        /\ job'[b].stage = j.stage
    BY <2>2, <2>3 DEF Job
  <2>8. \A c \in Builder : c # b => job'[c] = job[c]
    BY <2>3
  <2> QED
    BY <2>6, <2>7, <2>8
<1>6. CASE UNCHANGED vars
  BY <1>1, <1>6 DEF vars
<1>7. CASE \/ EditZbuildfile \/ DeleteLockfile \/ MoveTag \/ StartUpdate \/ UpdateStep
           \/ TearLockfile \/ AbortUpdate
  BY <1>1, <1>7 DEF EditZbuildfile, DeleteLockfile, MoveTag, StartUpdate, UpdateStep,
     TearLockfile, AbortUpdate, LoadZbuildfile, LoadLockfile, ResolveImage, LockStage,
     EnterWebserver, FinishLocks, TruncateLockfile, WriteLockfile
<1> QED
  BY <1>2, <1>3, <1>4, <1>5, <1>6, <1>7 DEF Next, BuildStep

\* With full updates, files written whole or not at all and no zbuildfile equal
\* to a webserver another one embeds, a lockfile in sync never lacks a stage of
\* the definition: build, debug-llb and debug-config only fail on a stage that
\* the zbuildfile does not declare.
THEOREM InSyncIsBuildable ==
  ASSUME FullOnly, EmbeddedApart, TornWrites = FALSE
  PROVE  Spec => []InSyncBuildsEveryStage
<1>1. Spec => []InSyncBuildsEveryStage
  BY LocksInvariance, InSyncInit, InSyncNext, PTL DEF Spec
<1> QED
  BY <1>1

-----------------------------------------------------------------------------
(* The lockfile keeps its promise: LockLifecycle implements LockContract   *)
(* when updates are full ones and files are written whole or not at all.   *)

\* A file that has a hash was published: its base image is the stamp of an update
\* that wrote it whole.
Genuine(locks) == locks.hash # None => locks.top.base \in published

\* Every update has a run of its own, later than all that is published.
PublishInv ==
  /\ \A p \in published : p.run <= runs
  /\ upd.pc # "idle" => \A p \in published : p.run < runs
  /\ \A d \in Dir : lockfile[d] # Garbled => Genuine(lockfile[d])
  /\ \A b \in Builder : Genuine(job[b].locks)

LEMMA EmptyGenuine == Genuine(EmptyLockfile) /\ Genuine(EmptyLockfile)'
BY DEF Genuine, EmptyLockfile

LEMMA PublishInvInit == Init => PublishInv
BY EmptyGenuine DEF Init, PublishInv, NoUpdate, NoJob

\* The stamp published is the base image of the file written.
LEMMA WrittenBase ==
  ASSUME TypeInv, LocksInv, WriteLockfile
  PROVE  /\ UpdatedLocks(upd).top.base \in Stamp
         /\ UpdatedLocks(upd).top.base.run = runs
         /\ published' = published \cup {UpdatedLocks(upd).top.base}
<1> DEFINE base == UpdatedLocks(upd).top.base
<1>1. /\ upd \in Update /\ UpdateOK(upd) /\ upd.pc = "write" /\ upd.origin # None
      /\ upd.out.base # None
      /\ upd.embedded => upd.parent.base # None
  BY DEF TypeInv, TypeOK, UpdateInv, LocksInv, WriteLockfile
<1>2. base = IF upd.embedded THEN upd.parent.base ELSE upd.out.base
  BY DEF UpdatedLocks
<1>3. base \in Stamp
  BY <1>1, <1>2 DEF Update, HandlerLocks
<1>4. base.run = runs /\ base.def = upd.origin
  BY <1>1, <1>2 DEF UpdateOK, Stamped
<1>5. published' = published \cup {[run |-> runs, def |-> upd.origin, image |-> base.image]}
  BY DEF WriteLockfile
<1> HIDE DEF base
<1>6. [run |-> runs, def |-> upd.origin, image |-> base.image] = base
  BY <1>3, <1>4 DEF Stamp
<1>7. published' = published \cup {base}
  BY <1>5, <1>6
<1> QED
  BY <1>3, <1>4, <1>7 DEF base

LEMMA PublishInvNext ==
  ASSUME TornWrites = FALSE, TypeInv, LocksInv, PublishInv, [Next]_vars
  PROVE  PublishInv'
<1>1. /\ upd \in Update /\ lockfile \in [Dir -> RawLocks \cup {Garbled}]
      /\ job \in [Builder -> Job] /\ runs \in Nat /\ published \subseteq Stamp
      /\ \A d \in Dir : lockfile[d] # Garbled => Genuine(lockfile[d])
      /\ \A b \in Builder : Genuine(job[b].locks)
  BY DEF TypeInv, TypeOK, PublishInv
<1>2. \A p \in published : p.run \in Nat
  BY <1>1 DEF Stamp
<1>3. CASE EditZbuildfile \/ MoveTag \/ UNCHANGED vars
  BY <1>3 DEF EditZbuildfile, MoveTag, vars, PublishInv, Genuine
<1>4. CASE DeleteLockfile
  BY <1>1, <1>4, EmptyGenuine DEF DeleteLockfile, Dir, PublishInv, Genuine
<1>5. CASE StartUpdate
  <2>1. \A p \in published : p.run < runs'
    BY <1>1, <1>2, <1>5 DEF StartUpdate, PublishInv
  <2>2. runs' \in Nat /\ UNCHANGED <<lockfile, job, published>>
    BY <1>1, <1>5 DEF StartUpdate
  <2> QED
    BY <1>2, <2>1, <2>2 DEF PublishInv, Genuine
<1>6. CASE \/ LoadZbuildfile \/ LoadLockfile \/ ResolveImage \/ (\E s \in Stage : LockStage(s))
           \/ EnterWebserver \/ FinishLocks \/ AbortUpdate
  <2>1. upd.pc # "idle" /\ UNCHANGED <<lockfile, job, published, runs>>
    BY <1>6 DEF LoadZbuildfile, LoadLockfile, ResolveImage, LockStage, EnterWebserver,
       FinishLocks, AbortUpdate
  <2> QED
    BY <2>1 DEF PublishInv, Genuine
<1>7. CASE TruncateLockfile
  <2>1. upd.pc # "idle" /\ UNCHANGED <<job, published, runs>>
    BY <1>7 DEF TruncateLockfile
  <2>2. \A d \in Dir : lockfile'[d] # Garbled => Genuine(lockfile'[d])
    BY <1>1, <1>7, EmptyGenuine DEF TruncateLockfile
  <2> QED
    BY <2>1, <2>2 DEF PublishInv, Genuine
<1>8. CASE WriteLockfile
  <2> DEFINE base == UpdatedLocks(upd).top.base
  <2>1. base \in Stamp /\ base.run = runs /\ published' = published \cup {base}
    BY <1>8, WrittenBase
  <2>2. upd.pc # "idle" /\ upd'.pc = "idle" /\ UNCHANGED <<job, runs>>
    BY <1>8 DEF WriteLockfile, NoUpdate
  <2>3. \A d \in Dir : \/ lockfile'[d] = lockfile[d]
                       \/ lockfile'[d].top.base = base
    BY <1>1, <1>8 DEF WriteLockfile
  <2> HIDE DEF base
  <2>4. \A p \in published' : p.run <= runs
    BY <1>1, <1>2, <2>1, <2>2 DEF PublishInv
  <2> QED
    BY <1>1, <2>1, <2>2, <2>3, <2>4 DEF PublishInv, Genuine
<1>9. CASE TearLockfile
  BY <1>9 DEF TearLockfile
<1>10. ASSUME NEW b \in Builder, StartBuild(b) \/ BuildStep(b) PROVE PublishInv'
  <2>1. UNCHANGED <<lockfile, upd, runs, published>>
    BY <1>10 DEF BuildStep, StartBuild, ReadZbuildfile, ReadLockfile, FinishBuild
  <2>2. /\ \/ job'[b].locks = EmptyLockfile \/ job'[b].locks = job[b].locks
           \/ lockfile["context"] # Garbled /\ job'[b].locks = lockfile["context"]
        /\ \A c \in Builder : c # b => job'[c] = job[c]
    <3>1. CASE StartBuild(b)
      BY <1>1, <3>1 DEF StartBuild, NoJob
    <3>2. CASE ReadZbuildfile(b)
      BY <1>1, <3>2 DEF ReadZbuildfile, Job
    <3>3. CASE ReadLockfile(b)
      BY <1>1, <3>3 DEF ReadLockfile, Job
    <3>4. CASE FinishBuild(b)
      BY <1>1, <3>4 DEF FinishBuild, Job
    <3> QED
      BY <1>10, <3>1, <3>2, <3>3, <3>4 DEF BuildStep
  <2>3. \A c \in Builder : Genuine(job'[c].locks)
    BY <1>1, <2>2, EmptyGenuine DEF Dir
  <2> QED
    BY <2>1, <2>3 DEF PublishInv, Genuine
<1> QED
  BY <1>3, <1>4, <1>5, <1>6, <1>7, <1>8, <1>9, <1>10 DEF Next, UpdateStep

\* What an accepted build is made of: the base stamp of its lockfile, of its own
\* definition.
LEMMA SourceIsBase ==
  ASSUME TornWrites = FALSE, NEW j \in Job, FileOK(j.locks), Checked(j),
         j.mode = "build"
  PROVE  /\ SourceOf(j) = j.locks.top.base
         /\ j.locks.top.base \in Stamp /\ j.locks.top.base.def = j.def
         /\ j.locks.hash # None
<1>1. /\ j.locks.hash = j.def /\ j.def \in Def /\ j.def # None
      /\ Decodable(j.locks, j.locks.hash) /\ Resolvable(j)
      /\ j.webserver => Web[j.def] # None
  BY DEF Checked, Resolvable, Job
<1>2. StageOf(j) \in Stages[j.def] /\ StageOf(j) \in Stage
  BY <1>1, LifecycleAssumption DEF StageOf, Resolvable, Job
<1>3. Whole(j.locks.top, j.def)
  BY <1>1 DEF FileOK, WholeFile
<1>4. Complete(j)
  BY <1>1, <1>2, <1>3 DEF Complete, Whole, StageWhole, FileOK, Rightful
<1>5. j.locks.top.base \in TopStamps(j)
  BY <1>3 DEF Whole, TopStamps, StampsOf, Present
<1>6. \A st1, st2 \in TopStamps(j) : st1 = st2
  BY <1>2 DEF TopStamps, FileOK, OneRun
<1>7. (CHOOSE st \in TopStamps(j) : TRUE) = j.locks.top.base
  BY <1>5, <1>6
<1>8. SourceOf(j) = j.locks.top.base
  BY <1>4, <1>6, <1>7 DEF SourceOf
<1>9. j.locks.top.base.def = j.def
  BY <1>1, <1>2, <1>5 DEF FileOK, Rightful, TopStamps
<1>10. j.locks.top.base \in Stamp
  BY <1>3 DEF Whole, Job, RawLocks, HandlerLocks
<1> QED
  BY <1>1, <1>8, <1>9, <1>10

\* The initial states of the lockfile's life are initial states of the contract.
LEMMA ContractInitially == Init => Contract!ContractInit
BY DEF Init, Contract!ContractInit, Contract!Pending, VerdictOf, NoJob

\* A step of one build changes its verdict only.
LEMMA VerdictsChange ==
  ASSUME NEW b \in Builder, \A c \in Builder : c # b => job'[c] = job[c]
  PROVE  [c \in Builder |-> VerdictOf(job'[c])]
           = [[c \in Builder |-> VerdictOf(job[c])] EXCEPT ![b] = VerdictOf(job'[b])]
OBVIOUS

\* Writing a lockfile publishes, a build accepts, refuses or is asked for again,
\* and nothing else counts.
LEMMA ContractStep ==
  ASSUME TornWrites = FALSE, TypeInv, LocksInv, LocksInv', TypeInv', PublishInv, [Next]_vars
  PROVE  [Contract!ContractNext]_(Contract!cvars)
<1> DEFINE V == [c \in Builder |-> VerdictOf(job[c])]
           V2 == [c \in Builder |-> VerdictOf(job'[c])]
<1>1. CASE UNCHANGED <<job, published>>
  BY <1>1 DEF Contract!cvars
<1>2. CASE WriteLockfile
  <2> DEFINE base == UpdatedLocks(upd).top.base
  <2>1. base \in Stamp /\ base.run = runs /\ published' = published \cup {base}
    BY <1>2, WrittenBase
  <2>2. \A p \in published : p.run < base.run
    BY <1>2, <2>1 DEF WriteLockfile, PublishInv
  <2>3. runs \in Nat /\ job' = job
    BY <1>2 DEF WriteLockfile, TypeInv, TypeOK
  <2> HIDE DEF base
  <2>4. base \notin published
    BY <2>1, <2>2, <2>3
  <2>5. Contract!Publish
    BY <2>1, <2>2, <2>3, <2>4 DEF Contract!Publish, Contract!LockSet, Stamp
  <2> QED
    BY <2>5 DEF Contract!ContractNext
<1>3. ASSUME NEW b \in Builder, StartBuild(b) \/ BuildStep(b)
      PROVE  [Contract!ContractNext]_(Contract!cvars)
  <2>1. /\ job \in [Builder -> Job] /\ job' \in [Builder -> Job] /\ published' = published
        /\ \A c \in Builder : c # b => job'[c] = job[c]
    BY <1>3 DEF TypeInv, TypeOK, StartBuild, BuildStep, ReadZbuildfile, ReadLockfile, FinishBuild
  <2>2. V2 = [V EXCEPT ![b] = VerdictOf(job'[b])]
    BY <2>1, VerdictsChange
  <2>3. VerdictOf(job'[b]) = VerdictOf(job[b]) => V2 = V
    BY <2>1
  <2>4. CASE VerdictOf(job'[b]) = VerdictOf(job[b])
    BY <2>1, <2>3, <2>4 DEF Contract!cvars
  <2>5. CASE VerdictOf(job'[b]) = [is |-> "pending"]
    <3>1. Contract!Retry(b)
      BY <2>1, <2>2, <2>5 DEF Contract!Retry, Contract!Pending
    <3> QED
      BY <3>1 DEF Contract!ContractNext
  <2>6. CASE /\ VerdictOf(job'[b]) # [is |-> "pending"]
             /\ VerdictOf(job'[b]) # VerdictOf(job[b])
    <3>1. VerdictOf(job[b]) = [is |-> "pending"]
      BY <1>3, <2>1, <2>6 DEF LocksInv, JobOK, StartBuild, NoJob, BuildStep, ReadZbuildfile,
         ReadLockfile, FinishBuild, VerdictOf
    <3>2. V[b] = [is |-> "pending"]
      BY <3>1
    <3>3. CASE VerdictOf(job'[b]) = [is |-> "refused"]
      <4>1. Contract!Refuse(b)
        BY <2>1, <2>2, <3>2, <3>3 DEF Contract!Refuse, Contract!Pending, Contract!Refused
      <4> QED
        BY <4>1 DEF Contract!ContractNext
    <3>4. CASE VerdictOf(job'[b]) # [is |-> "refused"]
      <4> DEFINE j == job'[b]
      <4>1. j.outcome = "Built" /\ j.mode = "build"
        BY <2>6, <3>4 DEF VerdictOf
      <4>2. VerdictOf(j) = [is |-> "accepted", def |-> j.def, locks |-> SourceOf(j)]
        BY <4>1 DEF VerdictOf
      <4>3. j \in Job /\ FileOK(j.locks) /\ Checked(j)
        BY <2>1, <4>1 DEF LocksInv, JobOK, FileOK, Checked, OneRun, Rightful, WholeFile,
           OwnKeys, Whole, StageWhole, Resolvable, Decodable, StampsOf, Present
      <4>4. j.locks = job[b].locks
        <5>1. CASE StartBuild(b)
          BY <2>1, <4>1, <5>1 DEF StartBuild, NoJob
        <5>2. CASE ReadZbuildfile(b) \/ ReadLockfile(b)
          <6>1. job[b].outcome = "none"
            BY <5>2 DEF ReadZbuildfile, ReadLockfile, LocksInv, JobOK
          <6> QED
            BY <2>1, <4>1, <5>2, <6>1 DEF ReadZbuildfile, ReadLockfile, Job
        <5>3. CASE FinishBuild(b)
          BY <2>1, <5>3 DEF FinishBuild, Job
        <5> QED
          BY <1>3, <5>1, <5>2, <5>3 DEF BuildStep
      <4> HIDE DEF j
      <4>5. /\ SourceOf(j) = j.locks.top.base
            /\ j.locks.top.base \in Stamp /\ j.locks.top.base.def = j.def
            /\ j.locks.hash # None
        BY <4>1, <4>3, SourceIsBase
      <4>6. j.locks.top.base \in published
        BY <4>4, <4>5 DEF PublishInv, Genuine
      <4>7. V2 = [V EXCEPT ![b] = Contract!Accepted(j.locks.top.base.def, j.locks.top.base)]
        BY <2>2, <4>2, <4>5 DEF Contract!Accepted, j
      <4> HIDE DEF V, V2
      <4>8. \E l \in published : V2 = [V EXCEPT ![b] = Contract!Accepted(l.def, l)]
        BY <4>6, <4>7
      <4> USE DEF V, V2
      <4>9. Contract!Accept(b)
        BY <2>1, <3>2, <4>8 DEF Contract!Accept, Contract!Pending
      <4> QED
        BY <4>9 DEF Contract!ContractNext
    <3> QED
      BY <3>3, <3>4
  <2> QED
    BY <2>4, <2>5, <2>6
<1>4. CASE \/ EditZbuildfile \/ DeleteLockfile \/ MoveTag \/ StartUpdate
           \/ LoadZbuildfile \/ LoadLockfile \/ ResolveImage \/ (\E s \in Stage : LockStage(s))
           \/ EnterWebserver \/ FinishLocks \/ TruncateLockfile \/ TearLockfile \/ AbortUpdate
           \/ UNCHANGED vars
  BY <1>1, <1>4 DEF EditZbuildfile, DeleteLockfile, MoveTag, StartUpdate, TearLockfile,
     AbortUpdate, LoadZbuildfile, LoadLockfile, ResolveImage, LockStage, EnterWebserver,
     FinishLocks, TruncateLockfile, vars
<1> QED
  BY <1>2, <1>3, <1>4 DEF Next, UpdateStep

\* With full updates and files written whole or not at all, the lockfile's life
\* implements the contract: every build that docker build accepts is made of the
\* locks of one published update, of the definition it builds.
THEOREM LockfileKeepsContract ==
  ASSUME FullOnly, TornWrites = FALSE
  PROVE  Spec => KeepsContract
<1>1. Spec => [](TypeInv /\ LocksInv)
  BY LocksInvariance
<1>2. Spec => []PublishInv
  BY <1>1, PublishInvInit, PublishInvNext, PTL DEF Spec
<1>3. Spec => Contract!ContractInit /\ [][Contract!ContractNext]_(Contract!cvars)
  BY <1>1, <1>2, ContractInitially, ContractStep, PTL DEF Spec
<1> QED
  BY <1>3 DEF KeepsContract, Contract!ContractSpec
=============================================================================
