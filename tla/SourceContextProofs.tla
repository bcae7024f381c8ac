------------------------- MODULE SourceContextProofs -------------------------
(***************************************************************************)
(* Proofs about source contexts, for any number of commits, updates and    *)
(* builds, whatever is pushed between and during them.                     *)
(***************************************************************************)
EXTENDS SourceContext, TLAPS

\* A git context has a commit as soon as it is locked.
HasCommit(locks) == locks.run > 0 /\ (type = "git" => locks.commit # None)

CommitInv ==
  /\ lockfile.run > 0 => HasCommit(lockfile)
  /\ upd.pc # "idle" => upd.locks.run > 0
  /\ upd.pc \in {"read", "write"} => HasCommit(upd.locks)
  /\ \A j \in Job : job[j].pc # "idle" => HasCommit(job[j].locks)

TypeInv == TypeOK /\ CommitInv

\* Required extensions come from the commit that is locked.
OfCommit(locks) == type = "git" /\ locks.reqs # None => locks.reqs = locks.commit

\* Locks are known by the number of their update.
Agree(l, m) == l.run = m.run => l = m
Copied(u, locks) == type = "git" /\ u[1] = locks.run => u[2] = locks.commit

AgreeInv ==
  /\ upd.pc # "idle" => upd.locks.run = lockfile.run + 1 /\ OfCommit(upd.locks)
  /\ upd.pc = "lock" => upd.locks.reqs = None
  /\ OfCommit(lockfile) /\ \A j \in Job : OfCommit(job[j].locks)
  /\ \A j \in Job : job[j].locks.run <= lockfile.run /\ Agree(job[j].locks, lockfile)
  /\ \A i, j \in Job : Agree(job[i].locks, job[j].locks)
  /\ \A u \in used : u[1] <= lockfile.run /\ Copied(u, lockfile)
  /\ \A u \in used, j \in Job : Copied(u, job[j].locks)
  /\ SameCommit

-----------------------------------------------------------------------------
(* Types.                                                                  *)

LEMMA LockedTyped ==
  ASSUME TypeOK, NEW locks \in Locks, HasCommit(locks)
  PROVE  Locked(locks) \in Commit /\ (type = "git" => Locked(locks) = locks.commit)
BY DEF TypeOK, Locks, HasCommit, Locked, Ref

LEMMA NoLocksTyped == NoLocks \in Locks /\ NoLocks.run = 0 /\ NoLocks.reqs = None
BY ContextAssumption DEF NoLocks, Locks

LEMMA TypeInit == Init => TypeInv
<1> SUFFICES ASSUME Init PROVE TypeInv
  OBVIOUS
<1>1. 1 \in Commit
  BY ContextAssumption DEF Commit
<1>2. TypeOK
  BY <1>1, NoLocksTyped DEF Init, TypeOK, Ref, AJob, Answers
<1>3. CommitInv
  BY NoLocksTyped DEF Init, CommitInv
<1> QED
  BY <1>2, <1>3 DEF TypeInv

LEMMA TypeNext == TypeInv /\ [Next]_vars => TypeInv'
<1> SUFFICES ASSUME TypeInv, [Next]_vars PROVE TypeInv'
  OBVIOUS
<1> USE DEF TypeInv, TypeOK, CommitInv, HasCommit
<1>1. CASE Push
  <2>1. commits + 1 \in Commit
    BY <1>1, ContextAssumption DEF Push, Commit
  <2>2. refs' \in [Ref -> Commit] /\ commits' \in Commit
    BY <1>1, <2>1 DEF Push
  <2> QED
    BY <1>1, <2>2 DEF Push, definition
<1>2. CASE StartUpdate
  <2>1. lockfile.run + 1 \in 0..MaxUpdates /\ lockfile.run + 1 > 0
    BY <1>2, ContextAssumption DEF StartUpdate, Locks
  <2>2. upd'.locks \in Locks /\ upd'.locks.run > 0 /\ upd'.pc = "lock"
    BY <1>2, <2>1 DEF StartUpdate, NoLocks, Locks
  <2>3. upd' \in [pc : {"idle", "lock", "read", "write"}, locks : Locks]
    BY <1>2, <2>2 DEF StartUpdate
  <2> QED
    BY <1>2, <2>2, <2>3 DEF StartUpdate, definition, source
<1>3. CASE LockContext
  <2>1. refs[reference] \in Commit /\ refs[reference] # None
    BY ContextAssumption DEF Commit
  <2>2. upd' \in [pc : {"idle", "lock", "read", "write"}, locks : Locks]
    BY <1>3, <2>1 DEF LockContext, Locks
  <2>3. upd'.locks.run = upd.locks.run /\ (type = "git" => upd'.locks.commit # None)
    BY <1>3, <2>1 DEF LockContext, Locks
  <2> QED
    BY <1>3, <2>2, <2>3 DEF LockContext, definition, source
<1>4. CASE ReadComposerLock
  <2>1. Locked(upd.locks) \in Commit
    BY <1>4, LockedTyped DEF ReadComposerLock
  <2>2. upd' \in [pc : {"idle", "lock", "read", "write"}, locks : Locks]
    <3>1. PICK answer \in AskLocal(Locked(upd.locks)) :
            upd' = [upd EXCEPT
                      !.pc = IF answer = "error" THEN "idle" ELSE "write",
                      !.locks.reqs = IF answer = "found" THEN Locked(upd.locks) ELSE None]
      BY <1>4 DEF ReadComposerLock
    <3> QED
      BY <2>1, <3>1 DEF Locks
  <2>3. upd'.locks.run = upd.locks.run /\ upd'.locks.commit = upd.locks.commit
    BY <1>4 DEF ReadComposerLock, Locks
  <2> QED
    BY <1>4, <2>2, <2>3 DEF ReadComposerLock, definition, source
<1>5. CASE WriteLockfile
  BY <1>5 DEF WriteLockfile, definition, source
<1>6. CASE AbortUpdate
  BY <1>6 DEF AbortUpdate, definition, source
<1>7. ASSUME NEW j \in Job, StartBuild(j) PROVE TypeInv'
  <2>1. PICK mode \in Modes :
          job' = [job EXCEPT ![j] = [pc |-> "look", mode |-> mode, locks |-> lockfile,
                                     commit |-> None, answer |-> "none"]]
    BY <1>7 DEF StartBuild
  <2>2. job' \in [Job -> AJob]
    BY <2>1, ContextAssumption DEF AJob, Answers
  <2>3. \A i \in Job : job'[i].pc # "idle" => HasCommit(job'[i].locks)
    BY <1>7, <2>1 DEF StartBuild
  <2> QED
    BY <1>7, <2>2, <2>3 DEF StartBuild, definition, source
<1>8. ASSUME NEW j \in Job, Look(j) PROVE TypeInv'
  <2> DEFINE c == Locked(job[j].locks)
             answers == IF kind = "nodejs" THEN FileExists(job[j].mode, c)
                        ELSE Ask(job[j].mode, c)
  <2>1. job[j] \in AJob /\ job[j].locks \in Locks
    BY DEF AJob
  <2>2. c \in Commit
    BY <1>8, <2>1, LockedTyped DEF Look
  <2>3. answers \subseteq Answers
    <3>1. Ask(job[j].mode, c) \subseteq {"error", "found", "absent"}
      BY DEF Ask, AskLocal, AskBuildkit
    <3> QED
      BY <3>1 DEF FileExists, Answers
  <2>4. PICK answer \in answers :
          job' = [job EXCEPT ![j].pc = IF answer \in {"found", "absent"} THEN "copy" ELSE "idle",
                             ![j].commit = c, ![j].answer = answer]
    BY <1>8 DEF Look
  <2> HIDE DEF c, answers
  <2>5. job' \in [Job -> AJob]
    BY <2>1, <2>2, <2>3, <2>4 DEF AJob
  <2>6. \A i \in Job : job'[i].pc # "idle" => HasCommit(job'[i].locks)
    <3>1. job[j].pc # "idle"
      BY <1>8 DEF Look
    <3>2. job'[j].locks = job[j].locks
      BY <2>1, <2>4 DEF AJob
    <3>3. \A i \in Job \ {j} : job'[i] = job[i]
      BY <2>4
    <3> QED
      BY <3>1, <3>2, <3>3
  <2> QED
    BY <1>8, <2>5, <2>6 DEF Look, definition, source
<1>9. ASSUME NEW j \in Job, CopySources(j) PROVE TypeInv'
  <2>1. job[j] \in AJob /\ job[j].locks \in Locks /\ HasCommit(job[j].locks)
    BY <1>9 DEF CopySources, AJob
  <2>2. Locked(job[j].locks) \in Commit /\ job[j].locks.run \in 1..MaxUpdates
    BY <2>1, LockedTyped, ContextAssumption DEF Locks
  <2>3. used' \subseteq (1..MaxUpdates) \X Commit
    BY <1>9, <2>2 DEF CopySources
  <2>4. job' \in [Job -> AJob]
    BY <1>9, <2>1 DEF CopySources, AJob
  <2>5. \A i \in Job : job'[i].pc # "idle" => HasCommit(job'[i].locks)
    BY <1>9 DEF CopySources, AJob
  <2> QED
    BY <1>9, <2>3, <2>4, <2>5 DEF CopySources, definition, source
<1>10. CASE UNCHANGED vars
  BY <1>10 DEF vars
<1> QED
  BY <1>1, <1>2, <1>3, <1>4, <1>5, <1>6, <1>7, <1>8, <1>9, <1>10 DEF Next

\* Contexts, commits, locks and builds keep their types: what is locked for a git
\* context, and copied by builds, is always a commit.
THEOREM TypeCorrect == Spec => []TypeOK
<1>1. TypeInv => TypeOK
  BY DEF TypeInv
<1> QED
  BY <1>1, TypeInit, TypeNext, PTL DEF Spec

-----------------------------------------------------------------------------
(* One commit per update.                                                  *)

LEMMA AgreeInit == Init => AgreeInv
BY NoLocksTyped DEF Init, AgreeInv, Agree, OfCommit, SameCommit

LEMMA AgreeNext == TypeInv /\ AgreeInv /\ [Next]_vars => AgreeInv'
<1> SUFFICES ASSUME TypeInv, AgreeInv, [Next]_vars PROVE AgreeInv'
  OBVIOUS
<1> USE DEF AgreeInv, Agree, OfCommit, Copied, SameCommit
<1>0. /\ lockfile \in Locks /\ lockfile.run \in Nat /\ upd.locks \in Locks
      /\ \A j \in Job : job[j] \in AJob /\ job[j].locks.run \in Nat
      /\ \A u \in used : u[1] \in Nat
  BY DEF TypeInv, TypeOK, AJob, Locks
<1>1. CASE Push
  BY <1>1 DEF Push, definition
<1>2. CASE StartUpdate
  <2>1. upd'.locks.run = lockfile.run + 1 /\ upd'.locks.reqs = None
    BY <1>2 DEF StartUpdate, NoLocks
  <2> QED
    BY <1>2, <2>1 DEF StartUpdate, definition, source
<1>3. CASE LockContext
  <2>1. upd.locks.reqs = None
    BY <1>3 DEF LockContext
  <2>2. upd'.locks.run = upd.locks.run /\ upd'.locks.reqs = upd.locks.reqs
    BY <1>0, <1>3 DEF LockContext, TypeInv, TypeOK, Locks
  <2> QED
    BY <1>3, <2>1, <2>2 DEF LockContext, definition, source
<1>4. CASE ReadComposerLock
  <2>1. type = "git" => Locked(upd.locks) = upd.locks.commit
    BY DEF Locked
  <2>2. /\ upd'.locks.run = upd.locks.run /\ upd'.locks.commit = upd.locks.commit
        /\ upd'.locks.reqs \in {Locked(upd.locks), None}
    BY <1>0, <1>4 DEF ReadComposerLock, TypeInv, TypeOK, Locks
  <2> QED
    BY <1>4, <2>1, <2>2 DEF ReadComposerLock, definition, source
<1>5. CASE WriteLockfile
  <2>1. lockfile' = upd.locks /\ lockfile'.run = lockfile.run + 1
    BY <1>5 DEF WriteLockfile
  <2>2. UNCHANGED <<type, job, used>> /\ upd'.pc = "idle"
    BY <1>5 DEF WriteLockfile, definition, TypeInv, TypeOK
  <2>3. /\ \A j \in Job : job[j].locks.run < lockfile'.run
        /\ \A u \in used : u[1] < lockfile'.run
    BY <1>0, <2>1
  <2>4. OfCommit(lockfile)'
    BY <1>5, <2>1, <2>2 DEF WriteLockfile
  <2>5. /\ \A j \in Job : (job[j].locks.run <= lockfile.run)' /\ Agree(job[j].locks, lockfile)'
        /\ \A u \in used : u[1] <= lockfile'.run /\ Copied(u, lockfile)'
    BY <1>0, <2>1, <2>2, <2>3
  <2>6. /\ \A j \in Job : OfCommit(job[j].locks)'
        /\ \A i, j \in Job : Agree(job[i].locks, job[j].locks)'
        /\ \A u \in used, j \in Job : Copied(u, job[j].locks)'
        /\ SameCommit'
    BY <2>2
  <2> QED
    BY <2>2, <2>4, <2>5, <2>6
<1>6. CASE AbortUpdate
  BY <1>6 DEF AbortUpdate, definition, source, TypeInv, TypeOK
<1>7. ASSUME NEW j \in Job, StartBuild(j) PROVE AgreeInv'
  <2>1. job'[j].locks = lockfile /\ \A i \in Job \ {j} : job'[i] = job[i]
    BY <1>7 DEF StartBuild, TypeInv, TypeOK
  <2>2. UNCHANGED <<type, upd, lockfile, used>>
    BY <1>7 DEF StartBuild, definition
  <2> QED
    BY <1>0, <2>1, <2>2
<1>8. ASSUME NEW j \in Job, Look(j) PROVE AgreeInv'
  <2>1. \A i \in Job : job'[i].locks = job[i].locks
    BY <1>8 DEF Look, TypeInv, TypeOK, AJob
  <2>2. UNCHANGED <<type, upd, lockfile, used>>
    BY <1>8 DEF Look, definition
  <2>3. /\ \A i \in Job : OfCommit(job[i].locks)' /\ Agree(job[i].locks, lockfile)'
        /\ \A i \in Job : (job[i].locks.run <= lockfile.run)'
    BY <2>1, <2>2
  <2>4. \A i, k \in Job : Agree(job[i].locks, job[k].locks)'
    BY <2>1
  <2>5. \A u \in used, i \in Job : Copied(u, job[i].locks)'
    BY <2>1, <2>2
  <2> QED
    BY <2>2, <2>3, <2>4, <2>5
<1>9. ASSUME NEW j \in Job, CopySources(j) PROVE AgreeInv'
  <2> DEFINE new == <<job[j].locks.run, Locked(job[j].locks)>>
  <2>1. \A i \in Job : job'[i].locks = job[i].locks
    BY <1>9 DEF CopySources, TypeInv, TypeOK, AJob
  <2>2. UNCHANGED <<type, upd, lockfile>> /\ used' = used \cup {new}
    BY <1>9 DEF CopySources, definition
  <2>3. new[1] = job[j].locks.run /\ (type = "git" => new[2] = job[j].locks.commit)
    BY DEF Locked
  <2> HIDE DEF new
  <2>4. /\ new[1] <= lockfile.run /\ Copied(new, lockfile)
        /\ \A i \in Job : Copied(new, job[i].locks)
    BY <2>3
  <2>5. \A u \in used : type = "git" /\ u[1] = new[1] => u[2] = new[2]
    BY <2>3
  <2> QED
    BY <2>1, <2>2, <2>4, <2>5
<1>10. CASE UNCHANGED vars
  BY <1>10 DEF vars
<1> QED
  BY <1>1, <1>2, <1>3, <1>4, <1>5, <1>6, <1>7, <1>8, <1>9, <1>10 DEF Next

LEMMA ContextInv == Spec => [](TypeInv /\ AgreeInv)
BY TypeInit, TypeNext, AgreeInit, AgreeNext, PTL DEF Spec

\* Wherever its reference moves, the builds between two updates copy one commit of a
\* git context.
THEOREM OneCommit == Spec => []SameCommit
<1>1. AgreeInv => SameCommit
  BY DEF AgreeInv
<1> QED
  BY <1>1, ContextInv, PTL

\* The extensions a lockfile has are required by the composer.lock of the sources
\* that are copied with it.
THEOREM ReqsAreOfSources == Spec => []ReqsOfSources
<1>1. AgreeInv => ReqsOfSources
  BY DEF AgreeInv, OfCommit, Copied, ReqsOfSources
<1> QED
  BY <1>1, ContextInv, PTL
=============================================================================
