----------------------------- MODULE LocalSolver -----------------------------
(***************************************************************************)
(* The solver of the zbuild CLI and the Docker daemon.  ExecImage runs a   *)
(* command in a container of an image and returns what it printed;         *)
(* FromImage creates a container it never starts and copies a file out of  *)
(* it, following symbolic links.  Both create one container per call and   *)
(* are meant to remove it before they return.                              *)
(*                                                                         *)
(* The daemon answers every request, maybe with an error.  Three things    *)
(* are counted as faults: a ContainerWait request is refused or its        *)
(* connection lost, the daemon does not perform a removal it could, and    *)
(* the CLI is killed.                                                      *)
(***************************************************************************)
EXTENDS Naturals, FiniteSets

CONSTANTS
  Path,      \* paths of files in the image
  Trees,     \* the file trees an image may have
  MaxCalls,  \* bound on the calls, for TLC
  MaxFaults, \* bound on the faults, for TLC
  None

Kinds == {"regular", "directory", "device", "absent", "link"}
Entry == [kind : Kinds, to : Path]
Id == 1..MaxCalls \* the container of a call has the call's number

ASSUME SolverAssumption ==
  /\ MaxCalls \in Nat /\ MaxFaults \in Nat
  /\ IsFiniteSet(Path) /\ Path # {}
  /\ Trees \subseteq [Path -> Entry]
  /\ None \notin Path

VARIABLES
  files,     \* [Path -> Entry]: what is in the image
  pulled,    \* whether the daemon has the image
  container, \* [Id -> what the daemon knows of the container]
  calls,     \* how many calls so far
  faults,    \* how many faults so far
  pc,        \* where the current call is
  asked,     \* the path to read, None for ExecImage
  at,        \* the path being read, after some links
  wait,      \* what the channels of ContainerWait hold
  failed,    \* whether startContainerAndWait returned an error
  result     \* what the call returns

vars == <<files, pulled, container, calls, faults, pc, asked, at, wait, failed, result>>
daemon == <<files, pulled, container>>
local == <<asked, at, wait, failed, result>>

Container == [state : {"none", "created", "running", "exited", "removed"},
              success : BOOLEAN] \* the exit code is 0

Waits == {"none", "waiting", "exited", "failed"}

\* out is the buffer ExecImage returns, or the path whose content FromImage does.
Result == [status : {"none", "ok", "error", "not_found"},
           out : {"nil", "partial", "whole"} \cup Path]

NoResult == [status |-> "none", out |-> "nil"]

TypeOK ==
  /\ files \in Trees /\ pulled \in BOOLEAN
  /\ container \in [Id -> Container]
  /\ calls \in 0..MaxCalls /\ faults \in 0..MaxFaults
  /\ pc \in {"idle", "pull", "create", "wait", "start", "select", "logs", "read", "remove"}
  /\ asked \in Path \cup {None} /\ at \in Path \cup {None}
  /\ wait \in Waits /\ failed \in BOOLEAN
  /\ result \in Result

Init ==
  /\ files \in Trees /\ pulled = FALSE
  /\ container = [c \in Id |-> [state |-> "none", success |-> FALSE]]
  /\ calls = 0 /\ faults = 0
  /\ pc = "idle"
  /\ asked = None /\ at = None
  /\ wait = "none" /\ failed = FALSE
  /\ result = NoResult

State(c) == container[c].state
SetState(state) == container' = [container EXCEPT ![calls].state = state]
Return(status, out) == result' = [status |-> status, out |-> out]

-----------------------------------------------------------------------------
(* What both calls share.                                                  *)

\* A call, and its arguments: a path to read, or a command to execute.
Call ==
  /\ pc = "idle" /\ calls < MaxCalls
  /\ calls' = calls + 1
  /\ asked' \in Path \cup {None}
  /\ at' = asked'
  /\ wait' = "none" /\ failed' = FALSE /\ result' = NoResult
  /\ pc' = "pull"
  /\ UNCHANGED <<daemon, faults>>

\* An image the daemon has is not pulled again.
PullImage ==
  /\ pc = "pull"
  /\ pulled' = TRUE
  /\ pc' = "create"
  /\ UNCHANGED <<files, container, calls, faults, local>>

\* The image cannot be inspected or pulled, or the container cannot be created.
FailEarly ==
  /\ pc \in {"pull", "create"}
  /\ Return("error", "nil")
  /\ pc' = "idle"
  /\ UNCHANGED <<daemon, calls, faults, asked, at, wait, failed>>

\* FromImage never starts the container.
CreateContainer ==
  /\ pc = "create"
  /\ SetState("created")
  /\ pc' = IF asked = None THEN "wait" ELSE "read"
  /\ UNCHANGED <<files, pulled, calls, faults, local>>

\* A slip: a container that could not be started is left there.
RemoveStarted ==
  /\ pc = "remove"
  /\ IF State(calls) = "exited" THEN SetState("removed") ELSE UNCHANGED container
  /\ pc' = "idle"
  /\ UNCHANGED <<files, pulled, calls, faults, local>>

\* The deferred removal is not forced: the daemon refuses it while the container
\* is running.  Either way the call returns.
RemoveContainer ==
  /\ pc = "remove"
  /\ IF State(calls) # "running" THEN SetState("removed") ELSE UNCHANGED container
  /\ pc' = "idle"
  /\ UNCHANGED <<files, pulled, calls, faults, local>>

RemoveFails ==
  /\ pc = "remove" /\ faults < MaxFaults
  /\ faults' = faults + 1
  /\ pc' = "idle"
  /\ UNCHANGED <<daemon, calls, local>>

\* The deferred call dies with the process, and so does what it would have returned.
Kill ==
  /\ pc # "idle" /\ faults < MaxFaults
  /\ faults' = faults + 1
  /\ pc' = "idle" /\ wait' = "none" /\ result' = NoResult
  /\ UNCHANGED <<daemon, calls, asked, at, failed>>

-----------------------------------------------------------------------------
(* ExecImage.                                                              *)

\* The next exit is waited for from before the start.
RegisterWait ==
  /\ pc = "wait"
  /\ wait' = "waiting"
  /\ pc' = "start"
  /\ UNCHANGED <<daemon, calls, faults, asked, at, failed, result>>

\* The error is found in the error channel, once the container is started.
RegisterFails ==
  /\ pc = "wait" /\ faults < MaxFaults
  /\ wait' = "failed"
  /\ faults' = faults + 1
  /\ pc' = "start"
  /\ UNCHANGED <<daemon, calls, asked, at, failed, result>>

\* A slip: the wait is registered after the start, when the command may be over.
StartUnwatched ==
  /\ pc = "start"
  /\ \E state \in {"running", "exited"} : SetState(state)
  /\ pc' = "select"
  /\ UNCHANGED <<files, pulled, calls, faults, local>>

StartContainer ==
  /\ pc = "start"
  /\ SetState("running")
  /\ pc' = "select"
  /\ UNCHANGED <<files, pulled, calls, faults, local>>

\* The logs are fetched even so.
StartFails ==
  /\ pc = "start"
  /\ failed' = TRUE
  /\ pc' = "logs"
  /\ UNCHANGED <<daemon, calls, faults, asked, at, wait, result>>

\* The daemon: the command ends, and the waiter is told.
ContainerExits ==
  /\ \E c \in Id : /\ State(c) = "running"
                   /\ \E success \in BOOLEAN :
                        container' = [container EXCEPT ![c] = [state |-> "exited",
                                                               success |-> success]]
                   /\ wait' = IF c = calls /\ wait = "waiting" THEN "exited" ELSE wait
  /\ UNCHANGED <<files, pulled, calls, faults, pc, asked, at, failed, result>>

\* The connection is lost while the container runs.
WaitBreaks ==
  /\ wait = "waiting" /\ faults < MaxFaults
  /\ wait' = "failed"
  /\ faults' = faults + 1
  /\ UNCHANGED <<daemon, calls, pc, asked, at, failed, result>>

\* A slip: the exit code is not looked at.
IgnoreExitCode ==
  /\ pc = "select" /\ wait \in {"exited", "failed"}
  /\ failed' = (wait = "failed")
  /\ pc' = "logs"
  /\ UNCHANGED <<daemon, calls, faults, asked, at, wait, result>>

\* Either channel is ready.
AwaitExit ==
  /\ pc = "select" /\ wait \in {"exited", "failed"}
  /\ failed' = (wait = "failed" \/ ~container[calls].success)
  /\ pc' = "logs"
  /\ UNCHANGED <<daemon, calls, faults, asked, at, wait, result>>

\* The logs are what was printed so far, all of it once the container exited.
\* The error of startContainerAndWait hides that of fetchContainerLogs.
FetchLogs ==
  /\ pc = "logs"
  /\ \/ Return(IF failed THEN "error" ELSE "ok",
               IF State(calls) = "exited" THEN "whole" ELSE "partial")
     \/ \E out \in {"nil", "partial"} : Return("error", out)
  /\ pc' = "remove"
  /\ UNCHANGED <<daemon, calls, faults, asked, at, wait, failed>>

-----------------------------------------------------------------------------
(* FromImage.                                                              *)

\* A link is read like the path it points to, with no limit on their number.
FollowLink ==
  /\ pc = "read" /\ files[at].kind = "link"
  /\ at' = files[at].to
  /\ UNCHANGED <<daemon, calls, faults, pc, asked, wait, failed, result>>

\* A slip: the path is not found when its link leads nowhere, but a device is read.
ReadAnything ==
  /\ pc = "read" /\ files[at].kind # "link"
  /\ CASE files[at].kind \in {"regular", "device"} -> Return("ok", at)
       [] OTHER -> Return("not_found", "nil")
  /\ pc' = "remove"
  /\ UNCHANGED <<daemon, calls, faults, asked, at, wait, failed>>

\* A slip: an error of the daemon while the archive is read is taken for its end,
\* and the file for an empty one.
ReadNothing ==
  /\ pc = "read" /\ files[at].kind # "link"
  /\ Return("ok", None)
  /\ pc' = "remove"
  /\ UNCHANGED <<daemon, calls, faults, asked, at, wait, failed>>

\* The name of a directory has a trailing slash in the archive, and the loop runs
\* over all of its entries for a name without one.
ReadEntry ==
  /\ pc = "read" /\ files[at].kind # "link"
  /\ CASE files[at].kind = "regular" -> Return("ok", at)
       [] files[at].kind = "device" -> Return("error", "nil")
       [] OTHER -> Return("not_found", "nil")
  /\ pc' = "remove"
  /\ UNCHANGED <<daemon, calls, faults, asked, at, wait, failed>>

CopyFails ==
  /\ pc = "read"
  /\ Return("error", "nil")
  /\ pc' = "remove"
  /\ UNCHANGED <<daemon, calls, faults, asked, at, wait, failed>>

-----------------------------------------------------------------------------
Exec == RegisterWait \/ RegisterFails \/ StartContainer \/ StartFails \/ AwaitExit \/ FetchLogs
Read == FollowLink \/ ReadEntry \/ CopyFails
Shared == PullImage \/ FailEarly \/ CreateContainer \/ RemoveContainer \/ RemoveFails

Next == Call \/ Shared \/ Exec \/ Read \/ ContainerExits \/ WaitBreaks \/ Kill

\* The CLI goes on as long as it is not killed, and commands end: apt-cache, apk,
\* git and php -r, which are all it runs.
Fairness == WF_vars(Shared \/ Exec \/ Read) /\ WF_vars(ContainerExits)

Spec == Init /\ [][Next]_vars /\ Fairness

-----------------------------------------------------------------------------
(* Properties.                                                             *)

\* Whoever gets an output without an error has all that the command printed, and
\* the command succeeded (solver.go:20-22): what is locked is never the beginning
\* of a list.
OutputIsWhole ==
  pc = "idle" /\ asked = None /\ result.status = "ok" =>
    /\ result.out = "whole"
    /\ State(calls) \in {"exited", "removed"} /\ container[calls].success

\* The reference: where the links from a path lead in n steps.
target[n \in Nat] ==
  IF n = 0 THEN asked
  ELSE IF files[target[n - 1]].kind = "link" THEN files[target[n - 1]].to
  ELSE target[n - 1]

\* A file that is read is the regular file the links lead to, and a path is not
\* found exactly when they lead to nothing that can be read (solver.go:26-29).
ReadIsRight ==
  pc = "idle" /\ asked # None /\ result.status \in {"ok", "not_found"} =>
    LET end == target[Cardinality(Path)] IN
    IF result.status = "ok"
    THEN result.out = end /\ files[end].kind = "regular"
    ELSE files[end].kind \in {"absent", "directory"}

\* A call that went without a fault leaves no container behind: whether creating,
\* starting, running, reading or fetching the logs failed.
LeavesNothing ==
  pc = "idle" /\ faults = 0 /\ calls > 0 => \A c \in Id : State(c) \in {"none", "removed"}

\* A call always returns.
CallReturns == pc # "idle" ~> pc = "idle"
=============================================================================
