-------------------------- MODULE LocalSolverProofs --------------------------
(***************************************************************************)
(* Proofs about the local solver, for any number of calls and faults and   *)
(* any file tree.                                                          *)
(***************************************************************************)
EXTENDS LocalSolver, FiniteSetTheorems, WellFoundedInduction, TLAPS

CallInv ==
  /\ pc # "idle" => calls \in Id
  /\ pc \in {"pull", "create"} => at = asked
  /\ pc = "read" => at \in Path /\ asked # None

TypeInv == TypeOK /\ CallInv

\* Where the container of the call is at each step of it, and what was heard of it.
RunInv ==
  /\ \A c \in Id : c > calls => State(c) = "none"
  /\ pc \in {"pull", "create"} => State(calls) = "none"
  /\ pc \in {"pull", "create", "wait"} => wait = "none"
  /\ pc \in {"wait", "start", "read"} => State(calls) = "created"
  /\ pc = "start" => wait # "exited"
  /\ pc = "select" /\ wait = "exited" => State(calls) = "exited"
  /\ pc = "logs" /\ ~failed => State(calls) = "exited" /\ container[calls].success
  /\ pc \notin {"idle", "remove"} => result = NoResult
  /\ asked = None /\ result.status = "ok" =>
       /\ result.out = "whole"
       /\ State(calls) \in {"exited", "removed"} /\ container[calls].success

\* Nothing is left of earlier calls, and nothing that the daemon would not remove.
CleanInv ==
  faults = 0 =>
    /\ wait # "failed"
    /\ \A c \in Id : c < calls \/ pc = "idle" => State(c) \in {"none", "removed"}
    /\ pc \in {"logs", "remove"} => State(calls) # "running"

-----------------------------------------------------------------------------
(* Types.                                                                  *)

LEMMA StateSet ==
  ASSUME TypeOK, calls \in Id,
         NEW s \in {"none", "created", "running", "exited", "removed"}, SetState(s)
  PROVE  /\ container' \in [Id -> Container]
         /\ container'[calls].state = s
         /\ container'[calls].success = container[calls].success
         /\ \A c \in Id \ {calls} : container'[c] = container[c]
BY DEF TypeOK, SetState, Container

LEMMA Exited ==
  ASSUME TypeOK, ContainerExits
  PROVE  \E c \in Id :
           /\ State(c) = "running"
           /\ container' \in [Id -> Container]
           /\ container'[c].state = "exited"
           /\ \A d \in Id \ {c} : container'[d] = container[d]
           /\ wait' = IF c = calls /\ wait = "waiting" THEN "exited" ELSE wait
<1>1. PICK c \in Id :
        /\ State(c) = "running"
        /\ \E success \in BOOLEAN :
             container' = [container EXCEPT ![c] = [state |-> "exited", success |-> success]]
        /\ wait' = IF c = calls /\ wait = "waiting" THEN "exited" ELSE wait
  BY DEF ContainerExits
<1>2. /\ container' \in [Id -> Container] /\ container'[c].state = "exited"
      /\ \A d \in Id \ {c} : container'[d] = container[d]
  BY <1>1 DEF TypeOK, Container
<1> WITNESS c \in Id
<1> QED
  BY <1>1, <1>2

LEMMA TypeInit == Init => TypeInv
<1> SUFFICES ASSUME Init PROVE TypeInv
  OBVIOUS
<1>1. container \in [Id -> Container] /\ result \in Result
  BY DEF Init, Container, Result, NoResult
<1>2. calls \in 0..MaxCalls /\ faults \in 0..MaxFaults
  BY SolverAssumption DEF Init
<1> QED
  BY <1>1, <1>2 DEF Init, TypeInv, TypeOK, CallInv, Waits

LEMMA TypeNext == TypeInv /\ [Next]_vars => TypeInv'
<1> SUFFICES ASSUME TypeInv, [Next]_vars PROVE TypeInv'
  OBVIOUS
<1> USE SolverAssumption DEF TypeInv, TypeOK, CallInv
<1>1. CASE Call
  <2>1. calls' \in 0..MaxCalls /\ calls' \in Id
    BY <1>1 DEF Call, Id
  <2>2. result' \in Result
    BY <1>1 DEF Call, NoResult, Result
  <2> QED
    BY <1>1, <2>1, <2>2 DEF Call, daemon, Waits
<1>2. CASE PullImage
  BY <1>2 DEF PullImage, local
<1>3. CASE FailEarly
  BY <1>3 DEF FailEarly, Return, Result, daemon
<1>4. CASE CreateContainer
  BY <1>4, StateSet DEF CreateContainer, local
<1>5. CASE RemoveContainer
  BY <1>5, StateSet DEF RemoveContainer, local
<1>6. CASE RemoveFails \/ Kill
  BY <1>6 DEF RemoveFails, Kill, daemon, local, NoResult, Result, Waits
<1>7. CASE RegisterWait \/ RegisterFails
  BY <1>7 DEF RegisterWait, RegisterFails, daemon, Waits
<1>8. CASE StartContainer
  BY <1>8, StateSet DEF StartContainer, local
<1>9. CASE StartFails \/ AwaitExit
  BY <1>9 DEF StartFails, AwaitExit, daemon
<1>10. CASE FetchLogs
  <2>1. result' \in Result /\ pc' = "remove"
    BY <1>10 DEF FetchLogs, Return, Result
  <2> QED
    BY <1>10, <2>1 DEF FetchLogs, daemon
<1>11. CASE FollowLink
  <2>1. files \in [Path -> Entry] /\ files[at].to \in Path
    BY <1>11 DEF FollowLink, Entry
  <2> QED
    BY <1>11, <2>1 DEF FollowLink, daemon
<1>12. CASE ReadEntry \/ CopyFails
  <2>1. result' \in Result /\ pc' = "remove"
    BY <1>12 DEF ReadEntry, CopyFails, Return, Result
  <2> QED
    BY <1>12, <2>1 DEF ReadEntry, CopyFails, daemon
<1>13. CASE ContainerExits
  <2>1. container' \in [Id -> Container] /\ wait' \in Waits
    BY <1>13, Exited DEF Waits
  <2> QED
    BY <1>13, <2>1 DEF ContainerExits
<1>14. CASE WaitBreaks
  BY <1>14 DEF WaitBreaks, daemon, Waits
<1>15. CASE UNCHANGED vars
  BY <1>15 DEF vars
<1> QED
  BY <1>1, <1>2, <1>3, <1>4, <1>5, <1>6, <1>7, <1>8, <1>9, <1>10, <1>11, <1>12, <1>13,
     <1>14, <1>15 DEF Next, Shared, Exec, Read

\* Every variable keeps its type: no step reads or changes the container of a call
\* that has none, and links lead from paths to paths.
THEOREM TypeCorrect == Spec => []TypeOK
<1>1. TypeInv => TypeOK
  BY DEF TypeInv
<1> QED
  BY <1>1, TypeInit, TypeNext, PTL DEF Spec

-----------------------------------------------------------------------------
(* Whole outputs.                                                          *)

LEMMA RunInit == Init => RunInv
BY SolverAssumption DEF Init, RunInv, State, NoResult, Id

LEMMA RunNext == TypeInv /\ TypeInv' /\ RunInv /\ [Next]_vars => RunInv'
<1> SUFFICES ASSUME TypeInv, TypeInv', RunInv, [Next]_vars PROVE RunInv'
  OBVIOUS
<1> USE DEF RunInv, State
<1>0. /\ TypeOK /\ (pc # "idle" => calls \in Id)
      /\ calls \in Nat /\ \A c \in Id : c \in Nat
  BY SolverAssumption DEF TypeInv, CallInv, TypeOK, Id
<1>1. CASE Call
  <2>1. calls' = calls + 1 /\ calls' \in Id /\ container' = container /\ pc' = "pull"
    BY <1>1, SolverAssumption DEF Call, daemon, TypeInv, TypeOK, Id
  <2>2. wait' = "none" /\ result' = NoResult
    BY <1>1 DEF Call
  <2> QED
    BY <1>0, <2>1, <2>2 DEF NoResult
<1>2. CASE PullImage
  BY <1>2 DEF PullImage, local
<1>3. CASE FailEarly
  BY <1>3 DEF FailEarly, Return, daemon
<1>4. CASE CreateContainer
  <2>1. /\ container'[calls].state = "created"
        /\ \A c \in Id \ {calls} : container'[c] = container[c]
    BY <1>0, <1>4, StateSet DEF CreateContainer
  <2>2. result = NoResult /\ wait = "none"
    BY <1>4 DEF CreateContainer
  <2> QED
    BY <1>0, <1>4, <2>1, <2>2 DEF CreateContainer, local, NoResult
<1>5. CASE RemoveContainer
  <2>1. CASE State(calls) # "running"
    <3>1. /\ container'[calls].state = "removed"
          /\ container'[calls].success = container[calls].success
          /\ \A c \in Id \ {calls} : container'[c] = container[c]
      BY <1>0, <1>5, <2>1, StateSet DEF RemoveContainer
    <3> QED
      BY <1>0, <1>5, <3>1 DEF RemoveContainer, local
  <2>2. CASE State(calls) = "running"
    BY <1>5, <2>2 DEF RemoveContainer, local
  <2> QED
    BY <2>1, <2>2
<1>6. CASE RemoveFails \/ Kill
  BY <1>6 DEF RemoveFails, Kill, daemon, local, NoResult
<1>7. CASE RegisterWait \/ RegisterFails
  BY <1>7 DEF RegisterWait, RegisterFails, daemon
<1>8. CASE StartContainer
  <2>1. /\ container'[calls].state = "running"
        /\ \A c \in Id \ {calls} : container'[c] = container[c]
    BY <1>0, <1>8, StateSet DEF StartContainer
  <2>2. result = NoResult /\ wait # "exited"
    BY <1>8 DEF StartContainer
  <2> QED
    BY <1>0, <1>8, <2>1, <2>2 DEF StartContainer, local, NoResult
<1>9. CASE StartFails
  BY <1>9 DEF StartFails, daemon
<1>10. CASE AwaitExit
  BY <1>10 DEF AwaitExit, daemon
<1>11. CASE FetchLogs
  <2>1. result'.status = "ok" =>
          /\ result'.out = "whole" /\ State(calls) = "exited" /\ container[calls].success
    BY <1>11 DEF FetchLogs, Return
  <2> QED
    BY <1>11, <2>1 DEF FetchLogs, daemon
<1>12. CASE FollowLink
  BY <1>12 DEF FollowLink, daemon
<1>13. CASE ReadEntry \/ CopyFails
  BY <1>13 DEF ReadEntry, CopyFails, daemon, TypeInv, CallInv
<1>14. CASE ContainerExits
  <2>1. PICK c \in Id :
          /\ State(c) = "running" /\ container'[c].state = "exited"
          /\ \A d \in Id \ {c} : container'[d] = container[d]
          /\ wait' = IF c = calls /\ wait = "waiting" THEN "exited" ELSE wait
    BY <1>0, <1>14, Exited
  <2>2. UNCHANGED <<pc, calls, asked, failed, result>>
    BY <1>14 DEF ContainerExits
  <2>3. c <= calls
    BY <1>0, <2>1
  <2>4. CASE c = calls
    BY <1>0, <2>1, <2>2, <2>4
  <2>5. CASE c # calls
    <3>1. wait' = wait /\ (calls \in Id => container'[calls] = container[calls])
      BY <2>1, <2>5
    <3>2. calls \in Id
      BY <1>0, <2>3, SolverAssumption DEF TypeOK, Id
    <3> QED
      BY <1>0, <2>1, <2>2, <2>3, <3>1, <3>2
  <2> QED
    BY <2>4, <2>5
<1>15. CASE WaitBreaks
  BY <1>15 DEF WaitBreaks, daemon
<1>16. CASE UNCHANGED vars
  BY <1>16 DEF vars
<1> QED
  BY <1>1, <1>2, <1>3, <1>4, <1>5, <1>6, <1>7, <1>8, <1>9, <1>10, <1>11, <1>12, <1>13,
     <1>14, <1>15, <1>16 DEF Next, Shared, Exec, Read

-----------------------------------------------------------------------------
(* Containers left behind.                                                 *)

LEMMA CleanInit == Init => CleanInv
BY DEF Init, CleanInv, State

LEMMA CleanNext ==
  TypeInv /\ TypeInv' /\ RunInv /\ CleanInv /\ [Next]_vars => CleanInv'
<1> SUFFICES ASSUME TypeInv, TypeInv', RunInv, CleanInv, [Next]_vars, faults' = 0
             PROVE  CleanInv'
  BY DEF CleanInv
<1> USE DEF CleanInv, State
<1>0. /\ TypeOK /\ (pc # "idle" => calls \in Id)
      /\ calls \in Nat /\ faults \in Nat /\ \A c \in Id : c \in Nat
  BY SolverAssumption DEF TypeInv, CallInv, TypeOK, Id
<1>1. CASE Call
  <2>1. /\ faults = 0 /\ pc = "idle" /\ container' = container
        /\ pc' = "pull" /\ wait' = "none"
    BY <1>1 DEF Call, daemon
  <2> QED
    BY <2>1
<1>2. CASE PullImage \/ FollowLink
  BY <1>2 DEF PullImage, FollowLink, daemon, local
<1>3. CASE FailEarly
  <2>1. /\ faults = 0 /\ container' = container /\ wait' = wait
        /\ calls' = calls /\ pc' = "idle" /\ State(calls) = "none"
    BY <1>3 DEF FailEarly, daemon, RunInv
  <2>2. \A c \in Id : c < calls \/ c = calls \/ c > calls
    BY <1>0
  <2> QED
    BY <2>1, <2>2 DEF RunInv
<1>4. CASE CreateContainer \/ StartContainer
  <2>1. /\ faults = 0 /\ wait' = wait /\ calls' = calls /\ pc \in {"create", "start"}
        /\ pc' \in {"wait", "read", "select"}
    BY <1>4 DEF CreateContainer, StartContainer, local
  <2>2. \A c \in Id \ {calls} : container'[c] = container[c]
    BY <1>0, <1>4, StateSet DEF CreateContainer, StartContainer
  <2> QED
    BY <1>0, <2>1, <2>2
<1>5. CASE RemoveContainer
  <2>1. /\ faults = 0 /\ wait' = wait /\ calls' = calls /\ pc = "remove" /\ pc' = "idle"
    BY <1>5 DEF RemoveContainer, local
  <2>2. SetState("removed")
    BY <1>5, <2>1 DEF RemoveContainer
  <2>3. /\ container'[calls].state = "removed"
        /\ \A c \in Id \ {calls} : container'[c] = container[c]
    BY <1>0, <2>1, <2>2, StateSet
  <2>4. \A c \in Id : c < calls \/ c = calls \/ c > calls
    BY <1>0
  <2> QED
    BY <2>1, <2>3, <2>4 DEF RunInv
<1>6. CASE RemoveFails \/ Kill \/ RegisterFails \/ WaitBreaks
  BY <1>0, <1>6 DEF RemoveFails, Kill, RegisterFails, WaitBreaks
<1>7. CASE RegisterWait
  BY <1>7 DEF RegisterWait, daemon
<1>8. CASE StartFails
  BY <1>8 DEF StartFails, daemon, RunInv
<1>9. CASE AwaitExit
  <2>1. /\ faults = 0 /\ wait = "exited" /\ State(calls) = "exited"
        /\ UNCHANGED <<container, calls, wait>> /\ pc # "idle" /\ pc' = "logs"
    BY <1>9 DEF AwaitExit, daemon, RunInv
  <2> QED
    BY <2>1
<1>10. CASE FetchLogs
  BY <1>10 DEF FetchLogs, daemon
<1>11. CASE ReadEntry \/ CopyFails
  BY <1>11 DEF ReadEntry, CopyFails, daemon, RunInv
<1>12. CASE ContainerExits
  <2>1. PICK c \in Id :
          /\ State(c) = "running" /\ container'[c].state = "exited"
          /\ \A d \in Id \ {c} : container'[d] = container[d]
          /\ wait' = IF c = calls /\ wait = "waiting" THEN "exited" ELSE wait
    BY <1>0, <1>12, Exited
  <2>2. UNCHANGED <<pc, calls, faults>>
    BY <1>12 DEF ContainerExits
  <2>3. c = calls /\ pc # "idle"
    BY <1>0, <2>1, <2>2 DEF RunInv
  <2> QED
    BY <1>0, <2>1, <2>2, <2>3
<1>13. CASE UNCHANGED vars
  BY <1>13 DEF vars
<1> QED
  BY <1>1, <1>2, <1>3, <1>4, <1>5, <1>6, <1>7, <1>8, <1>9, <1>10, <1>11, <1>12, <1>13
  DEF Next, Shared, Exec, Read

LEMMA SolverInv == Spec => [](TypeInv /\ RunInv /\ CleanInv)
BY TypeInit, TypeNext, RunInit, RunNext, CleanInit, CleanNext, PTL DEF Spec

\* An output without an error is all that a command which succeeded printed, whatever
\* fails or is lost on the way.
THEOREM OutputsAreWhole == Spec => []OutputIsWhole
<1>1. RunInv => OutputIsWhole
  BY DEF RunInv, OutputIsWhole
<1> QED
  BY <1>1, SolverInv, PTL

\* As long as nothing is lost, refused or killed, no container is there between calls,
\* whichever of their steps failed.
THEOREM NothingIsLeft == Spec => []LeavesNothing
<1>1. CleanInv => LeavesNothing
  BY DEF CleanInv, LeavesNothing
<1> QED
  BY <1>1, SolverInv, PTL

-----------------------------------------------------------------------------
(* What is read.  The reference is a recursive function: that it satisfies *)
(* its equations is shown first.                                           *)

LEMMA LeastNatural ==
  ASSUME NEW T \in SUBSET Nat, T # {}
  PROVE  \E i \in T : \A j \in T : i <= j
<1> DEFINE Less == OpToRel(<, Nat)
<1>1. \E i \in T : \A j \in T : <<j, i>> \notin Less
  BY NatLessThanWellFounded, WFMin
<1>2. ASSUME NEW i \in Nat, NEW j \in Nat, j < i PROVE <<j, i>> \in Less
  <2> DEFINE ss == <<j, i>>
  <2>1. ss \in Nat \X Nat /\ ss[1] < ss[2]
    BY <1>2
  <2> QED
    BY <2>1, Zenon DEF OpToRel
<1> HIDE DEF Less
<1>3. ASSUME NEW i \in T, NEW j \in T, ~ (j < i) PROVE i <= j
  BY <1>3
<1> QED
  BY <1>1, <1>2, <1>3

\* By the least number of steps without a function, or with two of them.
LEMMA Recursion ==
  ASSUME NEW S, NEW a \in S, NEW step \in [Nat -> [S -> S]]
  PROVE  \E f \in [Nat -> S] : f[0] = a /\ \A k \in Nat : f[k + 1] = step[k][f[k]]
<1> DEFINE Approx(m, g) == /\ g \in [0..m -> S] /\ g[0] = a
                           /\ \A k \in 1..m : g[k] = step[k - 1][g[k - 1]]
<1>1. ASSUME NEW m \in Nat PROVE \E g : Approx(m, g)
  <2> DEFINE bad == {n \in 0..m : ~ \E g : Approx(n, g)}
  <2>1. ASSUME bad # {} PROVE FALSE
    <3>1. bad \in SUBSET Nat
      OBVIOUS
    <3>2. PICK n \in bad : \A j \in bad : n <= j
      BY <2>1, <3>1, LeastNatural
    <3>3. n \in 0..m /\ ~ \E g : Approx(n, g)
      OBVIOUS
    <3>4. n # 0
      <4> SUFFICES ASSUME n = 0 PROVE FALSE
        OBVIOUS
      <4> DEFINE e == [k \in 0..0 |-> a]
      <4>1. e \in [0..0 -> S] /\ e[0] = a /\ 1..0 = {}
        OBVIOUS
      <4> HIDE DEF e
      <4>2. Approx(0, e)
        BY <4>1
      <4> QED
        BY <3>3, <4>2
    <3>5. n - 1 \in 0..m /\ ~ (n <= n - 1)
      BY <3>3, <3>4
    <3>6. PICK g : Approx(n - 1, g)
      <4>1. n - 1 \notin bad
        <5> HIDE DEF bad
        <5> QED
          BY <3>2, <3>5
      <4> QED
        BY <3>5, <4>1
    <3> DEFINE last == step[n - 1][g[n - 1]]
               e == [k \in 0..n |-> IF k = n THEN last ELSE g[k]]
    <3>7. last \in S
      <4>1. n - 1 \in 0..(n - 1) /\ n - 1 \in Nat
        BY <3>3, <3>4
      <4> QED
        BY <3>6, <4>1
    <3> HIDE DEF last
    <3>8. \A k \in 0..n : k # n => k \in 0..(n - 1) /\ g[k] \in S
      BY <3>3, <3>6
    <3>9. e \in [0..n -> S] /\ \A k \in 0..n : e[k] = IF k = n THEN last ELSE g[k]
      BY <3>7, <3>8
    <3> HIDE DEF e
    <3>10. e[0] = a
      BY <3>3, <3>4, <3>6, <3>9
    <3>11. ASSUME NEW k \in 1..n PROVE e[k] = step[k - 1][e[k - 1]]
      <4>1. k \in 0..n /\ k - 1 \in 0..n /\ k - 1 # n
        BY <3>3
      <4>2. e[k - 1] = g[k - 1]
        BY <3>9, <4>1
      <4>3. CASE k = n
        BY <3>9, <4>1, <4>2, <4>3 DEF last
      <4>4. CASE k # n
        <5>1. k \in 1..(n - 1)
          BY <3>3, <4>4
        <5>2. g[k] = step[k - 1][g[k - 1]]
          BY <3>6, <5>1
        <5> QED
          BY <3>9, <4>1, <4>2, <4>4, <5>2
      <4> QED
        BY <4>3, <4>4
    <3>12. Approx(n, e)
      BY <3>9, <3>10, <3>11
    <3> QED
      BY <3>3, <3>12
  <2>2. m \in 0..m
    OBVIOUS
  <2>3. m \notin bad
    <3> HIDE DEF bad
    <3> QED
      BY <2>1
  <2> QED
    BY <2>2, <2>3
<1>2. ASSUME NEW m \in Nat, NEW n \in Nat, m <= n, NEW g, NEW h, Approx(m, g), Approx(n, h)
      PROVE  \A k \in 0..m : g[k] = h[k]
  <2> DEFINE bad == {k \in 0..m : g[k] # h[k]}
  <2>1. ASSUME bad # {} PROVE FALSE
    <3>1. bad \in SUBSET Nat
      OBVIOUS
    <3>2. PICK k \in bad : \A j \in bad : k <= j
      BY <2>1, <3>1, LeastNatural
    <3>3. k \in 0..m /\ g[k] # h[k]
      OBVIOUS
    <3>4. k # 0
      BY <1>2, <3>3
    <3>5. k \in 1..m /\ k \in 1..n /\ k - 1 \in 0..m /\ ~ (k <= k - 1)
      BY <1>2, <3>3, <3>4
    <3>6. g[k - 1] = h[k - 1]
      <4>1. k - 1 \notin bad
        <5> HIDE DEF bad
        <5> QED
          BY <3>2, <3>5
      <4> QED
        BY <3>5, <4>1
    <3>7. g[k] = step[k - 1][g[k - 1]] /\ h[k] = step[k - 1][h[k - 1]]
      BY <1>2, <3>5
    <3> QED
      BY <3>3, <3>6, <3>7
  <2>2. bad = {}
    <3> HIDE DEF bad
    <3> QED
      BY <2>1
  <2> QED
    BY <2>2
<1> DEFINE G(m) == CHOOSE g : Approx(m, g)
<1>3. \A m \in Nat : Approx(m, G(m))
  BY <1>1
<1> HIDE DEF G
<1> DEFINE f == [m \in Nat |-> G(m)[m]]
<1>4. \A m \in Nat : m \in 0..m
  OBVIOUS
<1>5. f \in [Nat -> S]
  BY <1>3, <1>4
<1>6. \A m \in Nat : f[m] = G(m)[m]
  OBVIOUS
<1> HIDE DEF f
<1>7. f[0] = a
  BY <1>3, <1>6
<1>8. ASSUME NEW k \in Nat PROVE f[k + 1] = step[k][f[k]]
  <2>1. k + 1 \in Nat /\ k <= k + 1 /\ k + 1 \in 1..(k + 1) /\ (k + 1) - 1 = k /\ k \in 0..k
    OBVIOUS
  <2>2. Approx(k, G(k)) /\ Approx(k + 1, G(k + 1))
    BY <1>3, <2>1
  <2>3. G(k)[k] = G(k + 1)[k]
    <3> HIDE DEF Approx
    <3> QED
      BY <1>2, <2>1, <2>2
  <2>4. G(k + 1)[k + 1] = step[k][G(k + 1)[k]]
    BY <2>1, <2>2
  <2> QED
    BY <1>6, <2>1, <2>3, <2>4
<1> QED
  BY <1>5, <1>7, <1>8

Follow(p) == IF files[p].kind = "link" THEN files[p].to ELSE p

LEMMA FollowTyped == TypeOK => \A p \in Path : Follow(p) \in Path
BY SolverAssumption DEF TypeOK, Follow, Entry

LEMMA TargetDef ==
  ASSUME TypeOK, asked # None
  PROVE  /\ \A k \in Nat : target[k] \in Path
         /\ target[0] = asked
         /\ \A k \in Nat : target[k + 1] = Follow(target[k])
<1> DEFINE follow == [p \in Path |-> Follow(p)]
           step == [k \in Nat |-> follow]
<1>1. follow \in [Path -> Path] /\ \A p \in Path : follow[p] = Follow(p)
  BY FollowTyped
<1> HIDE DEF follow
<1>2. step \in [Nat -> [Path -> Path]] /\ \A k \in Nat : step[k] = follow
  BY <1>1
<1> HIDE DEF step
<1>3. asked \in Path
  BY DEF TypeOK
<1>4. PICK f \in [Nat -> Path] : f[0] = asked /\ \A k \in Nat : f[k + 1] = step[k][f[k]]
  BY <1>2, <1>3, Recursion
<1> DEFINE Body(g) == [k \in Nat |->
             IF k = 0 THEN asked
             ELSE IF files[g[k - 1]].kind = "link" THEN files[g[k - 1]].to
             ELSE g[k - 1]]
<1>5. \A k \in Nat : f[k + 1] = Follow(f[k])
  BY <1>1, <1>2, <1>4
<1>6. ASSUME NEW k \in Nat PROVE f[k] = IF k = 0 THEN asked ELSE Follow(f[k - 1])
  <2>1. k # 0 => k - 1 \in Nat /\ (k - 1) + 1 = k
    OBVIOUS
  <2> QED
    BY <1>4, <1>5, <2>1
<1>7. f = Body(f)
  BY <1>4, <1>6 DEF Follow
<1>8. target = CHOOSE g : g = Body(g)
  BY DEF target
<1>9. target = Body(target)
  <2> HIDE DEF Body
  <2> QED
    BY <1>7, <1>8
<1>10. target[0] = asked
  BY <1>9
<1>11. ASSUME NEW k \in Nat PROVE target[k + 1] = Follow(target[k])
  <2>1. k + 1 \in Nat /\ k + 1 # 0 /\ (k + 1) - 1 = k
    OBVIOUS
  <2>2. \A l \in Nat : target[l] =
          IF l = 0 THEN asked
          ELSE IF files[target[l - 1]].kind = "link" THEN files[target[l - 1]].to
          ELSE target[l - 1]
    BY <1>9
  <2>3. target[k + 1] = IF files[target[(k + 1) - 1]].kind = "link"
                          THEN files[target[(k + 1) - 1]].to
                        ELSE target[(k + 1) - 1]
    BY <2>1, <2>2
  <2> QED
    BY <2>1, <2>3 DEF Follow
<1> DEFINE bad == {k \in Nat : target[k] \notin Path}
<1>12. ASSUME bad # {} PROVE FALSE
  <2>1. bad \in SUBSET Nat
    OBVIOUS
  <2>2. PICK k \in bad : \A j \in bad : k <= j
    BY <1>12, <2>1, LeastNatural
  <2>3. k \in Nat /\ target[k] \notin Path /\ k # 0
    BY <1>3, <1>10
  <2>4. k - 1 \in Nat /\ ~ (k <= k - 1) /\ (k - 1) + 1 = k
    BY <2>3
  <2>5. k - 1 \notin bad
    <3> HIDE DEF bad
    <3> QED
      BY <2>2, <2>4
  <2> QED
    BY <1>11, <2>3, <2>4, <2>5, FollowTyped
<1> QED
  BY <1>10, <1>11, <1>12

\* Once the same path is met twice, the paths after it repeat.
LEMMA LinksRepeat ==
  ASSUME TypeOK, asked # None, NEW x \in Nat, NEW y \in Nat, target[x] = target[y]
  PROVE  \A d \in Nat : target[x + d] = target[y + d]
<1> DEFINE bad == {d \in Nat : target[x + d] # target[y + d]}
<1>1. ASSUME bad # {} PROVE FALSE
  <2>1. bad \in SUBSET Nat
    OBVIOUS
  <2>2. PICK d \in bad : \A j \in bad : d <= j
    BY <1>1, <2>1, LeastNatural
  <2>3. d \in Nat /\ target[x + d] # target[y + d]
    OBVIOUS
  <2>4. d # 0
    BY <2>3
  <2>5. /\ d - 1 \in Nat /\ ~ (d <= d - 1) /\ x + (d - 1) \in Nat /\ y + (d - 1) \in Nat
        /\ (x + (d - 1)) + 1 = x + d /\ (y + (d - 1)) + 1 = y + d
    BY <2>3, <2>4
  <2>6. d - 1 \notin bad
    <3> HIDE DEF bad
    <3> QED
      BY <2>2, <2>5
  <2>7. target[x + (d - 1)] = target[y + (d - 1)]
    BY <2>5, <2>6
  <2>8. /\ target[(x + (d - 1)) + 1] = Follow(target[x + (d - 1)])
        /\ target[(y + (d - 1)) + 1] = Follow(target[y + (d - 1)])
    BY <2>5, TargetDef
  <2> QED
    BY <2>3, <2>5, <2>7, <2>8
<1> QED
  BY <1>1

\* Links that end do so after no more steps than there are paths: otherwise the
\* same path is met twice before the end, and they never end.
LEMMA LinksEnd ==
  ASSUME TypeOK, asked # None, NEW n \in Nat, files[target[n]].kind # "link"
  PROVE  target[Cardinality(Path)] = target[n]
<1> DEFINE ends == {k \in Nat : files[target[k]].kind # "link"}
           size == Cardinality(Path)
<1>1. n \in ends /\ ends \in SUBSET Nat
  OBVIOUS
<1>2. PICK k \in ends : \A j \in ends : k <= j
  BY <1>1, LeastNatural
<1>3. k \in Nat /\ files[target[k]].kind # "link" /\ k <= n
  BY <1>1, <1>2
<1>4. size \in Nat
  BY SolverAssumption, FS_CardinalityType
<1>5. target[k + 1] = target[k]
  BY <1>3, TargetDef DEF Follow
<1>6. ASSUME NEW j \in Nat, j >= k PROVE target[j] = target[k]
  <2> DEFINE bad == {l \in Nat : l >= k /\ target[l] # target[k]}
  <2>1. ASSUME bad # {} PROVE FALSE
    <3>1. bad \in SUBSET Nat
      OBVIOUS
    <3>2. PICK l \in bad : \A i \in bad : l <= i
      BY <2>1, <3>1, LeastNatural
    <3>3. l \in Nat /\ l > k /\ target[l] # target[k]
      BY <1>3
    <3>4. l - 1 \in Nat /\ l - 1 >= k /\ ~ (l <= l - 1) /\ (l - 1) + 1 = l
      BY <1>3, <3>3
    <3>5. l - 1 \notin bad
      <4> HIDE DEF bad
      <4> QED
        BY <3>2, <3>4
    <3>6. target[l - 1] = target[k]
      BY <3>4, <3>5
    <3>7. target[(l - 1) + 1] = Follow(target[l - 1])
      BY <3>4, TargetDef
    <3> QED
      BY <1>3, <3>3, <3>4, <3>6, <3>7 DEF Follow
  <2> QED
    BY <1>6, <2>1
<1>7. ASSUME k > size PROVE FALSE
  <2> DEFINE first == [i \in 0..size |-> target[i]]
  <2>1. first \in [0..size -> Path] /\ \A i \in 0..size : first[i] = target[i]
    BY <1>4, TargetDef
  <2> HIDE DEF first
  <2>2. IsFiniteSet(0..size) /\ Cardinality(Path) < Cardinality(0..size)
    BY <1>4, FS_Interval
  <2>3. \E i, j \in 0..size : i # j /\ first[i] = first[j]
    <3>1. IsFiniteSet(Path)
      BY SolverAssumption
    <3> DEFINE dom == 0..size
    <3>2. IsFiniteSet(dom) /\ Cardinality(Path) < Cardinality(dom) /\ first \in [dom -> Path]
      BY <2>1, <2>2
    <3> HIDE DEF dom
    <3>3. \E i, j \in dom : i # j /\ first[i] = first[j]
      BY <3>1, <3>2, FS_PigeonHole
    <3> QED
      BY <3>3 DEF dom
  <2>4. PICK i \in 0..size, j \in 0..size : i < j /\ target[i] = target[j]
    BY <1>4, <2>1, <2>3
  <2>5. /\ i \in Nat /\ j \in Nat /\ k - j \in Nat /\ i + (k - j) \in Nat
        /\ j + (k - j) = k /\ ~ (k <= i + (k - j))
    BY <1>3, <1>4, <1>7, <2>4
  <2>6. target[i + (k - j)] = target[j + (k - j)]
    BY <2>4, <2>5, LinksRepeat
  <2>7. i + (k - j) \in ends
    BY <1>3, <2>5, <2>6
  <2> HIDE DEF ends
  <2> QED
    BY <1>2, <2>5, <2>7
<1>8. target[size] = target[k]
  BY <1>3, <1>4, <1>6, <1>7
<1> QED
  BY <1>3, <1>6, <1>8

LEMMA SameTarget == UNCHANGED <<files, asked>> => target' = target
BY DEF target

LEMMA TargetStart == TypeOK /\ asked # None => target[0] = asked
BY TargetDef

LEMMA TargetStartNext == (TypeOK /\ asked # None => target[0] = asked)'
BY TargetStart, PTL

\* The path being read is one the links lead to, and what was read is its content.
ReadInv ==
  /\ pc \in {"wait", "start", "select", "logs"} => asked = None
  /\ asked # None /\ pc \in {"pull", "create", "read"} => \E k \in Nat : at = target[k]
  /\ asked # None /\ result.status \in {"ok", "not_found"} =>
       \E k \in Nat :
         /\ at = target[k] /\ files[at].kind # "link"
         /\ result.status = "ok" => result.out = at /\ files[at].kind = "regular"
         /\ result.status = "not_found" => files[at].kind \in {"absent", "directory"}

LEMMA ReadInit == Init => ReadInv
BY DEF Init, ReadInv, NoResult

LEMMA ReadNext == TypeInv /\ TypeInv' /\ RunInv /\ ReadInv /\ [Next]_vars => ReadInv'
<1> SUFFICES ASSUME TypeInv, TypeInv', RunInv, ReadInv, [Next]_vars PROVE ReadInv'
  OBVIOUS
<1> USE DEF ReadInv
<1>0. TypeOK /\ TypeOK' /\ (pc = "read" => at \in Path /\ asked # None)
  BY DEF TypeInv, CallInv
<1>1. CASE Call
  <2>1. /\ at' = asked' /\ result'.status = "none" /\ pc' = "pull"
    BY <1>1 DEF Call, NoResult
  <2>2. ASSUME asked' # None PROVE target'[0] = asked'
    BY <1>0, <2>2, TargetStartNext
  <2> QED
    BY <2>1, <2>2
<1>2. CASE UNCHANGED <<files, asked, at, result>> /\ pc' \in {pc, "idle", "remove"}
  BY <1>2, SameTarget
<1>3. CASE PullImage \/ FailEarly
  BY <1>3, SameTarget DEF PullImage, FailEarly, Return, daemon, local
<1>4. CASE CreateContainer
  BY <1>4, SameTarget DEF CreateContainer, local
<1>5. CASE RegisterWait \/ RegisterFails \/ StartContainer \/ StartFails \/ AwaitExit \/ FetchLogs
  <2>1. UNCHANGED <<files, asked>> /\ asked = None /\ pc' \in {"start", "select", "logs", "remove"}
    BY <1>5 DEF RegisterWait, RegisterFails, StartContainer, StartFails, AwaitExit, FetchLogs,
                daemon, local
  <2> QED
    BY <2>1
<1>6. CASE FollowLink
  <2>1. /\ UNCHANGED <<files, asked, pc, result>> /\ pc = "read" /\ asked # None
        /\ at' = Follow(at)
    BY <1>0, <1>6 DEF FollowLink, daemon, Follow
  <2>2. PICK k \in Nat : at = target[k]
    BY <2>1
  <2>3. at' = target[k + 1] /\ k + 1 \in Nat
    BY <1>0, <2>1, <2>2, TargetDef
  <2>4. target' = target /\ result.status = "none"
    BY <2>1, SameTarget DEF RunInv, NoResult
  <2> QED
    BY <2>1, <2>3, <2>4
<1>7. CASE ReadEntry
  <2>1. /\ UNCHANGED <<files, asked, at>> /\ pc = "read" /\ pc' = "remove" /\ asked # None
        /\ files[at].kind # "link"
    BY <1>0, <1>7 DEF ReadEntry, daemon
  <2>2. files[at].kind \in Kinds
    BY <1>0, <2>1, SolverAssumption DEF TypeOK, Entry
  <2>3. /\ result'.status = "ok" => result'.out = at /\ files[at].kind = "regular"
        /\ result'.status = "not_found" => files[at].kind \in {"absent", "directory"}
    BY <1>7, <2>1, <2>2 DEF ReadEntry, Return, Kinds
  <2>4. target' = target /\ \E k \in Nat : at = target[k]
    BY <2>1, SameTarget
  <2> QED
    BY <2>1, <2>3, <2>4
<1>8. CASE CopyFails
  BY <1>8, SameTarget DEF CopyFails, Return, daemon
<1>9. CASE RemoveContainer \/ RemoveFails
  BY <1>2, <1>9 DEF RemoveContainer, RemoveFails, daemon, local
<1>10. CASE Kill
  BY <1>10 DEF Kill, NoResult
<1>11. CASE ContainerExits \/ WaitBreaks
  BY <1>2, <1>11 DEF ContainerExits, WaitBreaks, daemon
<1>12. CASE UNCHANGED vars
  BY <1>2, <1>12 DEF vars
<1> QED
  BY <1>1, <1>3, <1>4, <1>5, <1>6, <1>7, <1>8, <1>9, <1>10, <1>11, <1>12
  DEF Next, Shared, Exec, Read

LEMMA ReadEnough == TypeOK /\ ReadInv => ReadIsRight
<1> SUFFICES ASSUME TypeOK, ReadInv, asked # None, result.status \in {"ok", "not_found"}
             PROVE  IF result.status = "ok"
                    THEN /\ result.out = target[Cardinality(Path)]
                         /\ files[target[Cardinality(Path)]].kind = "regular"
                    ELSE files[target[Cardinality(Path)]].kind \in {"absent", "directory"}
  BY DEF ReadIsRight
<1>1. PICK k \in Nat :
        /\ at = target[k] /\ files[at].kind # "link"
        /\ result.status = "ok" => result.out = at /\ files[at].kind = "regular"
        /\ result.status = "not_found" => files[at].kind \in {"absent", "directory"}
  BY DEF ReadInv
<1>2. target[Cardinality(Path)] = at
  BY <1>1, LinksEnd
<1> QED
  BY <1>1, <1>2

\* What is read is the regular file at the end of the links, and only a path whose
\* links end at nothing readable is not found, for any tree: links in a circle, on
\* which a call never returns, included.
THEOREM ReadsAreRight == Spec => []ReadIsRight
<1>1. Spec => []ReadInv
  BY SolverInv, TypeInit, ReadInit, ReadNext, PTL DEF Spec
<1>2. TypeInv => TypeOK
  BY DEF TypeInv
<1> QED
  BY <1>1, <1>2, SolverInv, ReadEnough, PTL
=============================================================================
