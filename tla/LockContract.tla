---------------------------- MODULE LockContract ----------------------------
(***************************************************************************)
(* What the lockfile promises, with no file, no hash and no stage: updates *)
(* publish sets of locks, each resolved by one run, for one definition and *)
(* against one base image, and a build either uses one published set, that *)
(* of its own definition, or is refused.                                   *)
(***************************************************************************)
EXTENDS Naturals

CONSTANTS Def, Digest, Builder

VARIABLES
  published, \* the sets of locks published so far
  verdict    \* [Builder -> a verdict]

cvars == <<published, verdict>>

LockSet == [run : Nat, def : Def, image : Digest]

Pending == [is |-> "pending"]
Refused == [is |-> "refused"]
\* A build of def from the locks of one update.
Accepted(def, locks) == [is |-> "accepted", def |-> def, locks |-> locks]

Verdict == {Pending, Refused} \cup {Accepted(d, l) : d \in Def, l \in LockSet}

ContractTypeOK ==
  /\ published \subseteq LockSet
  /\ verdict \in [Builder -> Verdict]

ContractInit ==
  /\ published = {}
  /\ verdict = [b \in Builder |-> Pending]

\* The run of an update is its own: runs are published in order, once each.
Publish ==
  /\ \E l \in published' \ published :
       /\ l \in LockSet /\ \A p \in published : p.run < l.run
       /\ published' = published \cup {l}
  /\ UNCHANGED verdict

Accept(b) ==
  /\ verdict[b] = Pending
  /\ \E l \in published : verdict' = [verdict EXCEPT ![b] = Accepted(l.def, l)]
  /\ UNCHANGED published

Refuse(b) ==
  /\ verdict[b] = Pending
  /\ verdict' = [verdict EXCEPT ![b] = Refused]
  /\ UNCHANGED published

Retry(b) ==
  /\ verdict' = [verdict EXCEPT ![b] = Pending]
  /\ UNCHANGED published

ContractNext == Publish \/ \E b \in Builder : Accept(b) \/ Refuse(b) \/ Retry(b)

ContractSpec == ContractInit /\ [][ContractNext]_cvars
=============================================================================
