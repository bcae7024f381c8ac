------------------------- MODULE PackageSolverProofs -------------------------
(***************************************************************************)
(* Proofs about ResolveVersions, for any packages, requests and            *)
(* repositories: that a version is always locked for a package asked for,  *)
(* whatever the manager; which versions are locked, for APT and for    *)
(* APK when it honours the pins; and when APT reports a package as missing.*)
(***************************************************************************)
EXTENDS PackageSolver, FiniteSetTheorems, WellFoundedInduction, TLAPS

\* The repositories of APK have one version of a package, which a stage may pin (see
\* packages_apk_pins.cfg for other pins).
PinsHonoured ==
  \A i \in Inputs : i[1] = "apk" =>
    \A p \in DOMAIN i[2] :
      /\ Len(i[3][p]) <= 1
      /\ i[2][p] = Any \/ i[3][p] \in {<<>>, <<i[2][p]>>}

In(p, seq) == \E i \in DOMAIN seq : seq[i] = p

-----------------------------------------------------------------------------
(* The helpers of the model.                                               *)

LEMMA RequestsAreFinite ==
  ASSUME input \in Inputs
  PROVE  /\ manager \in {"apt", "apk"}
         /\ Names(request) \subseteq Package /\ IsFiniteSet(Names(request))
         /\ request \in [Names(request) -> Constraint]
         /\ repository \in [Package -> Seq(Version)]
<1>1. /\ manager \in {"apt", "apk"}
      /\ DOMAIN request \subseteq Package
      /\ request \in [DOMAIN request -> Constraint]
      /\ repository \in [Package -> Seq(Version)]
  <2>1. input[1] = manager /\ input[2] = request /\ input[3] = repository
    BY DEF input
  <2> QED
    BY <2>1, PackageAssumption
<1> QED
  BY <1>1, PackageAssumption, FS_Subset DEF Names

LEMMA OrdersAreSequences ==
  ASSUME NEW S, IsFiniteSet(S), NEW o \in Orders(S)
  PROVE  o \in Seq(S)
<1>1. Cardinality(S) \in Nat
  BY FS_CardinalityType
<1>2. o \in [1..Cardinality(S) -> S]
  BY DEF Orders
<1> QED
  BY <1>1, <1>2

\* The command is given every name: an injection from as many numbers is onto.
LEMMA OrdersAreComplete ==
  ASSUME NEW S, IsFiniteSet(S), NEW o \in Orders(S), NEW p \in S
  PROVE  In(p, o)
<1> DEFINE N == 1..Cardinality(S)
<1>1. Cardinality(S) \in Nat
  BY FS_CardinalityType
<1>2. /\ o \in [N -> S]
      /\ \A i, j \in N : o[i] = o[j] => i = j
  BY DEF Orders
<1>3. o \in Injection(N, S)
  BY <1>2 DEF Injection, IsInjective
<1>4. Cardinality(N) = Cardinality(S)
  BY <1>1, FS_Interval
<1>5. o \in Surjection(N, S)
  BY <1>3, <1>4, FS_Injection
<1> QED
  BY <1>2, <1>5 DEF Surjection, In

LEMMA LeastNatural ==
  ASSUME NEW T \in SUBSET Nat, T # {}
  PROVE  \E i \in T : \A j \in T : i <= j
<1> DEFINE Less == OpToRel(<, Nat)
<1>1. \E i \in T : \A j \in T : <<j, i>> \notin Less
  BY NatLessThanWellFounded, WFMin
<1>2. ASSUME NEW i \in Nat, NEW j \in Nat, j < i PROVE <<j, i>> \in Less
  <2> DEFINE ss == <<j, i>>
  <2>1. ss \in Nat \X Nat /\ ss[1] < ss[2]
    BY <1>2
  <2> QED
    BY <2>1, Zenon DEF OpToRel
<1> HIDE DEF Less
<1>3. ASSUME NEW i \in T, NEW j \in T, ~ (j < i) PROVE i <= j
  BY <1>3
<1> QED
  BY <1>1, <1>2, <1>3

\* The alternative of APK's expression that matches exists, and is the first one.
LEMMA MatchedIsFirst ==
  ASSUME NEW S, arguments \in Seq(S), NEW p, In(p, arguments)
  PROVE  /\ In(Matched(p), arguments)
         /\ Matched(p) \in S
         /\ Matched(p) = p \/ <<Matched(p), p>> \in Extends
<1> DEFINE fits == {i \in DOMAIN arguments : \/ arguments[i] = p
                                             \/ <<arguments[i], p>> \in Extends}
           first == CHOOSE i \in fits : \A j \in fits : i <= j
<1>1. fits \in SUBSET Nat
  OBVIOUS
<1>2. fits # {}
  BY DEF In
<1>3. \E i \in fits : \A j \in fits : i <= j
  BY <1>1, <1>2, LeastNatural
<1>4. first \in fits
  BY <1>3
<1>5. Matched(p) = arguments[first]
  BY DEF Matched
<1> HIDE DEF first
<1> QED
  BY <1>4, <1>5 DEF In

LEMMA Consumed ==
  ASSUME NEW S, NEW seq \in Seq(S), seq # <<>>
  PROVE  /\ Tail(seq) \in Seq(S) /\ Head(seq) \in S /\ In(Head(seq), seq)
         /\ \A p : In(p, seq) <=> p = Head(seq) \/ In(p, Tail(seq))
<1>1. Tail(seq) \in Seq(S) /\ Head(seq) = seq[1] /\ Head(seq) \in S
  OBVIOUS
<1>2. /\ Len(seq) \in Nat /\ Len(seq) >= 1
      /\ DOMAIN seq = 1..Len(seq) /\ DOMAIN Tail(seq) = 1..(Len(seq) - 1)
      /\ \A i \in 1..(Len(seq) - 1) : Tail(seq)[i] = seq[i + 1]
  OBVIOUS
<1>3. In(Head(seq), seq)
  BY <1>1, <1>2 DEF In
<1>4. ASSUME NEW p, In(p, seq) PROVE p = Head(seq) \/ In(p, Tail(seq))
  <2>1. PICK i \in 1..Len(seq) : seq[i] = p
    BY <1>2, <1>4 DEF In
  <2>2. CASE i = 1
    BY <1>1, <2>1, <2>2
  <2>3. CASE i # 1
    <3>1. i - 1 \in 1..(Len(seq) - 1) /\ (i - 1) + 1 = i
      BY <1>2, <2>3
    <3>2. Tail(seq)[i - 1] = p
      BY <1>2, <2>1, <3>1
    <3> QED
      BY <1>2, <3>1, <3>2 DEF In
  <2> QED
    BY <2>2, <2>3
<1>5. ASSUME NEW p, In(p, Tail(seq)) PROVE In(p, seq)
  <2>1. PICK i \in 1..(Len(seq) - 1) : Tail(seq)[i] = p
    BY <1>2, <1>5 DEF In
  <2>2. i + 1 \in 1..Len(seq) /\ seq[i + 1] = p
    BY <1>2, <2>1
  <2> QED
    BY <1>2, <2>2 DEF In
<1> QED
  BY <1>1, <1>3, <1>4, <1>5

-----------------------------------------------------------------------------
(* Types.  What is read from the output was given to the command.          *)

TypeInv ==
  /\ TypeOK
  /\ \A p : In(p, output) => In(p, arguments)
  /\ pc = "split" => output = <<>>

LEMMA SetTyped ==
  ASSUME NEW S, NEW V, DOMAIN resolved \subseteq S, resolved \in [DOMAIN resolved -> V],
         NEW p \in S, NEW v \in V, Set(p, v)
  PROVE  DOMAIN resolved' \subseteq S /\ resolved' \in [DOMAIN resolved' -> V]
BY DEF Set

LEMMA TypeInit == Init => TypeInv
<1> SUFFICES ASSUME Init PROVE TypeInv
  OBVIOUS
<1>1. input \in Inputs
  <2>1. PICK i \in Inputs : manager = i[1] /\ request = i[2] /\ repository = i[3]
    BY DEF Init
  <2> QED
    BY <2>1, PackageAssumption DEF input
<1> QED
  BY <1>1 DEF Init, TypeInv, TypeOK, In, Names

LEMMA TypeSplit == TypeInv /\ Split => TypeInv'
<1> SUFFICES ASSUME TypeInv, Split PROVE TypeInv'
  OBVIOUS
<1> USE DEF TypeInv
<1>1. /\ Names(request) \subseteq Package /\ IsFiniteSet(Names(request))
      /\ request \in [Names(request) -> Constraint]
  BY RequestsAreFinite DEF TypeOK
<1>2. ToResolve \subseteq Names(request) /\ IsFiniteSet(ToResolve)
  BY <1>1, FS_Subset DEF ToResolve
<1>3. arguments' \in Seq(Names(request))
  <2>1. arguments' \in Seq(ToResolve)
    BY <1>2, OrdersAreSequences DEF Split
  <2> QED
    BY <2>1, <1>2
<1>4. resolved' \in [Pinned -> Version] /\ Pinned \subseteq Names(request)
  <2>1. \A p \in Pinned : request[p] \in Version
    BY <1>1 DEF Pinned, Constraint
  <2> QED
    BY <2>1 DEF Split, Pinned
<1>5. output = output' /\ \A p : ~ In(p, output')
  <2>1. output = <<>>
    BY DEF Split
  <2> QED
    BY <2>1 DEF Split, In
<1> QED
  BY <1>3, <1>4, <1>5 DEF Split, TypeOK, input, Names

LEMMA TypeNext == TypeInv /\ [Next]_vars => TypeInv'
<1> SUFFICES ASSUME TypeInv, [Next]_vars PROVE TypeInv'
  OBVIOUS
<1> USE DEF TypeInv
<1>1. /\ input \in Inputs
      /\ arguments \in Seq(Names(request)) /\ output \in Seq(Names(request))
      /\ DOMAIN resolved \subseteq Names(request)
      /\ resolved \in [DOMAIN resolved -> Version \cup {Mangled}]
      /\ \A p : In(p, output) => In(p, arguments)
      /\ Names(request) \subseteq Package /\ repository \in [Package -> Seq(Version)]
  BY RequestsAreFinite DEF TypeOK
<1>2. CASE Exec \/ ExecUnknown
  BY <1>2 DEF Exec, ExecUnknown, TypeOK, input, Names
<1>3. CASE ExecKilled
  <2>1. PICK n \in 0..Len(arguments) : output' = SubSeq(arguments, 1, n)
    BY <1>3 DEF ExecKilled
  <2>2. output' \in Seq(Names(request)) /\ Len(output') = n
    BY <1>1, <2>1
  <2>3. \A i \in 1..n : i \in DOMAIN arguments /\ output'[i] = arguments[i]
    BY <1>1, <2>1
  <2>4. \A p : In(p, output') => In(p, arguments)
    BY <2>2, <2>3 DEF In
  <2> QED
    BY <1>3, <2>2, <2>4 DEF ExecKilled, TypeOK, input, Names
<1>4. ASSUME ParseMadison \/ ParseInfo
      PROVE  /\ output' \in Seq(Names(request))
             /\ Head(output) \in Names(request) /\ In(Head(output), arguments)
             /\ \A p : In(p, output') => In(p, arguments)
  <2>1. output # <<>> /\ output' = Tail(output)
    BY <1>4 DEF ParseMadison, ParseInfo
  <2> QED
    BY <1>1, <2>1, Consumed, Zenon
<1>5. ASSUME ParseMadison \/ ParseInfo,
             DOMAIN resolved' \subseteq Names(request),
             resolved' \in [DOMAIN resolved' -> Version \cup {Mangled}]
      PROVE  TypeInv'
  BY <1>4, <1>5 DEF ParseMadison, ParseInfo, TypeOK, input, Names
<1>6. CASE ParseMadison
  <2> DEFINE p == Head(output)  versions == repository[p]
  <2>1. versions # <<>> => versions[1] \in Version
    BY <1>1, <1>4, <1>6
  <2>2. p \in Names(request)
    BY <1>4, <1>6
  <2>3. UNCHANGED resolved \/ (versions # <<>> /\ Set(p, versions[1]))
    BY <1>6 DEF ParseMadison
  <2>4. /\ DOMAIN resolved' \subseteq Names(request)
        /\ resolved' \in [DOMAIN resolved' -> Version \cup {Mangled}]
    <3>1. UNCHANGED resolved \/ \E v \in Version \cup {Mangled} : Set(p, v)
      BY <2>1, <2>3
    <3> QED
      BY <1>1, <2>2, <3>1, SetTyped
  <2> QED
    BY <1>5, <1>6, <2>4
<1>7. CASE ParseInfo
  <2> DEFINE p == Head(output)  versions == repository[p]
  <2>1. versions \in Seq(Version) /\ \A i \in DOMAIN versions : versions[i] \in Version
    BY <1>1, <1>4, <1>7
  <2>2. Matched(p) \in Names(request)
    BY <1>1, <1>4, <1>7, MatchedIsFirst
  <2>3. \/ UNCHANGED resolved
        \/ \E i \in DOMAIN versions :
             Set(Matched(p), IF Matched(p) = p THEN versions[i] ELSE Mangled)
    BY <1>7 DEF ParseInfo
  <2>4. UNCHANGED resolved \/ \E v \in Version \cup {Mangled} : Set(Matched(p), v)
    BY <2>1, <2>3
  <2>5. /\ DOMAIN resolved' \subseteq Names(request)
        /\ resolved' \in [DOMAIN resolved' -> Version \cup {Mangled}]
    BY <1>1, <2>2, <2>4, SetTyped
  <2> QED
    BY <1>5, <1>7, <2>5
<1>8. CASE ExecFails \/ ExecNoLogs \/ ParseFails \/ EndOfOutput \/ CheckMissingPackages
  BY <1>8
  DEF ExecFails, ExecNoLogs, ParseFails, EndOfOutput, CheckMissingPackages, TypeOK, input, Names
<1>9. CASE UNCHANGED vars
  BY <1>9 DEF vars, TypeOK, input, Names
<1> QED
  BY <1>2, <1>3, <1>6, <1>7, <1>8, <1>9, TypeSplit DEF Next

\* Whatever the manager prints, the versions locked are those of packages asked
\* for, and a name is always found for a line of APK's output.
THEOREM TypeCorrect == Spec => []TypeOK
<1>1. Spec => []TypeInv
  BY TypeInit, TypeNext, PTL DEF Spec
<1>2. TypeInv => TypeOK
  BY DEF TypeInv
<1> QED
  BY <1>1, <1>2, PTL

-----------------------------------------------------------------------------
(* The versions that are locked.                                           *)

\* What p is locked with when it is, if nothing is mistaken for it.
Right(p, version) ==
  Distinct(p) => IF p \in Pinned THEN version = request[p]
                 ELSE repository[p] # <<>> /\ version = repository[p][1]

\* The pins are set before the command runs and only themselves overwrite them;
\* whatever else is resolved is the first version of its package.
ResolvedInv ==
  /\ TypeInv
  /\ pc # "split" => Pinned \subseteq DOMAIN resolved
  /\ \A p \in DOMAIN resolved : Right(p, resolved[p])
  /\ outcome = "ok" => pc = "done" /\ Names(request) \subseteq DOMAIN resolved

LEMMA ResolvedInit == Init => ResolvedInv
BY TypeInit DEF Init, ResolvedInv

\* What the parsers add.
LEMMA ParsersAdd ==
  ASSUME PinsHonoured, ResolvedInv, ParseMadison \/ ParseInfo
  PROVE  \/ UNCHANGED resolved
         \/ \E p \in Names(request) : \E v : Set(p, v) /\ Right(p, v)
<1> DEFINE p == Head(output)  versions == repository[p]
<1>1. /\ input \in Inputs /\ arguments \in Seq(Names(request))
      /\ Names(request) \subseteq Package /\ repository \in [Package -> Seq(Version)]
  BY RequestsAreFinite DEF ResolvedInv, TypeInv, TypeOK
<1>2. p \in Names(request) /\ In(p, arguments)
  <2>1. output \in Seq(Names(request)) /\ output # <<>>
    BY DEF ResolvedInv, TypeInv, TypeOK, ParseMadison, ParseInfo
  <2>2. p \in Names(request) /\ In(p, output)
    BY <2>1, Consumed, Zenon
  <2> QED
    BY <2>2 DEF ResolvedInv, TypeInv
<1>3. CASE ParseMadison
  <2>1. \/ UNCHANGED resolved
        \/ p \notin DOMAIN resolved /\ versions # <<>> /\ Set(p, versions[1])
    BY <1>3 DEF ParseMadison
  <2>2. p \notin DOMAIN resolved => p \notin Pinned
    BY <1>3 DEF ResolvedInv, ParseMadison
  <2> QED
    BY <1>2, <2>1, <2>2 DEF Right
<1>4. CASE ParseInfo
  <2> DEFINE name == Matched(p)
  <2>1. /\ Len(versions) <= 1
        /\ request[p] = Any \/ versions \in {<<>>, <<request[p]>>}
    <3>1. manager = "apk"
      BY <1>4 DEF ParseInfo
    <3>2. input[1] = manager /\ input[2] = request /\ input[3] = repository
      BY DEF input
    <3> QED
      BY <1>1, <1>2, <3>1, <3>2 DEF PinsHonoured, Names
  <2>2. name \in Names(request) /\ (name = p \/ <<name, p>> \in Extends)
    BY <1>1, <1>2, MatchedIsFirst
  <2>3. Distinct(name) => name = p
    BY <1>2, <1>4, <2>2 DEF Distinct, ParseInfo
  <2>4. CASE UNCHANGED resolved
    BY <2>4
  <2>5. CASE resolved' # resolved
    <3>1. PICK i \in DOMAIN versions :
            Set(name, IF name = p THEN versions[i] ELSE Mangled)
      BY <1>4, <2>5 DEF ParseInfo
    <3>2. versions # <<>> /\ versions[i] = versions[1]
      <4>1. versions \in Seq(Version)
        BY <1>1, <1>2
      <4> QED
        BY <2>1, <3>1, <4>1
    <3>3. p \in Pinned => versions[1] = request[p]
      BY <2>1, <3>2 DEF Pinned
    <3>4. Right(name, IF name = p THEN versions[i] ELSE Mangled)
      BY <2>3, <3>2, <3>3 DEF Right
    <3> QED
      BY <2>2, <3>1, <3>4
  <2> QED
    BY <2>4, <2>5
<1> QED
  BY <1>3, <1>4

LEMMA SetKeeps ==
  ASSUME NEW p \in Names(request), NEW v, Set(p, v), Right(p, v),
         Pinned \subseteq DOMAIN resolved,
         \A q \in DOMAIN resolved : Right(q, resolved[q])
  PROVE  /\ Pinned \subseteq DOMAIN resolved'
         /\ \A q \in DOMAIN resolved' : Right(q, resolved'[q])
<1>1. /\ DOMAIN resolved' = DOMAIN resolved \cup {p}
      /\ resolved'[p] = v
      /\ \A q \in DOMAIN resolved : q # p => resolved'[q] = resolved[q]
  BY DEF Set
<1> QED
  BY <1>1

LEMMA ResolvedNext == PinsHonoured /\ ResolvedInv /\ [Next]_vars => ResolvedInv'
<1> SUFFICES ASSUME PinsHonoured, ResolvedInv, [Next]_vars PROVE ResolvedInv'
  OBVIOUS
<1>1. TypeInv'
  BY TypeNext DEF ResolvedInv
<1>2. input' = input => /\ Pinned' = Pinned /\ Names(request)' = Names(request)
                        /\ \A p, v : Right(p, v)' <=> Right(p, v)
  BY DEF input, Pinned, Names, Right, Distinct
<1>3. CASE Split
  <2>1. /\ input' = input /\ DOMAIN resolved' = Pinned
        /\ \A p \in Pinned : resolved'[p] = request[p]
    BY <1>3 DEF Split
  <2>2. outcome' = "ok" => pc' = "done" /\ Names(request) \subseteq Pinned
    BY <1>3 DEF Split, ToResolve, ResolvedInv
  <2>3. \A p \in Pinned : Right(p, resolved'[p])
    BY <2>1 DEF Right
  <2> QED
    BY <1>1, <1>2, <2>1, <2>2, <2>3 DEF ResolvedInv
<1>4. CASE Exec \/ ExecFails \/ ExecUnknown \/ ExecKilled \/ ExecNoLogs
  <2>1. /\ UNCHANGED <<input, resolved>> /\ pc = "exec"
        /\ UNCHANGED outcome \/ outcome' \in {"error", "crash"}
    BY <1>4 DEF Exec, ExecFails, ExecUnknown, ExecKilled, ExecNoLogs
  <2> QED
    BY <1>1, <1>2, <2>1 DEF ResolvedInv
<1>5. CASE ParseMadison \/ ParseInfo
  <2>1. UNCHANGED <<input, pc, outcome>> /\ pc = "parse"
    BY <1>5 DEF ParseMadison, ParseInfo
  <2>2. /\ Pinned \subseteq DOMAIN resolved'
        /\ \A q \in DOMAIN resolved' : Right(q, resolved'[q])
    BY <1>5, <2>1, ParsersAdd, SetKeeps DEF ResolvedInv
  <2>3. outcome # "ok"
    BY <2>1 DEF ResolvedInv
  <2> QED
    BY <1>1, <1>2, <2>1, <2>2, <2>3 DEF ResolvedInv
<1>6. CASE ParseFails \/ EndOfOutput
  <2>1. UNCHANGED <<input, resolved, outcome>> /\ pc = "parse"
    BY <1>6 DEF ParseFails, EndOfOutput
  <2> QED
    BY <1>1, <1>2, <2>1 DEF ResolvedInv
<1>7. CASE CheckMissingPackages
  <2>1. /\ UNCHANGED <<input, resolved>> /\ pc = "check" /\ pc' = "done"
        /\ outcome' = "ok" => Names(request) \subseteq DOMAIN resolved
    BY <1>7 DEF CheckMissingPackages
  <2> QED
    BY <1>1, <1>2, <2>1 DEF ResolvedInv
<1>8. CASE UNCHANGED vars
  <2>1. UNCHANGED <<input, resolved, pc, outcome>>
    BY <1>8 DEF vars, input
  <2> QED
    BY <1>1, <1>2, <2>1 DEF ResolvedInv
<1> QED
  BY <1>3, <1>4, <1>5, <1>6, <1>7, <1>8 DEF Next

LEMMA ResolvedIsAsked == ResolvedInv => LocksWhatWasAsked
BY DEF ResolvedInv, TypeInv, TypeOK, LocksWhatWasAsked, Right

\* Whatever the stages ask for and the repositories hold, the versions locked by
\* the APT solver, and by the APK one when pins are honoured, are the pins, and the
\* newest one available for every wildcard: a killed command, lost logs or an
\* expression that does not compile may cost an error and never a wrong version.
THEOREM SolversLockWhatWasAsked ==
  ASSUME PinsHonoured
  PROVE  Spec => []LocksWhatWasAsked
<1>1. Spec => []ResolvedInv
  BY ResolvedInit, ResolvedNext, PTL DEF Spec
<1> QED
  BY <1>1, ResolvedIsAsked, PTL

-----------------------------------------------------------------------------
(* What is reported as missing.                                            *)

\* A wildcard is read from the output, resolved or without a version.
Served(p) == p \in DOMAIN resolved \/ repository[p] = <<>>

MissingInv ==
  /\ TypeInv
  /\ manager = "apt" /\ pc # "split" => Pinned \subseteq DOMAIN resolved
  /\ manager = "apt" /\ pc = "exec" => \A p \in ToResolve : In(p, arguments)
  /\ manager = "apt" /\ pc = "parse" => \A p \in ToResolve : In(p, output) \/ Served(p)
  /\ manager = "apt" /\ pc = "check" => \A p \in ToResolve : Served(p)
  /\ MissingIsUnavailable

LEMMA MissingInit == Init => MissingInv
BY TypeInit DEF Init, MissingInv, MissingIsUnavailable

LEMMA MissingNext == MissingInv /\ [Next]_vars => MissingInv'
<1> SUFFICES ASSUME MissingInv, [Next]_vars PROVE MissingInv'
  OBVIOUS
<1>1. TypeInv'
  BY TypeNext DEF MissingInv
<1>2. /\ input' = input => /\ manager' = manager /\ repository' = repository
                           /\ Pinned' = Pinned /\ ToResolve' = ToResolve
                           /\ request' = request /\ Names(request)' = Names(request)
      /\ manager = "apt" => ToResolve = Names(request) \ Pinned
  BY DEF input, Pinned, ToResolve, Names
<1>3. CASE Split
  <2>1. /\ input' = input /\ DOMAIN resolved' = Pinned /\ pc' \in {"done", "exec"}
        /\ arguments' \in Orders(ToResolve)
        /\ outcome' = "missing" => outcome = "missing"
    BY <1>3 DEF Split
  <2>2. IsFiniteSet(ToResolve)
    BY RequestsAreFinite, FS_Subset DEF MissingInv, TypeInv, TypeOK, ToResolve
  <2>3. \A p \in ToResolve : In(p, arguments')
    BY <2>1, <2>2, OrdersAreComplete
  <2> QED
    BY <1>1, <1>2, <2>1, <2>3 DEF MissingInv, MissingIsUnavailable
<1>4. CASE Exec
  BY <1>1, <1>2, <1>4 DEF Exec, MissingInv, MissingIsUnavailable
<1>5. CASE ExecFails \/ ExecUnknown \/ ExecKilled \/ ExecNoLogs \/ ParseFails
  BY <1>1, <1>2, <1>5
  DEF ExecFails, ExecUnknown, ExecKilled, ExecNoLogs, ParseFails, MissingInv, MissingIsUnavailable, input
<1>6. CASE ParseInfo
  <2>1. /\ manager = "apk" /\ UNCHANGED <<input, pc, outcome>> 
    BY <1>6 DEF ParseInfo
  <2> QED
    BY <1>1, <1>2, <2>1 DEF MissingInv, MissingIsUnavailable
<1>7. CASE ParseMadison
  <2> DEFINE p == Head(output)
  <2>1. /\ UNCHANGED <<input, pc, outcome>> /\ pc = "parse"
        /\ output # <<>> /\ output' = Tail(output)
    BY <1>7 DEF ParseMadison
  <2>2. \A q : In(q, output) => q = p \/ In(q, output')
    <3>1. output \in Seq(Names(request))
      BY DEF MissingInv, TypeInv, TypeOK
    <3> QED
      BY <2>1, <3>1, Consumed, Zenon
  <2>3. /\ DOMAIN resolved \subseteq DOMAIN resolved'
        /\ p \in DOMAIN resolved' \/ repository[p] = <<>>
    BY <1>7 DEF ParseMadison, Set
  <2>4. \A q : q = p \/ Served(q) => Served(q)'
    BY <1>2, <2>1, <2>3 DEF Served
  <2> QED
    BY <1>1, <1>2, <2>1, <2>2, <2>3, <2>4 DEF MissingInv, MissingIsUnavailable
<1>8. CASE EndOfOutput
  <2>1. /\ UNCHANGED <<input, resolved, outcome>> /\ pc = "parse" /\ pc' = "check"
        /\ \A p : ~ In(p, output)
    BY <1>8 DEF EndOfOutput, In
  <2>2. \A p : Served(p) => Served(p)'
    BY <1>2, <2>1 DEF Served
  <2> QED
    BY <1>1, <1>2, <2>1, <2>2 DEF MissingInv, MissingIsUnavailable
<1>9. CASE CheckMissingPackages
  <2>1. /\ UNCHANGED <<input, resolved>> /\ pc = "check" /\ pc' = "done"
        /\ Names(request) \subseteq DOMAIN resolved => outcome' = "ok"
    BY <1>9 DEF CheckMissingPackages
  <2>2. ASSUME manager = "apt", outcome' = "missing"
        PROVE  \E p \in Names(request) \ Pinned : repository[p] = <<>>
    <3>1. PICK p \in Names(request) : p \notin DOMAIN resolved
      BY <2>1, <2>2
    <3>2. p \notin Pinned /\ Served(p)
      BY <1>2, <2>1, <2>2, <3>1 DEF MissingInv
    <3> QED
      BY <3>1, <3>2 DEF Served
  <2> QED
    BY <1>1, <1>2, <2>1, <2>2 DEF MissingInv, MissingIsUnavailable
<1>10. CASE UNCHANGED vars
  <2>1. UNCHANGED <<input, arguments, output, resolved, pc, outcome>>
    BY <1>10 DEF vars, input
  <2> QED
    BY <1>1, <1>2, <2>1 DEF MissingInv, MissingIsUnavailable, Served, In
<1> QED
  BY <1>3, <1>4, <1>5, <1>6, <1>7, <1>8, <1>9, <1>10 DEF Next

\* The APT solver never reports packages as missing while the repository has a
\* version of every wildcard: the command is given every one of them, and the
\* output is read to its end.
THEOREM APTMissesOnlyTheUnavailable == Spec => []MissingIsUnavailable
<1>1. Spec => []MissingInv
  BY MissingInit, MissingNext, PTL DEF Spec
<1>2. MissingInv => MissingIsUnavailable
  BY DEF MissingInv
<1> QED
  BY <1>1, <1>2, PTL
=============================================================================
