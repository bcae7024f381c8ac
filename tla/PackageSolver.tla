---------------------------- MODULE PackageSolver ----------------------------
(***************************************************************************)
(* ResolveVersions, which locks the versions of the system packages of a   *)
(* stage, for the two package managers: it splits what it was asked for in *)
(* pins and wildcards, runs one command in the base image, reads the       *)
(* versions from its output, and reports the packages left without one.    *)
(*                                                                         *)
(* The output is read package by package.  The names the commands are      *)
(* given come in the random order of a Go map, which is also the order of  *)
(* the alternatives of APK's regular expression; that expression tries     *)
(* them from the left, so that curl-dev-7.1 matches curl, with version     *)
(* dev-7.1, when curl comes first.                                         *)
(***************************************************************************)
EXTENDS Naturals, Sequences, FiniteSets

CONSTANTS
  Package,
  Extends,      \* {<<p, q>> : the name of q is that of p, a dash and more}
  Irregular,    \* packages no regular expression can be made of (g++)
  Version,
  Any,          \* the constraint "*", or none
  Mangled,      \* what is left of a line when too short a name is matched
  Inputs        \* {<<the manager, what a stage asks for, the versions of its repository>>}

Names(request) == DOMAIN request
Constraint == Version \cup {Any}

ASSUME PackageAssumption ==
  /\ IsFiniteSet(Package)
  /\ Extends \subseteq Package \X Package /\ Irregular \subseteq Package
  /\ Any \notin Version /\ Mangled \notin Constraint
  /\ \A i \in Inputs :
       /\ i = <<i[1], i[2], i[3]>> /\ i[1] \in {"apt", "apk"}
       /\ DOMAIN i[2] \subseteq Package /\ i[2] \in [DOMAIN i[2] -> Constraint]
       /\ i[3] \in [Package -> Seq(Version)]

VARIABLES
  manager, request,
  repository, \* [Package -> its versions, the newest first]
  arguments, \* the packages the command is given, in order
  output,    \* those the output of the command still has to be read for
  resolved,  \* [a subset of Package -> the version locked]
  pc, outcome

input == <<manager, request, repository>>
vars == <<manager, request, repository, arguments, output, resolved, pc, outcome>>

TypeOK ==
  /\ input \in Inputs
  /\ arguments \in Seq(Names(request)) /\ output \in Seq(Names(request))
  /\ DOMAIN resolved \subseteq Names(request)
  /\ resolved \in [DOMAIN resolved -> Version \cup {Mangled}]
  /\ pc \in {"split", "exec", "parse", "check", "done"}
  /\ outcome \in {"none", "ok", "missing", "error", "crash"}

Init ==
  /\ \E i \in Inputs : manager = i[1] /\ request = i[2] /\ repository = i[3]
  /\ arguments = <<>> /\ output = <<>>
  /\ resolved = [p \in {} |-> Any]
  /\ pc = "split" /\ outcome = "none"

PinnedWildcards == Names(request) \* a slip: "*" is taken for a version
Pinned == {p \in Names(request) : request[p] # Any}

\* The names of S, each once, in any order.
Orders(S) ==
  {o \in [1..Cardinality(S) -> S] : \A i, j \in DOMAIN o : i # j => o[i] # o[j]}

\* APK asks for the pinned packages too.
ToResolve == IF manager = "apt" THEN Names(request) \ Pinned ELSE Names(request)

Split ==
  /\ pc = "split"
  /\ arguments' \in Orders(ToResolve)
  /\ resolved' = [p \in Pinned |-> request[p]]
  /\ IF ToResolve = {} THEN pc' = "done" /\ outcome' = "ok"
                       ELSE pc' = "exec" /\ UNCHANGED outcome
  /\ UNCHANGED <<input, output>>

\* APK's expression is made of all of the names.
Compiles == Names(request) \cap Irregular = {}

\* The command succeeded.  apt-cache does even when a package is unknown.
Exec ==
  /\ pc = "exec"
  /\ manager = "apk" => \A p \in Names(request) : repository[p] # <<>>
  /\ output' = arguments
  /\ pc' = "parse"
  /\ UNCHANGED <<input, arguments, resolved, outcome>>

\* apk exits with 1 when a package is unknown: the error is ignored.
ExecUnknown ==
  /\ pc = "exec" /\ manager = "apk"
  /\ \E p \in Names(request) : repository[p] = <<>>
  /\ output' = arguments
  /\ pc' = "parse"
  /\ UNCHANGED <<input, arguments, resolved, outcome>>

\* "exited with code 1" is also how "exited with code 137" begins: the output of a
\* command killed before it ended is read like a whole one.
ExecKilled ==
  /\ pc = "exec" /\ manager = "apk"
  /\ \E n \in 0..Len(arguments) : output' = SubSeq(arguments, 1, n)
  /\ pc' = "parse"
  /\ UNCHANGED <<input, arguments, resolved, outcome>>

\* The exit code begins with 1 and the logs cannot be fetched: no buffer comes with
\* the error that is ignored, and reading it panics, unless the expression does not
\* compile and nothing is read.
ExecNoLogs ==
  /\ pc = "exec" /\ manager = "apk"
  /\ IF Compiles THEN pc' = "done" /\ outcome' = "crash"
                 ELSE pc' = "check" /\ UNCHANGED outcome
  /\ UNCHANGED <<input, arguments, output, resolved>>

ExecFails ==
  /\ pc = "exec"
  /\ pc' = "done" /\ outcome' = "error"
  /\ UNCHANGED <<input, arguments, output, resolved>>

Set(p, version) ==
  resolved' = [q \in DOMAIN resolved \cup {p} |-> IF q = p THEN version ELSE resolved[q]]

\* A slip: the last line of a package wins.
ParseMadisonLast ==
  /\ pc = "parse" /\ manager = "apt" /\ output # <<>>
  /\ LET p == Head(output)  versions == repository[p] IN
     IF versions = <<>> THEN UNCHANGED resolved ELSE Set(p, versions[Len(versions)])
  /\ output' = Tail(output)
  /\ UNCHANGED <<input, arguments, pc, outcome>>

\* A slip: the loop ends with the first package.
ParseMadisonOnce ==
  /\ pc = "parse" /\ manager = "apt" /\ output # <<>>
  /\ LET p == Head(output)  versions == repository[p] IN
     IF versions = <<>> \/ p \in DOMAIN resolved THEN UNCHANGED resolved
     ELSE Set(p, versions[1])
  /\ output' = <<>>
  /\ UNCHANGED <<input, arguments, pc, outcome>>

\* apt-cache madison prints a line per version, of which the first is kept.
ParseMadison ==
  /\ pc = "parse" /\ manager = "apt" /\ output # <<>>
  /\ LET p == Head(output)  versions == repository[p] IN
     IF versions = <<>> \/ p \in DOMAIN resolved THEN UNCHANGED resolved
     ELSE Set(p, versions[1])
  /\ output' = Tail(output)
  /\ UNCHANGED <<input, arguments, pc, outcome>>

\* The alternative that matches the lines of p.
Matched(p) ==
  LET fits == {i \in DOMAIN arguments : \/ arguments[i] = p
                                        \/ <<arguments[i], p>> \in Extends}
  IN  arguments[CHOOSE i \in fits : \A j \in fits : i <= j]

\* A line overwrites whatever the package had.
ParseInfo ==
  /\ pc = "parse" /\ manager = "apk" /\ output # <<>> /\ Compiles
  /\ LET p == Head(output)  versions == repository[p]  name == Matched(p) IN
     IF versions = <<>> THEN UNCHANGED resolved
     ELSE \E i \in DOMAIN versions : Set(name, IF name = p THEN versions[i] ELSE Mangled)
  /\ output' = Tail(output)
  /\ UNCHANGED <<input, arguments, pc, outcome>>

\* The error of an expression that does not compile is dropped, with the output.
ParseFails ==
  /\ pc = "parse" /\ manager = "apk" /\ ~ Compiles
  /\ pc' = "check"
  /\ UNCHANGED <<input, arguments, output, resolved, outcome>>

EndOfOutput ==
  /\ pc = "parse" /\ output = <<>>
  /\ pc' = "check"
  /\ UNCHANGED <<input, arguments, output, resolved, outcome>>

CheckMissingPackages ==
  /\ pc = "check"
  /\ outcome' = IF Names(request) \subseteq DOMAIN resolved THEN "ok" ELSE "missing"
  /\ pc' = "done"
  /\ UNCHANGED <<input, arguments, output, resolved>>

Next ==
  \/ Split \/ Exec \/ ExecUnknown \/ ExecKilled \/ ExecNoLogs \/ ExecFails
  \/ ParseMadison \/ ParseInfo \/ ParseFails \/ EndOfOutput \/ CheckMissingPackages

Spec == Init /\ [][Next]_vars

-----------------------------------------------------------------------------
(* Properties.                                                             *)

\* APK's expression tells the lines of p from those of the other packages.
Distinct(p) ==
  manager = "apk" => \A q \in Names(request) : <<p, q>> \notin Extends /\ <<q, p>> \notin Extends

\* The map returned without an error has every package asked for, with the version
\* it is pinned to, or the newest one available for a wildcard (pkgsolver.go:19-23
\* and docs/generic-parameters.md:132-133), for every package with a name that APK's
\* expression can tell from the others.
LocksWhatWasAsked ==
  outcome = "ok" =>
    /\ DOMAIN resolved = Names(request)
    /\ \A p \in Names(request) : Distinct(p) =>
         IF p \in Pinned THEN resolved[p] = request[p]
         ELSE repository[p] # <<>> /\ resolved[p] = repository[p][1]

\* APT reports packages as missing only when one of the wildcards has no version
\* (pkgsolver.go:22-23: "It returns an error if one of the package cannot be
\* resolved").
MissingIsUnavailable ==
  manager = "apt" /\ outcome = "missing" => \E p \in Names(request) \ Pinned : repository[p] = <<>>
=============================================================================
