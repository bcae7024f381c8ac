--------------------------- MODULE MCPackageSolver ---------------------------
(* Small sets of packages for TLC.                                           *)
EXTENDS PackageSolver

CONSTANTS curl, curldev, git, gxx

\* The name of curl-dev begins with that of curl.
Related == {<<curl, curldev>>}

RequestsFor(S, constraints) == UNION {[T -> constraints] : T \in SUBSET S}

\* Repositories of the packages of S; the rest has no version.
RepositoriesOf(S, versions) ==
  {[p \in Package |-> IF p \in S THEN r[p] ELSE <<>>] : r \in [S -> versions]}

\* APT: three packages, every request and up to two versions each.
APT ==
  {"apt"} \X RequestsFor({curl, curldev, git}, Constraint)
          \X RepositoriesOf({curl, curldev, git}, {<<>>, <<2>>, <<2, 1>>, <<1>>})

\* APK repositories have one version of a package.
APK(S) ==
  {"apk"} \X RequestsFor(S, Constraint) \X RepositoriesOf(S, {<<>>, <<2>>})

\* APK honours the pins that are the versions of its repository.
Honoured(i) == \A p \in DOMAIN i[2] : i[2][p] = Any \/ i[3][p] \in {<<>>, <<i[2][p]>>}

Answered == APT \cup {i \in APK({curl, curldev, git}) \cup APK({curl, git, gxx}) : Honoured(i)}
PinnedAPK == APK({curl, git, gxx})
=============================================================================
