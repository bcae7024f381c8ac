----------------------------- MODULE StageChain -----------------------------
(***************************************************************************)
(* How a stage of a php or nodejs definition is resolved: the user's       *)
(* stages are merged over the default dev and prod ones, the chain of      *)
(* ancestors is walked up to the base stage, and the stages of the chain   *)
(* are merged from the base stage down.                                    *)
(*                                                                         *)
(* Of a stage's parameters the model keeps one of each way of merging: a   *)
(* pointer, which overrides when it is not nil (dev, fpm, healthcheck),    *)
(* and a list, which is appended to (sources, of which each stage declares *)
(* the one item that is its name).                                         *)
(***************************************************************************)
EXTENDS Naturals, Sequences, FiniteSets

CONSTANTS
  Name,        \* stage names a user may write, "dev" and "prod" among them
  Nil,         \* an unset pointer
  Definitions  \* the maps of stages written by users

Base == "base"
NoParent == "" \* derive_from left out

Default == {"dev", "prod"}

ASSUME ChainAssumption ==
  /\ IsFiniteSet(Name) /\ Default \subseteq Name
  /\ Base \notin Name /\ NoParent \notin Name
  /\ Nil \notin BOOLEAN

Option == BOOLEAN \cup {Nil}
Parent == Name \cup {Base, NoParent}
DerivedStage == [derive_from : Parent, dev : Option, fpm : Option, healthcheck : Option,
                 sources : Seq(Name \cup {Base})]
Merged == [dev : BOOLEAN, fpm : Option, healthcheck : Option, sources : Seq(Name \cup {Base})]

ASSUME DefinitionsAssumption ==
  \A user \in Definitions : /\ DOMAIN user \subseteq Name
                            /\ \A n \in DOMAIN user : user[n] \in DerivedStage

Outcomes == {"resolving", "merging", "resolved", "cyclic", "not_found"}

VARIABLES
  kind,     \* "php" or "nodejs"
  frontend, \* nodejs only: IsFrontend
  stages,   \* def.Stages: [a subset of Name -> DerivedStage]
  asked,    \* the stage to resolve
  current,  \* the loop variable of resolveStageChain
  chain,    \* the stages walked so far, from the one asked for upwards
  next,     \* how many stages of the chain are still to merge
  merged,   \* the StageDefinition being merged
  outcome

input == <<kind, frontend, stages, asked>>
vars == <<kind, frontend, stages, asked, current, chain, next, merged, outcome>>

Elements(s) == {s[i] : i \in DOMAIN s}

\* A slip: the overriding pointer is copied without looking at it.
OverrideAlways(under, over) == over
Override(under, over) == IF over = Nil THEN under ELSE over

MergePointers(under, over) ==
  [under EXCEPT !.dev = Override(@, over.dev), !.fpm = Override(@, over.fpm),
                !.healthcheck = Override(@, over.healthcheck), !.sources = @ \o over.sources]

DefaultStage(name) ==
  [derive_from |-> Base, dev |-> (name = "dev"), fpm |-> Nil, healthcheck |-> Nil,
   sources |-> <<>>]

\* DerivedStage.Merge: derive_from is taken from the overriding stage, set or not.
MergeDefault(name, stage) ==
  [MergePointers(DefaultStage(name), stage) EXCEPT !.derive_from = stage.derive_from]

\* DerivedStageSet.Merge of the user's stages over the default ones.
MergeDefaults(user) ==
  [name \in DOMAIN user \cup Default |->
     IF name \notin Default THEN user[name]
     ELSE IF name \notin DOMAIN user THEN DefaultStage(name)
     ELSE MergeDefault(name, user[name])]

BaseStage == [dev |-> FALSE, fpm |-> IF kind = "php" THEN TRUE ELSE Nil,
              healthcheck |-> TRUE, sources |-> <<Base>>]

TypeOK ==
  /\ kind \in {"php", "nodejs"} /\ frontend \in BOOLEAN
  /\ DOMAIN stages \subseteq Name /\ Default \subseteq DOMAIN stages
  /\ \A n \in DOMAIN stages : stages[n] \in DerivedStage
  /\ asked \in Parent /\ current \in Parent
  /\ chain \in Seq(Name) /\ Elements(chain) \subseteq DOMAIN stages
  /\ next \in 0..Len(chain)
  /\ merged \in Merged
  /\ outcome \in Outcomes

Init ==
  /\ kind \in {"php", "nodejs"}
  /\ frontend \in IF kind = "php" THEN {FALSE} ELSE BOOLEAN
  /\ \E user \in Definitions : stages = MergeDefaults(user)
  /\ asked \in Parent
  /\ current = asked
  /\ chain = <<>>
  /\ next = 0
  /\ merged = [dev |-> FALSE, fpm |-> Nil, healthcheck |-> Nil, sources |-> <<>>]
  /\ outcome = "resolving"

-----------------------------------------------------------------------------
AtBaseOnly == current = Base \* a slip: derive_from left out is not the base stage
AtBase == current \in {NoParent, Base}
\* A slip: only the stage before is remembered.
VisitedLast == IF chain = <<>> THEN {} ELSE {chain[Len(chain)]}
Visited == Elements(chain)

FailCyclic ==
  /\ outcome = "resolving" /\ ~AtBase
  /\ current \in Visited
  /\ outcome' = "cyclic"
  /\ UNCHANGED <<input, current, chain, next, merged>>

FailNotFound ==
  /\ outcome = "resolving" /\ ~AtBase
  /\ current \notin Visited /\ current \notin DOMAIN stages
  /\ outcome' = "not_found"
  /\ UNCHANGED <<input, current, chain, next, merged>>

\* A slip: the stage is not recorded.
WalkUnrecorded ==
  /\ outcome = "resolving" /\ ~AtBase
  /\ current \notin Visited /\ current \in DOMAIN stages
  /\ current' = stages[current].derive_from
  /\ UNCHANGED <<input, chain, next, merged, outcome>>

WalkUp ==
  /\ outcome = "resolving" /\ ~AtBase
  /\ current \notin Visited /\ current \in DOMAIN stages
  /\ chain' = Append(chain, current)
  /\ current' = stages[current].derive_from
  /\ UNCHANGED <<input, next, merged, outcome>>

StartMerge ==
  /\ outcome = "resolving" /\ AtBase
  /\ merged' = BaseStage
  /\ next' = Len(chain)
  /\ outcome' = "merging"
  /\ UNCHANGED <<input, current, chain>>

\* A slip: the chain is merged in the order it was walked.
MergeUpwards ==
  /\ outcome = "merging" /\ next > 0
  /\ merged' = MergePointers(merged, stages[chain[Len(chain) + 1 - next]])
  /\ next' = next - 1
  /\ UNCHANGED <<input, current, chain, outcome>>

\* mergeStages goes through the chain backwards, the stage asked for last.
MergeNext ==
  /\ outcome = "merging" /\ next > 0
  /\ merged' = MergePointers(merged, stages[chain[next]])
  /\ next' = next - 1
  /\ UNCHANGED <<input, current, chain, outcome>>

\* Stages that serve nothing of their own have no healthcheck.
Unserved == merged.dev \/ IF kind = "php" THEN merged.fpm = Nil \/ ~merged.fpm ELSE frontend

FinishMerge ==
  /\ outcome = "merging" /\ next = 0
  /\ merged' = IF Unserved THEN [merged EXCEPT !.healthcheck = Nil] ELSE merged
  /\ outcome' = "resolved"
  /\ UNCHANGED <<input, current, chain, next>>

Next == FailCyclic \/ FailNotFound \/ WalkUp \/ StartMerge \/ MergeNext \/ FinishMerge

Spec == Init /\ [][Next]_vars /\ WF_vars(Next)

-----------------------------------------------------------------------------
(* Properties.                                                             *)

Final == {"resolved", "cyclic", "not_found"}
Steps == 0..Cardinality(Name)

\* The reference: ancestor[k] is reached from the stage asked for in k steps.
ancestor[k \in Nat] ==
  IF k = 0 THEN asked
  ELSE IF ancestor[k - 1] \in DOMAIN stages THEN stages[ancestor[k - 1]].derive_from
  ELSE ancestor[k - 1]
Root == ancestor[Cardinality(Name) + 1]

\* The stages that set a pointer, from the one asked for upwards.
Setters(set) == {k \in Steps : ancestor[k] \in DOMAIN stages /\ set[ancestor[k]] # Nil}
Nearest(set, default) ==
  IF Setters(set) = {} THEN default
  ELSE set[ancestor[CHOOSE k \in Setters(set) : \A l \in Setters(set) : k <= l]]

\* A stage is reported cyclic exactly when its ancestors never reach the base
\* stage, missing exactly when they reach a stage nobody declared, and is
\* resolved otherwise (definition.go:535-551).
AnswerIsRight ==
  /\ outcome = "resolved" => Root \in {Base, NoParent}
  /\ outcome = "cyclic" => Root \in DOMAIN stages
  /\ outcome = "not_found" => Root \in Name \ DOMAIN stages

\* The walk up the ancestors is over after as many steps as there are stages,
\* however they are derived from one another (definition.go:531, 536-538).
ChainBounded == Len(chain) <= Cardinality(DOMAIN stages)

\* A parameter has the value its nearest ancestor gives it, dev included: the
\* parent's value is used when a stage leaves it out (definition.go:367-369).
NearestWins ==
  outcome = "resolved" =>
    /\ merged.dev = Nearest([n \in DOMAIN stages |-> stages[n].dev], FALSE)
    /\ merged.fpm = Nearest([n \in DOMAIN stages |-> stages[n].fpm], BaseStage.fpm)
    /\ merged.healthcheck \in
         {Nil, Nearest([n \in DOMAIN stages |-> stages[n].healthcheck], BaseStage.healthcheck)}
    /\ merged.healthcheck = TRUE => ~merged.dev

\* declared[k] is what the stage asked for and the k - 1 ancestors above it list, the
\* highest one first.
declared[k \in Nat] ==
  IF k = 0 THEN <<>>
  ELSE IF ancestor[k - 1] \in DOMAIN stages
    THEN stages[ancestor[k - 1]].sources \o declared[k - 1]
  ELSE declared[k - 1]

\* Lists are those of the base stage, then of each ancestor down to the stage
\* itself, none left out and none twice (Stage.Merge, definition.go:315-328).
ListsInOrder ==
  outcome = "resolved" => merged.sources = <<Base>> \o declared[Cardinality(Name)]

\* Every resolution ends, whatever the user's derive_from parameters say.
Terminates == <>(outcome \in Final)
=============================================================================
