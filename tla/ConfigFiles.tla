----------------------------- MODULE ConfigFiles -----------------------------
(***************************************************************************)
(* The config files of a stage: PathsMap.Merge applied down the chain of   *)
(* its ancestors, for the stages of one definition, resolved one after the *)
(* other by the same process.                                              *)
(*                                                                         *)
(* A PathsMap is a Go map from sources to destinations, and Merge returns  *)
(* its argument, the map of the overriding stage, to which it adds entries *)
(* of its receiver in the random order of a range: the definition itself   *)
(* changes as its stages are resolved.                                     *)
(***************************************************************************)
EXTENDS Naturals, Sequences

CONSTANTS
  Source, Dest,
  Stage,
  Ancestry,    \* [Stage -> Seq(Stage)]: from the one below base to the stage itself
  Definitions, \* the config files declared, by base and by each stage
  MaxResolves, \* bound on the resolutions, for TLC
  Base, None

PathsMap == UNION {[S -> Dest] : S \in SUBSET Source}
Empty == [s \in {} |-> s]

\* Stages that leave config_files out have a nil map.
Owner == Stage \cup {Base}

ASSUME ConfigAssumption ==
  /\ Base \notin Stage /\ None \notin Stage \cup PathsMap
  /\ Ancestry \in [Stage -> Seq(Stage)]
  /\ \A s \in Stage : Ancestry[s] # <<>> /\ Ancestry[s][Len(Ancestry[s])] = s
  /\ \A s \in Stage : \A i \in DOMAIN Ancestry[s] : \* a stage derives from one stage
       Ancestry[Ancestry[s][i]] = SubSeq(Ancestry[s], 1, i)
  /\ Definitions \subseteq [Owner -> PathsMap \cup {None}]
  /\ MaxResolves \in Nat

VARIABLES
  declared, \* ghost: what the user wrote
  files,    \* [Owner -> PathsMap \cup {None}]: the maps of the definition
  asked,    \* the stage being resolved
  chain,    \* its ancestors left to merge, itself included
  merged,   \* the receiver: what the ancestors merged so far add up to
  target,   \* the map being added to, an alias of files[Head(chain)] unless nil
  known,    \* knownDest
  todo,     \* the sources of the receiver left to range over
  pc,
  resolves

vars == <<declared, files, asked, chain, merged, target, known, todo, pc, resolves>>

TypeOK ==
  /\ declared \in Definitions /\ files \in [Owner -> PathsMap \cup {None}]
  /\ asked \in Stage \cup {None} /\ chain \in Seq(Stage)
  /\ merged \in PathsMap /\ target \in PathsMap
  /\ known \subseteq Dest /\ todo \subseteq DOMAIN merged
  /\ pc \in {"idle", "stage", "range"} /\ resolves \in 0..MaxResolves

Init ==
  /\ declared \in Definitions /\ files = declared
  /\ asked = None /\ chain = <<>>
  /\ merged = Empty /\ target = Empty /\ known = {} /\ todo = {}
  /\ pc = "idle" /\ resolves = 0

MapOf(owner, f) == IF f[owner] = None THEN Empty ELSE f[owner]
Dests(paths) == {paths[s] : s \in DOMAIN paths}
With(paths, src, dest) ==
  [s \in DOMAIN paths \cup {src} |-> IF s = src THEN dest ELSE paths[s]]

\* The base stage's map is copied.
Resolve(s) ==
  /\ pc = "idle" /\ resolves < MaxResolves
  /\ asked' = s /\ chain' = Ancestry[s]
  /\ merged' = MapOf(Base, files)
  /\ pc' = "stage" /\ resolves' = resolves + 1
  /\ UNCHANGED <<declared, files, target, known, todo>>

\* A slip: the overriding map is ranged over.
RangeOverTarget ==
  /\ pc = "stage" /\ chain # <<>>
  /\ target' = MapOf(Head(chain), files)
  /\ known' = Dests(target')
  /\ todo' = DOMAIN target'
  /\ pc' = "range"
  /\ UNCHANGED <<declared, files, asked, chain, merged, resolves>>

StartMerge ==
  /\ pc = "stage" /\ chain # <<>>
  /\ target' = MapOf(Head(chain), files)
  /\ known' = Dests(target')
  /\ todo' = DOMAIN merged
  /\ pc' = "range"
  /\ UNCHANGED <<declared, files, asked, chain, merged, resolves>>

\* A slip: the destinations the overriding stage has are not looked at.
MergeAll(src) ==
  /\ pc = "range" /\ src \in todo
  /\ todo' = todo \ {src}
  /\ target' = With(target, src, merged[src])
  /\ known' = known \cup {merged[src]}
  /\ files' = IF files[Head(chain)] = None THEN files
              ELSE [files EXCEPT ![Head(chain)] = target']
  /\ UNCHANGED <<declared, asked, chain, merged, pc, resolves>>

\* One iteration of the range over the receiver.
MergeEntry(src) ==
  /\ pc = "range" /\ src \in todo
  /\ todo' = todo \ {src}
  /\ IF merged[src] \in known
     THEN UNCHANGED <<files, target, known>>
     ELSE /\ target' = With(target, src, merged[src])
          /\ known' = known \cup {merged[src]}
          /\ files' = IF files[Head(chain)] = None THEN files
                      ELSE [files EXCEPT ![Head(chain)] = target']
  /\ UNCHANGED <<declared, asked, chain, merged, pc, resolves>>

\* Slips: the receiver is returned, or it is the base stage's map.
KeepReceiver ==
  /\ pc = "range" /\ todo = {}
  /\ chain' = Tail(chain)
  /\ pc' = "stage"
  /\ UNCHANGED <<declared, files, asked, merged, target, known, todo, resolves>>
MergeIntoBase ==
  /\ pc = "range" /\ todo = {}
  /\ merged' = target /\ chain' = Tail(chain)
  /\ files' = [files EXCEPT ![Base] = target]
  /\ pc' = "stage"
  /\ UNCHANGED <<declared, asked, target, known, todo, resolves>>

EndMerge ==
  /\ pc = "range" /\ todo = {}
  /\ merged' = target /\ chain' = Tail(chain)
  /\ pc' = "stage"
  /\ UNCHANGED <<declared, files, asked, target, known, todo, resolves>>

EndResolve ==
  /\ pc = "stage" /\ chain = <<>>
  /\ pc' = "idle"
  /\ UNCHANGED <<declared, files, asked, chain, merged, target, known, todo, resolves>>

Next ==
  \/ \E s \in Stage : Resolve(s)
  \/ StartMerge \/ (\E src \in Source : MergeEntry(src)) \/ EndMerge \/ EndResolve

Spec == Init /\ [][Next]_vars

-----------------------------------------------------------------------------
(* Properties.                                                             *)

Resolved == pc = "idle" /\ asked # None

\* The owners a stage inherits from, base first.
Line(s) == <<Base>> \o Ancestry[s]

\* A stage has all of the config files it declares, at the destinations it gives
\* them (docs/generic-parameters.md:243-244: "When merging parent stages, each
\* property is overriden independently").
OwnFilesWin ==
  Resolved => \A src \in DOMAIN MapOf(asked, declared) :
                src \in DOMAIN merged /\ merged[src] = declared[asked][src]

\* Each destination that the stage or an ancestor fills is filled with files of the
\* nearest of those who fill it, and of no other, whichever stages of the same
\* definition were resolved before.
NearestFills ==
  Resolved =>
    \A d \in UNION {Dests(MapOf(Line(asked)[i], declared)) : i \in DOMAIN Line(asked)} :
      LET owners == {i \in DOMAIN Line(asked) : d \in Dests(MapOf(Line(asked)[i], declared))}
          nearest == Line(asked)[CHOOSE i \in owners : \A j \in owners : j <= i]
          sources == {src \in DOMAIN merged : merged[src] = d}
      IN  /\ sources # {}
          /\ \A src \in sources : /\ src \in DOMAIN declared[nearest]
                                  /\ declared[nearest][src] = d

\* No config file comes from a stage that is not an ancestor, though the maps of
\* the definition were changed by other resolutions.
OnlyAncestors ==
  Resolved =>
    \A src \in DOMAIN merged :
      \E i \in DOMAIN Line(asked) : LET own == MapOf(Line(asked)[i], declared) IN
                                    src \in DOMAIN own /\ own[src] = merged[src]
=============================================================================
