---------------------------- MODULE ConfigFilesProofs ----------------------------
(***************************************************************************)
(* Proofs about the config files of stages, for any number of stages,      *)
(* sources and destinations, and any resolutions of the same definition.   *)
(***************************************************************************)
EXTENDS ConfigFiles, Integers, TLAPS

\* Everything that gives a source a destination gives it the same one; without it
\* Merge replaces an entry of the overriding stage, and OwnFilesWin is false.
OneDestination ==
  \A f \in Definitions : \A o1, o2 \in Owner :
    \A src \in DOMAIN MapOf(o1, f) \cap DOMAIN MapOf(o2, f) :
      MapOf(o1, f)[src] = MapOf(o2, f)[src]

\* What the nth owner of the line of s declares.
Declared(s, n) == MapOf(Line(s)[n], declared)
Fills(s, n, d) == d \in Dests(Declared(s, n))

\* Of the first n owners of the line of s, the nearest that fills the destination
\* of src in paths is one that gives it this very source.
FromNearest(paths, s, n, src) ==
  \E i \in 1..n :
    /\ src \in DOMAIN Declared(s, i) /\ Declared(s, i)[src] = paths[src]
    /\ \A j \in (i + 1)..n : ~Fills(s, j, paths[src])
Sound(paths, s, n) == \A src \in DOMAIN paths : FromNearest(paths, s, n, src)

\* What any of them fills is filled.
Filled(paths, s, n) == \A i \in 1..n : Dests(Declared(s, i)) \subseteq Dests(paths)

\* paths has all of the entries of own.
Extends(paths, own) == \A src \in DOMAIN own : src \in DOMAIN paths /\ paths[src] = own[src]

\* How many owners of the line are merged, base included.
Merged == Len(Ancestry[asked]) - Len(chain) + 1

\* The maps of the definition grow, and lose nothing of what the user wrote.
FilesInv ==
  /\ files[Base] = declared[Base]
  /\ \A s \in Stage :
       /\ files[s] = None <=> declared[s] = None
       /\ Extends(MapOf(s, files), MapOf(s, declared))
       /\ Sound(MapOf(s, files), s, Len(Line(s)))

\* The chain is the end of the line of the stage asked for.
ChainInv ==
  /\ pc # "idle" => asked # None
  /\ pc = "range" => chain # <<>>
  /\ pc # "range" => todo = {}
  /\ asked # None =>
       /\ Len(chain) <= Len(Ancestry[asked])
       /\ \A i \in DOMAIN chain : chain[i] = Ancestry[asked][Merged - 1 + i]
       /\ pc = "idle" => chain = <<>>

MergedInv ==
  asked # None => /\ Sound(merged, asked, Merged) /\ Filled(merged, asked, Merged)
                  /\ Extends(merged, Declared(asked, Merged))

\* In the middle of a merge, everything but what is left to range over is there.
RangeInv ==
  pc = "range" =>
    /\ known = Dests(target)
    /\ files[Head(chain)] # None => target = files[Head(chain)]
    /\ Extends(target, MapOf(Head(chain), declared))
    /\ Sound(target, asked, Merged + 1)
    /\ \A src \in DOMAIN merged \ todo : merged[src] \in known

Inv == TypeOK /\ FilesInv /\ ChainInv /\ MergedInv /\ RangeInv

-----------------------------------------------------------------------------
(* Maps and lines.                                                         *)

LEMMA PathsMapIs ==
  ASSUME NEW m
  PROVE  m \in PathsMap <=> /\ DOMAIN m \subseteq Source
                            /\ m \in [DOMAIN m -> Dest]
BY DEF PathsMap

LEMMA EmptyPathsMap == Empty \in PathsMap /\ DOMAIN Empty = {} /\ Dests(Empty) = {}
BY PathsMapIs DEF Empty, Dests

LEMMA MapOfTyped ==
  ASSUME NEW f \in [Owner -> PathsMap \cup {None}], NEW o \in Owner
  PROVE  MapOf(o, f) \in PathsMap
BY EmptyPathsMap DEF MapOf

\* An entry more.
LEMMA WithAdds ==
  ASSUME NEW m \in PathsMap, NEW src \in Source, NEW d \in Dest
  PROVE  /\ With(m, src, d) \in PathsMap
         /\ DOMAIN With(m, src, d) = DOMAIN m \cup {src}
         /\ With(m, src, d)[src] = d
         /\ \A s \in DOMAIN m : s # src => With(m, src, d)[s] = m[s]
<1> DEFINE w == With(m, src, d)
<1>1. w = [s \in DOMAIN m \cup {src} |-> IF s = src THEN d ELSE m[s]]
  BY DEF With
<1>2. DOMAIN m \subseteq Source /\ \A s \in DOMAIN m : m[s] \in Dest
  BY PathsMapIs
<1> HIDE DEF w
<1>3. /\ DOMAIN w = DOMAIN m \cup {src}
      /\ w[src] = d
      /\ \A s \in DOMAIN m : s # src => w[s] = m[s]
  BY <1>1
<1>4. w \in [DOMAIN w -> Dest]
  BY <1>1, <1>2
<1>5. w \in PathsMap
  BY <1>2, <1>3, <1>4, PathsMapIs
<1> QED
  BY <1>3, <1>5 DEF w

\* A line starts with base, and that of an ancestor is its beginning.
LEMMA LineIs ==
  ASSUME NEW s \in Stage
  PROVE  /\ Ancestry[s] \in Seq(Stage)
         /\ Line(s) \in Seq(Owner) /\ Len(Line(s)) = Len(Ancestry[s]) + 1
         /\ Line(s)[1] = Base
         /\ \A i \in 1..Len(Ancestry[s]) : Line(s)[i + 1] = Ancestry[s][i]
<1>1. Ancestry[s] \in Seq(Stage) /\ <<Base>> \in Seq(Owner)
  BY ConfigAssumption DEF Owner
<1>2. Ancestry[s] \in Seq(Owner)
  BY <1>1 DEF Owner
<1> QED
  BY <1>1, <1>2 DEF Line

LEMMA LineOfAncestor ==
  ASSUME NEW s \in Stage, NEW n \in 1..Len(Ancestry[s])
  PROVE  /\ Ancestry[s][n] \in Stage
         /\ Len(Line(Ancestry[s][n])) = n + 1
         /\ \A i \in 1..(n + 1) : Line(Ancestry[s][n])[i] = Line(s)[i]
<1> DEFINE t == Ancestry[s][n]
<1>1. Ancestry[s] \in Seq(Stage) /\ t \in Stage
  BY LineIs
<1>2. Ancestry[t] = SubSeq(Ancestry[s], 1, n)
  <2>1. n \in DOMAIN Ancestry[s]
    BY <1>1
  <2>2. \A i \in DOMAIN Ancestry[s] : Ancestry[Ancestry[s][i]] = SubSeq(Ancestry[s], 1, i)
    BY ConfigAssumption
  <2> QED
    BY <2>1, <2>2
<1> HIDE DEF t
<1>3. Len(Ancestry[t]) = n /\ \A i \in 1..n : Ancestry[t][i] = Ancestry[s][i]
  BY <1>1, <1>2
<1>4. /\ Len(Line(t)) = Len(Ancestry[t]) + 1 /\ Line(t)[1] = Base
      /\ \A i \in 1..Len(Ancestry[t]) : Line(t)[i + 1] = Ancestry[t][i]
      /\ Line(s)[1] = Base
      /\ \A i \in 1..Len(Ancestry[s]) : Line(s)[i + 1] = Ancestry[s][i]
  BY <1>1, LineIs
<1>5. ASSUME NEW i \in 1..(n + 1) PROVE Line(t)[i] = Line(s)[i]
  <2>1. CASE i = 1
    BY <1>4, <2>1
  <2>2. CASE i # 1
    <3>1. i - 1 \in 1..n /\ (i - 1) + 1 = i /\ i - 1 \in 1..Len(Ancestry[s])
      BY <1>1, <2>2
    <3>2. Line(t)[(i - 1) + 1] = Ancestry[t][i - 1] /\ Line(s)[(i - 1) + 1] = Ancestry[s][i - 1]
      BY <1>3, <1>4, <3>1
    <3> QED
      BY <1>3, <3>1, <3>2
  <2> QED
    BY <2>1, <2>2
<1> QED
  BY <1>1, <1>3, <1>4, <1>5 DEF t

\* So what a map owes to the line of a stage is the same in that of a descendant.
LEMMA SoundOfAncestor ==
  ASSUME NEW s \in Stage, NEW n \in 1..Len(Ancestry[s]), NEW paths,
         Sound(paths, Ancestry[s][n], Len(Line(Ancestry[s][n])))
         \/ Sound(paths, s, n + 1)
  PROVE  /\ Sound(paths, Ancestry[s][n], Len(Line(Ancestry[s][n])))
         /\ Sound(paths, s, n + 1)
<1> DEFINE t == Ancestry[s][n]
<1>1. Len(Line(t)) = n + 1 /\ \A i \in 1..(n + 1) : Line(t)[i] = Line(s)[i]
  BY LineOfAncestor
<1>2. \A i \in 1..(n + 1) : Declared(t, i) = Declared(s, i)
  BY <1>1 DEF Declared
<1> HIDE DEF t
<1>3. n \in Nat
  BY LineIs
<1>4. \A src \in DOMAIN paths : FromNearest(paths, t, n + 1, src) <=> FromNearest(paths, s, n + 1, src)
  BY <1>2, <1>3 DEF FromNearest, Fills
<1> QED
  BY <1>1, <1>4 DEF Sound, t

\* Sound maps agree on the sources they share.
LEMMA SoundAgree ==
  ASSUME OneDestination, declared \in Definitions, NEW s \in Stage,
         NEW n \in 0..Len(Line(s)), NEW m \in 0..Len(Line(s)),
         NEW p, NEW q, Sound(p, s, n), Sound(q, s, m),
         NEW src \in DOMAIN p \cap DOMAIN q
  PROVE  p[src] = q[src]
<1>1. PICK i \in 1..n : src \in DOMAIN Declared(s, i) /\ Declared(s, i)[src] = p[src]
  BY DEF Sound, FromNearest
<1>2. PICK j \in 1..m : src \in DOMAIN Declared(s, j) /\ Declared(s, j)[src] = q[src]
  BY DEF Sound, FromNearest
<1>3. Line(s) \in Seq(Owner)
  BY LineIs
<1>4. Line(s)[i] \in Owner /\ Line(s)[j] \in Owner
  BY <1>3
<1> QED
  BY <1>1, <1>2, <1>4 DEF OneDestination, Declared

\* What the line of the stage asked for comes to, one merge after the other.
LEMMA ChainHead ==
  ASSUME TypeOK, ChainInv, asked # None, chain # <<>>
  PROVE  /\ asked \in Stage /\ Ancestry[asked] \in Seq(Stage)
         /\ Merged \in 1..Len(Ancestry[asked]) /\ Merged \in Nat
         /\ Head(chain) = Ancestry[asked][Merged] /\ Head(chain) \in Stage
         /\ Len(Line(asked)) = Len(Ancestry[asked]) + 1
         /\ Line(asked)[Merged + 1] = Head(chain)
<1>1. asked \in Stage /\ chain \in Seq(Stage)
  BY DEF TypeOK
<1>2. /\ Ancestry[asked] \in Seq(Stage) /\ Len(Line(asked)) = Len(Ancestry[asked]) + 1
      /\ \A i \in 1..Len(Ancestry[asked]) : Line(asked)[i + 1] = Ancestry[asked][i]
  BY <1>1, LineIs
<1>3. Len(chain) \in 1..Len(Ancestry[asked])
  BY <1>1, <1>2 DEF ChainInv
<1>4. Merged \in 1..Len(Ancestry[asked]) /\ Merged \in Nat
  BY <1>2, <1>3 DEF Merged
<1>5. chain[1] = Ancestry[asked][Merged - 1 + 1]
  BY <1>1, <1>3 DEF ChainInv
<1>6. Head(chain) = chain[1] /\ Head(chain) \in Stage /\ Merged - 1 + 1 = Merged
  BY <1>1, <1>3, <1>4
<1> QED
  BY <1>1, <1>2, <1>4, <1>5, <1>6

-----------------------------------------------------------------------------
(* Type correctness.                                                       *)

LEMMA InitInv == Init => Inv
<1> SUFFICES ASSUME Init PROVE Inv
  OBVIOUS
<1>1. declared \in [Owner -> PathsMap \cup {None}]
  BY ConfigAssumption DEF Init
<1>2. TypeOK
  BY <1>1, EmptyPathsMap, ConfigAssumption DEF Init, TypeOK
<1>3. ASSUME NEW s \in Stage
      PROVE  /\ Extends(MapOf(s, files), MapOf(s, declared))
             /\ Sound(MapOf(s, files), s, Len(Line(s)))
  <2> DEFINE n == Len(Line(s))
  <2>1. n = Len(Ancestry[s]) + 1 /\ Ancestry[s] \in Seq(Stage) /\ Ancestry[s] # <<>>
        /\ Ancestry[s][Len(Ancestry[s])] = s
        /\ \A i \in 1..Len(Ancestry[s]) : Line(s)[i + 1] = Ancestry[s][i]
    BY LineIs, ConfigAssumption
  <2>2. n \in Nat /\ n \in 1..n /\ Line(s)[n] = s
    BY <2>1
  <2>3. MapOf(s, files) = Declared(s, n)
    BY <2>2 DEF Init, Declared
  <2> HIDE DEF n
  <2>4. Sound(Declared(s, n), s, n)
    BY <2>2 DEF Sound, FromNearest
  <2>5. Extends(MapOf(s, files), MapOf(s, declared))
    BY DEF Init, Extends
  <2> QED
    BY <2>3, <2>4, <2>5 DEF n
<1>4. FilesInv
  BY <1>3 DEF FilesInv, Init
<1> QED
  BY <1>2, <1>4 DEF Inv, ChainInv, MergedInv, RangeInv, Init

LEMMA NextTypeOK == TypeOK /\ ChainInv /\ [Next]_vars => TypeOK'
<1> SUFFICES ASSUME TypeOK, ChainInv, [Next]_vars PROVE TypeOK'
  OBVIOUS
<1> USE DEF TypeOK
<1>1. ASSUME NEW s \in Stage, Resolve(s) PROVE TypeOK'
  <2>1. MapOf(Base, files) \in PathsMap /\ Ancestry[s] \in Seq(Stage)
    BY MapOfTyped, ConfigAssumption DEF Owner
  <2>2. todo = {} /\ resolves + 1 \in 0..MaxResolves
    BY <1>1, ConfigAssumption DEF Resolve, ChainInv
  <2> QED
    BY <1>1, <2>1, <2>2 DEF Resolve
<1>2. CASE StartMerge
  <2>1. Head(chain) \in Owner
    BY <1>2 DEF StartMerge, Owner
  <2>2. MapOf(Head(chain), files) \in PathsMap
    BY <2>1, MapOfTyped
  <2>3. Dests(MapOf(Head(chain), files)) \subseteq Dest
    BY <2>2, PathsMapIs DEF Dests
  <2> QED
    BY <1>2, <2>2, <2>3 DEF StartMerge
<1>3. ASSUME NEW src \in Source, MergeEntry(src) PROVE TypeOK'
  <2>1. src \in DOMAIN merged /\ merged[src] \in Dest
    BY <1>3, PathsMapIs DEF MergeEntry
  <2>2. With(target, src, merged[src]) \in PathsMap
    BY <2>1, WithAdds
  <2>3. target' \in PathsMap /\ known' \subseteq Dest /\ todo' \subseteq DOMAIN merged
    BY <1>3, <2>1, <2>2 DEF MergeEntry
  <2>4. files' \in [Owner -> PathsMap \cup {None}]
    BY <1>3, <2>3 DEF MergeEntry
  <2> QED
    BY <1>3, <2>3, <2>4 DEF MergeEntry
<1>4. CASE EndMerge
  <2>1. chain # <<>> /\ Tail(chain) \in Seq(Stage)
    BY <1>4 DEF EndMerge, ChainInv
  <2> QED
    BY <1>4, <2>1 DEF EndMerge
<1>5. CASE EndResolve
  BY <1>5 DEF EndResolve
<1>6. CASE UNCHANGED vars
  BY <1>6 DEF vars
<1> QED
  BY <1>1, <1>2, <1>3, <1>4, <1>5, <1>6 DEF Next

LEMMA NextChainInv == TypeOK /\ ChainInv /\ [Next]_vars => ChainInv'
<1> SUFFICES ASSUME TypeOK, ChainInv, [Next]_vars PROVE ChainInv'
  OBVIOUS
<1> USE DEF TypeOK, ChainInv, Merged
<1>1. ASSUME NEW s \in Stage, Resolve(s) PROVE ChainInv'
  <2>1. Ancestry[s] \in Seq(Stage) /\ s # None
    BY LineIs, ConfigAssumption
  <2> QED
    BY <1>1, <2>1 DEF Resolve
<1>2. CASE StartMerge
  BY <1>2 DEF StartMerge
<1>3. ASSUME NEW src \in Source, MergeEntry(src) PROVE ChainInv'
  BY <1>3 DEF MergeEntry
<1>4. CASE EndMerge
  <2>1. /\ asked # None /\ asked \in Stage /\ chain # <<>> /\ chain \in Seq(Stage)
        /\ Ancestry[asked] \in Seq(Stage)
    BY <1>4, LineIs DEF EndMerge
  <2>2. /\ Len(Tail(chain)) = Len(chain) - 1
        /\ \A i \in 1..(Len(chain) - 1) : Tail(chain)[i] = chain[i + 1]
        /\ DOMAIN Tail(chain) = 1..(Len(chain) - 1) /\ Len(chain) \in Nat
    BY <2>1
  <2>3. ASSUME NEW i \in 1..(Len(chain) - 1)
        PROVE  Tail(chain)[i] = Ancestry[asked][Len(Ancestry[asked]) - Len(Tail(chain)) + i]
    <3>1. i + 1 \in DOMAIN chain
      BY <2>1
    <3>2. chain[i + 1] = Ancestry[asked][Len(Ancestry[asked]) - Len(chain) + 1 - 1 + (i + 1)]
      BY <2>1, <3>1
    <3>3. ASSUME NEW L \in Int, NEW k \in Int PROVE L - k + 1 - 1 + (i + 1) = L - (k - 1) + i
      OBVIOUS
    <3>4. Len(Ancestry[asked]) \in Int /\ Len(chain) \in Int
      BY <2>1
    <3>5. Len(Ancestry[asked]) - Len(chain) + 1 - 1 + (i + 1)
            = Len(Ancestry[asked]) - (Len(chain) - 1) + i
      BY <3>3, <3>4
    <3> QED
      BY <2>2, <3>2, <3>5
  <2>4. /\ chain' = Tail(chain) /\ asked' = asked /\ pc' = "stage" /\ todo' = {}
    BY <1>4 DEF EndMerge
  <2>5. \A i \in DOMAIN chain' : chain'[i] = Ancestry[asked][Len(Ancestry[asked]) - Len(chain') + 1 - 1 + i]
    BY <2>1, <2>2, <2>3, <2>4
  <2> QED
    BY <2>1, <2>2, <2>4, <2>5
<1>5. CASE EndResolve
  BY <1>5 DEF EndResolve
<1>6. CASE UNCHANGED vars
  BY <1>6 DEF vars
<1> QED
  BY <1>1, <1>2, <1>3, <1>4, <1>5, <1>6 DEF Next

-----------------------------------------------------------------------------
(* A resolution gives the stage what its line gives it.                    *)

\* Facts of a state are read again in the next one when nothing they are about moved.
LEMMA SameDeclared ==
  ASSUME declared' = declared
  PROVE  /\ \A s, n : Declared(s, n)' = Declared(s, n)
         /\ \A p, s, n : Sound(p, s, n)' <=> Sound(p, s, n)
         /\ \A p, s, n : Filled(p, s, n)' <=> Filled(p, s, n)
<1>1. \A s, n : Declared(s, n)' = Declared(s, n)
  BY DEF Declared, MapOf, Line
<1> QED
  BY <1>1 DEF Sound, FromNearest, Fills, Filled

LEMMA ResolveInv ==
  ASSUME Inv, NEW s \in Stage, Resolve(s)
  PROVE  FilesInv' /\ MergedInv' /\ RangeInv'
<1>1. /\ asked' = s /\ chain' = Ancestry[s] /\ merged' = MapOf(Base, files) /\ pc' = "stage"
      /\ UNCHANGED <<declared, files>>
  BY DEF Resolve
<1>2. FilesInv'
  BY <1>1 DEF Inv, FilesInv, Sound, FromNearest, Fills, Declared
<1>3. Merged' = 1
  BY <1>1, LineIs DEF Merged
<1>4. Declared(s, 1) = MapOf(Base, declared) /\ merged' = Declared(s, 1)
  BY <1>1, LineIs DEF Declared, Inv, FilesInv, MapOf
<1>5. Sound(merged', s, 1) /\ Filled(merged', s, 1) /\ Extends(merged', Declared(s, 1))
  BY <1>4 DEF Sound, FromNearest, Filled, Extends
<1>6. MergedInv'
  BY <1>1, <1>3, <1>5, SameDeclared DEF MergedInv, Extends
<1>7. RangeInv'
  BY <1>1 DEF RangeInv
<1> QED
  BY <1>2, <1>6, <1>7

LEMMA StartMergeInv ==
  ASSUME Inv, StartMerge
  PROVE  FilesInv' /\ MergedInv' /\ RangeInv'
<1> DEFINE t == Head(chain)
<1>1. /\ asked # None /\ chain # <<>> /\ pc = "stage"
      /\ target' = MapOf(t, files) /\ known' = Dests(target') /\ todo' = DOMAIN merged
      /\ UNCHANGED <<declared, files, asked, chain, merged>>
  BY DEF StartMerge, Inv, ChainInv
<1>2. /\ asked \in Stage /\ Merged \in 1..Len(Ancestry[asked]) /\ t \in Stage
      /\ t = Ancestry[asked][Merged]
  BY <1>1, ChainHead DEF Inv
<1>3. FilesInv'
  BY <1>1 DEF Inv, FilesInv, Sound, FromNearest, Fills, Declared
<1>4. Merged' = Merged
  BY <1>1 DEF Merged
<1>5. MergedInv'
  BY <1>1, <1>4, SameDeclared DEF Inv, MergedInv, Extends
<1>6. Sound(target', t, Len(Line(t))) /\ Extends(target', MapOf(t, declared))
  BY <1>1, <1>2 DEF Inv, FilesInv
<1>7. Sound(target', asked, Merged + 1)
  BY <1>2, <1>6, SoundOfAncestor
<1>8. files[t] # None => target' = files[t]
  BY <1>1 DEF MapOf
<1> HIDE DEF t
<1>9. RangeInv'
  BY <1>1, <1>4, <1>6, <1>7, <1>8, SameDeclared DEF RangeInv, MapOf, Extends, t
<1> QED
  BY <1>3, <1>5, <1>9

LEMMA EndMergeInv ==
  ASSUME Inv, EndMerge
  PROVE  FilesInv' /\ MergedInv' /\ RangeInv'
<1> DEFINE t == Head(chain)
<1>1. /\ asked # None /\ chain # <<>> /\ pc = "range" /\ todo = {}
      /\ merged' = target /\ chain' = Tail(chain) /\ pc' = "stage"
      /\ UNCHANGED <<declared, files, asked>>
  BY DEF EndMerge, Inv, ChainInv
<1>2. /\ asked \in Stage /\ Merged \in 1..Len(Ancestry[asked]) /\ t \in Stage
      /\ t = Line(asked)[Merged + 1] /\ Ancestry[asked] \in Seq(Stage) /\ Merged \in Nat
  BY <1>1, ChainHead DEF Inv
<1>3. FilesInv'
  BY <1>1 DEF Inv, FilesInv, Sound, FromNearest, Fills, Declared
<1>4. Merged' = Merged + 1
  <2>1. chain \in Seq(Stage) /\ Len(Tail(chain)) = Len(chain) - 1 /\ Len(chain) \in Int
    BY <1>1 DEF Inv, TypeOK
  <2>2. Len(Ancestry[asked]) \in Int
    BY <1>2
  <2> QED
    BY <1>1, <2>1, <2>2 DEF Merged
<1>5. Sound(target, asked, Merged + 1)
  BY <1>1 DEF Inv, RangeInv
<1>6. ASSUME NEW i \in 1..(Merged + 1) PROVE Dests(Declared(asked, i)) \subseteq Dests(target)
  <2>1. CASE i = Merged + 1
    <3>1. Extends(target, MapOf(t, declared)) /\ Declared(asked, i) = MapOf(t, declared)
      BY <1>1, <1>2, <2>1 DEF Inv, RangeInv, Declared
    <3> QED
      BY <3>1 DEF Extends, Dests
  <2>2. CASE i # Merged + 1
    <3>1. i \in 1..Merged
      BY <1>2, <2>2
    <3>2. Dests(Declared(asked, i)) \subseteq Dests(merged)
      BY <1>1, <3>1 DEF Inv, MergedInv, Filled
    <3>3. Dests(merged) \subseteq Dests(target)
      BY <1>1 DEF Inv, RangeInv, Dests
    <3> QED
      BY <3>2, <3>3
  <2> QED
    BY <2>1, <2>2
<1>7. Filled(target, asked, Merged + 1)
  BY <1>6 DEF Filled
<1>8. Extends(target, Declared(asked, Merged + 1))
  BY <1>1, <1>2 DEF Inv, RangeInv, Declared
<1> HIDE DEF t
<1>10. MergedInv'
  BY <1>1, <1>4, <1>5, <1>7, <1>8, SameDeclared DEF MergedInv, Extends
<1>9. RangeInv'
  BY <1>1 DEF RangeInv
<1> QED
  BY <1>3, <1>9, <1>10

\* The one step that writes in the map of the overriding stage.
LEMMA MergeEntryInv ==
  ASSUME OneDestination, Inv, NEW src \in Source, MergeEntry(src)
  PROVE  FilesInv' /\ MergedInv' /\ RangeInv'
<1> DEFINE t == Head(chain)
           d == merged[src]
<1>1. /\ asked # None /\ chain # <<>> /\ pc = "range" /\ src \in todo /\ todo' = todo \ {src}
      /\ UNCHANGED <<declared, asked, chain, merged, pc>>
  BY DEF MergeEntry, Inv, ChainInv
<1>2. /\ asked \in Stage /\ Merged \in 1..Len(Ancestry[asked]) /\ t \in Stage /\ Merged \in Nat
      /\ t = Line(asked)[Merged + 1] /\ t = Ancestry[asked][Merged]
      /\ Len(Line(asked)) = Len(Ancestry[asked]) + 1 /\ Ancestry[asked] \in Seq(Stage)
  BY <1>1, ChainHead DEF Inv
<1>3. /\ known = Dests(target) /\ (files[t] # None => target = files[t])
      /\ Extends(target, MapOf(t, declared)) /\ Sound(target, asked, Merged + 1)
      /\ \A s \in DOMAIN merged \ todo : merged[s] \in known
  BY <1>1 DEF Inv, RangeInv
<1>4. /\ Sound(merged, asked, Merged) /\ src \in DOMAIN merged /\ d \in Dest
      /\ target \in PathsMap /\ files \in [Owner -> PathsMap \cup {None}]
      /\ declared \in Definitions
  BY <1>1, PathsMapIs DEF Inv, MergedInv, TypeOK
<1>5. Merged' = Merged
  BY <1>1 DEF Merged
<1>6. MergedInv'
  BY <1>1, <1>5, SameDeclared DEF Inv, MergedInv, Extends
<1>7. CASE d \in known
  <2>1. UNCHANGED <<files, target, known>>
    BY <1>7 DEF MergeEntry
  <2>2. FilesInv'
    BY <1>1, <2>1, SameDeclared DEF Inv, FilesInv, MapOf, Extends
  <2>3. \A s \in DOMAIN merged \ todo' : merged[s] \in known
    BY <1>1, <1>3, <1>7
  <2>4. RangeInv'
    BY <1>1, <1>3, <1>5, <2>1, <2>3, SameDeclared DEF RangeInv, MapOf, Extends
  <2> QED
    BY <1>6, <2>2, <2>4
<1>8. CASE d \notin known
  <2>1. /\ target' = With(target, src, d) /\ known' = known \cup {d}
        /\ files' = IF files[t] = None THEN files ELSE [files EXCEPT ![t] = target']
    BY <1>8 DEF MergeEntry
  <2>2. src \notin DOMAIN target
    <3>1. Merged \in 0..Len(Line(asked)) /\ Merged + 1 \in 0..Len(Line(asked))
      BY <1>2
    <3>2. src \in DOMAIN target => target[src] = d
      BY <1>2, <1>3, <1>4, <3>1, SoundAgree
    <3> QED
      BY <1>3, <1>8, <3>2 DEF Dests
  <2>3. /\ target' \in PathsMap /\ target' # None
        /\ DOMAIN target' = DOMAIN target \cup {src} /\ target'[src] = d
        /\ \A s \in DOMAIN target : target'[s] = target[s]
    <3> DEFINE w == With(target, src, d)
    <3> HIDE DEF d
    <3>1. /\ w \in PathsMap /\ DOMAIN w = DOMAIN target \cup {src} /\ w[src] = d
          /\ \A s \in DOMAIN target : s # src => w[s] = target[s]
      BY <1>4, WithAdds
    <3>2. None \notin PathsMap
      BY ConfigAssumption
    <3> HIDE DEF w
    <3>3. target' = w
      BY <2>1 DEF w
    <3> QED
      BY <2>2, <3>1, <3>2, <3>3
  <2>4. Dests(target') = known'
    BY <1>3, <2>1, <2>3 DEF Dests
  <2>5. Extends(target', MapOf(t, declared))
    BY <1>3, <2>3 DEF Extends
  <2>6. ASSUME NEW s \in DOMAIN target PROVE FromNearest(target', asked, Merged + 1, s)
    BY <1>3, <2>3 DEF Sound, FromNearest
  <2>7. FromNearest(target', asked, Merged + 1, src)
    <3>1. PICK i \in 1..Merged :
            /\ src \in DOMAIN Declared(asked, i) /\ Declared(asked, i)[src] = d
            /\ \A j \in (i + 1)..Merged : ~Fills(asked, j, d)
      BY <1>4 DEF Sound, FromNearest
    <3>2. ~Fills(asked, Merged + 1, d)
      <4>1. Declared(asked, Merged + 1) = MapOf(t, declared)
        BY <1>2 DEF Declared
      <4>2. Dests(MapOf(t, declared)) \subseteq known
        BY <1>3 DEF Extends, Dests
      <4> QED
        BY <1>8, <4>1, <4>2 DEF Fills
    <3>3. \A j \in (i + 1)..(Merged + 1) : ~Fills(asked, j, d)
      BY <1>2, <3>1, <3>2
    <3>4. i \in 1..(Merged + 1)
      BY <1>2
    <3> HIDE DEF d
    <3> QED
      BY <2>3, <3>1, <3>3, <3>4 DEF FromNearest
  <2>8. Sound(target', asked, Merged + 1)
    BY <2>3, <2>6, <2>7 DEF Sound
  <2>9. Sound(target', t, Len(Line(t)))
    BY <1>2, <2>8, SoundOfAncestor
  <2>10. t # Base /\ t \in Owner
    BY <1>2, ConfigAssumption DEF Owner
  <2>11. /\ files'[Base] = files[Base]
         /\ \A s \in Stage : s # t => files'[s] = files[s]
         /\ files'[t] = IF files[t] = None THEN None ELSE target'
    BY <1>4, <2>1, <2>10 DEF Owner
  <2> HIDE DEF t
  <2>12. ASSUME NEW s \in Stage
         PROVE  /\ files'[s] = None <=> declared[s] = None
                /\ Extends(MapOf(s, files'), MapOf(s, declared))
                /\ Sound(MapOf(s, files'), s, Len(Line(s)))
    <3>1. /\ files[s] = None <=> declared[s] = None
          /\ Extends(MapOf(s, files), MapOf(s, declared))
          /\ Sound(MapOf(s, files), s, Len(Line(s)))
      BY DEF Inv, FilesInv
    <3>2. CASE s # t \/ files[s] = None
      <4>1. files'[s] = files[s]
        BY <2>11, <3>2
      <4>2. MapOf(s, files') = MapOf(s, files)
        BY <4>1 DEF MapOf
      <4> QED
        BY <3>1, <4>1, <4>2
    <3>3. CASE s = t /\ files[s] # None
      <4>1. MapOf(s, files') = target' /\ files'[s] # None
        BY <2>3, <2>11, <3>3 DEF MapOf
      <4> QED
        BY <2>5, <2>9, <3>1, <3>3, <4>1
    <3> QED
      BY <3>2, <3>3
  <2>13. FilesInv'
    BY <1>1, <2>11, <2>12, SameDeclared DEF Inv, FilesInv, MapOf, Extends
  <2>14. \A s \in DOMAIN merged \ todo' : merged[s] \in known'
    BY <1>1, <1>3, <2>1
  <2>15. files'[t] # None => target' = files'[t]
    BY <2>11
  <2>16. RangeInv'
    BY <1>1, <1>5, <2>4, <2>5, <2>8, <2>14, <2>15, SameDeclared DEF RangeInv, MapOf, Extends, t
  <2> QED
    BY <1>6, <2>13, <2>16
<1> QED
  BY <1>7, <1>8

LEMMA NextInv == OneDestination /\ Inv /\ [Next]_vars => Inv'
<1> SUFFICES ASSUME OneDestination, Inv, [Next]_vars PROVE Inv'
  OBVIOUS
<1>1. TypeOK' /\ ChainInv'
  BY NextTypeOK, NextChainInv DEF Inv
<1>2. CASE EndResolve
  <2>1. pc' = "idle" /\ UNCHANGED <<declared, files, asked, chain, merged>>
    BY <1>2 DEF EndResolve
  <2>2. Merged' = Merged
    BY <2>1 DEF Merged
  <2>3. FilesInv' /\ MergedInv' /\ RangeInv'
    BY <2>1, <2>2, SameDeclared DEF Inv, FilesInv, MergedInv, RangeInv, MapOf, Extends
  <2> QED
    BY <1>1, <2>3 DEF Inv
<1>3. CASE UNCHANGED vars
  <2>1. UNCHANGED <<declared, files, asked, chain, merged, target, known, todo, pc>>
    BY <1>3 DEF vars
  <2>2. Merged' = Merged
    BY <2>1 DEF Merged
  <2>3. FilesInv' /\ MergedInv' /\ RangeInv'
    BY <2>1, <2>2, SameDeclared DEF Inv, FilesInv, MergedInv, RangeInv, MapOf, Extends
  <2> QED
    BY <1>1, <2>3 DEF Inv
<1> QED
  BY <1>1, <1>2, <1>3, ResolveInv, StartMergeInv, MergeEntryInv, EndMergeInv DEF Next, Inv

LEMMA Invariance ==
  ASSUME OneDestination
  PROVE  Spec => []Inv
<1>1. Spec => []Inv
  BY InitInv, NextInv, PTL DEF Spec
<1> QED
  BY <1>1

\* Types are kept whatever the destinations of a source.
THEOREM TypeCorrect == Spec => []TypeOK
<1>1. Init => TypeOK /\ ChainInv
  BY InitInv DEF Inv
<1> QED
  BY <1>1, NextTypeOK, NextChainInv, PTL DEF Spec

-----------------------------------------------------------------------------
(* What a stage that is resolved has.                                      *)

LEMMA ResolvedIs ==
  ASSUME Inv, Resolved
  PROVE  /\ asked \in Stage /\ Len(Line(asked)) \in Nat /\ Len(Line(asked)) >= 2
         /\ Sound(merged, asked, Len(Line(asked))) /\ Filled(merged, asked, Len(Line(asked)))
         /\ Extends(merged, MapOf(asked, declared))
         /\ DOMAIN Line(asked) = 1..Len(Line(asked)) /\ Line(asked)[Len(Line(asked))] = asked
<1>1. asked \in Stage /\ chain = <<>> /\ asked # None
  BY DEF Inv, TypeOK, ChainInv, Resolved
<1>2. /\ Ancestry[asked] \in Seq(Stage) /\ Line(asked) \in Seq(Owner)
      /\ Len(Line(asked)) = Len(Ancestry[asked]) + 1
      /\ Ancestry[asked] # <<>> /\ Ancestry[asked][Len(Ancestry[asked])] = asked
      /\ \A i \in 1..Len(Ancestry[asked]) : Line(asked)[i + 1] = Ancestry[asked][i]
  BY <1>1, LineIs, ConfigAssumption
<1>3. Merged = Len(Line(asked))
  BY <1>1, <1>2 DEF Merged
<1>4. Len(Ancestry[asked]) \in 1..Len(Ancestry[asked])
  BY <1>2
<1> QED
  BY <1>1, <1>2, <1>3, <1>4 DEF Inv, MergedInv, Declared

\* When sources have one destination, a resolved stage has no config file but those
\* of its ancestors and its own: however many stages were resolved before, what they
\* left in the maps of the definition never leaks to another branch.
THEOREM ResolutionsDoNotLeak ==
  ASSUME OneDestination
  PROVE  Spec => []OnlyAncestors
<1>1. ASSUME Inv PROVE OnlyAncestors
  <2> SUFFICES ASSUME Resolved, NEW src \in DOMAIN merged
               PROVE  \E i \in DOMAIN Line(asked) :
                        LET own == MapOf(Line(asked)[i], declared) IN
                        src \in DOMAIN own /\ own[src] = merged[src]
    BY DEF OnlyAncestors
  <2> QED
    BY <1>1, ResolvedIs DEF Sound, FromNearest, Declared
<1>2. Spec => []OnlyAncestors
  BY <1>1, Invariance, PTL
<1> QED
  BY <1>2

\* When sources have one destination, a resolved stage has all of its own config
\* files, where it puts them.
THEOREM OwnEntriesWin ==
  ASSUME OneDestination
  PROVE  Spec => []OwnFilesWin
<1>1. ASSUME Inv PROVE OwnFilesWin
  <2> SUFFICES ASSUME Resolved, NEW src \in DOMAIN MapOf(asked, declared)
               PROVE  src \in DOMAIN merged /\ merged[src] = declared[asked][src]
    BY DEF OwnFilesWin
  <2>1. src \in DOMAIN merged /\ merged[src] = MapOf(asked, declared)[src]
    BY <1>1, ResolvedIs DEF Extends
  <2>2. MapOf(asked, declared) # Empty
    BY EmptyPathsMap
  <2> QED
    BY <2>1, <2>2 DEF MapOf
<1>2. Spec => []OwnFilesWin
  BY <1>1, Invariance, PTL
<1> QED
  BY <1>2

\* When sources have one destination, each destination is filled by the nearest of
\* the stage and its ancestors that fill it, and by no other.
THEOREM NearestStageFills ==
  ASSUME OneDestination
  PROVE  Spec => []NearestFills
<1>1. ASSUME Inv PROVE NearestFills
  <2> DEFINE n == Len(Line(asked))
  <2> SUFFICES ASSUME Resolved,
                      NEW d \in UNION {Dests(MapOf(Line(asked)[i], declared)) : i \in DOMAIN Line(asked)}
               PROVE  LET owners == {i \in DOMAIN Line(asked) : d \in Dests(MapOf(Line(asked)[i], declared))}
                          nearest == Line(asked)[CHOOSE i \in owners : \A j \in owners : j <= i]
                          sources == {src \in DOMAIN merged : merged[src] = d}
                      IN  /\ sources # {}
                          /\ \A src \in sources : /\ src \in DOMAIN declared[nearest]
                                                  /\ declared[nearest][src] = d
    BY DEF NearestFills
  <2> DEFINE owners == {i \in DOMAIN Line(asked) : d \in Dests(MapOf(Line(asked)[i], declared))}
             last == CHOOSE i \in owners : \A j \in owners : j <= i
             sources == {src \in DOMAIN merged : merged[src] = d}
  <2>1. /\ n \in Nat /\ DOMAIN Line(asked) = 1..n
        /\ Sound(merged, asked, n) /\ Filled(merged, asked, n)
    BY <1>1, ResolvedIs
  <2>2. sources # {}
    <3>1. d \in Dests(merged)
      BY <2>1 DEF Filled, Declared
    <3> QED
      BY <3>1 DEF Dests
  <2>3. ASSUME NEW src \in sources
        PROVE  src \in DOMAIN declared[Line(asked)[last]] /\ declared[Line(asked)[last]][src] = d
    <3>1. PICK i \in 1..n : /\ src \in DOMAIN Declared(asked, i) /\ Declared(asked, i)[src] = d
                            /\ \A j \in (i + 1)..n : ~Fills(asked, j, d)
      BY <2>1 DEF Sound, FromNearest
    <3>2. i \in owners
      BY <2>1, <3>1 DEF Declared, Dests
    <3>3. \A j \in owners : j <= i
      BY <2>1, <3>1 DEF Fills, Declared
    <3>4. \A k \in owners : (\A j \in owners : j <= k) => k = i
      BY <2>1, <3>2, <3>3
    <3>5. last = i
      <4> HIDE DEF owners
      <4> QED
        BY <3>2, <3>3, <3>4
    <3>6. Declared(asked, i) # Empty
      BY <3>1, EmptyPathsMap
    <3>7. declared[Line(asked)[i]] = Declared(asked, i)
      BY <3>6 DEF Declared, MapOf
    <3> QED
      BY <3>1, <3>5, <3>7
  <2> QED
    BY <2>2, <2>3
<1>2. Spec => []NearestFills
  BY <1>1, Invariance, PTL
<1> QED
  BY <1>2
=============================================================================
