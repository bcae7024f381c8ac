------------------------------ MODULE ImageBuild ------------------------------
(***************************************************************************)
(* How the php and nodejs handlers build a stage: they append layers to    *)
(* an LLB state, in an order of their own, and describe the image.  The    *)
(* same definition is built twice while its context is edited: BuildKit    *)
(* reuses a layer when its command, the content it copies and all of the   *)
(* layers below it are the ones of an earlier build.                       *)
(*                                                                         *)
(* A path is a directory and a name: "app" is the working directory of     *)
(* the image, "base" the one of its base image, "/" any other; paths of a  *)
(* definition may be relative.  Commands are their arguments.              *)
(*                                                                         *)
(* The image of a webserver has an LLB state of its own.  When its         *)
(* definition is in the one of an application, the stage of the            *)
(* application is built first, and assets are copied from it.              *)
(***************************************************************************)
EXTENDS Naturals, Sequences, SequencesExt

CONSTANTS
  Inputs,      \* {<<a stage to build, the type of its source context>>}
  Word,        \* the names of packages, of extensions and of external files
  MaxEdits,    \* bound on the edits of the context, for TLC
  None

\* Files of the context: composer.json or package.json with its lock, dependencies
\* someone installed there, a source, a configuration file, a directory that holds
\* state, the file that config_files copies, and what the commands of the end make.
Name == {"manifest", "deps", "main", "conf", "data", "dist", "built"}
Root == {"app", "base", "/"}
Relative == "relative"
Path == Root \X Name
Webserver ==
  [packages : SUBSET Word, config : SUBSET Name,
   assets : Seq((Root \cup {Relative}) \X Name)]
ADefinition ==
  [kind : {"php", "nodejs", "webserver"}, dev : BOOLEAN, os : {"debian", "alpine"},
   packages : SUBSET Word, extensions : SUBSET Word, globals : SUBSET Word,
   external : Seq(Word), dirs : Seq((Root \cup {Relative}) \X Name),
   config : SUBSET ((Root \cup {Relative}) \X Name), sources : SUBSET Name,
   command : BOOLEAN, web : Webserver \cup {None}]

ASSUME ImageAssumption ==
  /\ Inputs \subseteq ADefinition \X {"git", "local"}
  /\ \A i \in Inputs :
       /\ IsFiniteSet(i[1].packages) /\ IsFiniteSet(i[1].extensions)
       /\ IsFiniteSet(i[1].globals)
       /\ i[1].web # None => IsFiniteSet(i[1].web.packages)
  /\ MaxEdits \in Nat

VARIABLES
  def, type,
  manager,  \* the package manager of nodejs the build uses
  opts,     \* the build options: whether to ignore the cache, and to mount caches
  versions, \* [Name -> version of this file of the context]
  step,     \* the steps left of the build
  cwd,      \* the current directory of the LLB state
  files,    \* [Path -> what the image has there]
  layers,   \* the layers of the LLB state
  volumes,  \* the volumes the image declares
  site,     \* the LLB state of the webserver, or None
  before    \* the previous build, or None

request == <<def, type, manager, opts>>
vars == <<def, type, manager, opts, versions, step, cwd, files, layers, volumes, site, before>>

Setup(d) ==
  IF d.kind = "php"
    THEN <<"base", "packages", "extensions", "external", "dirs", "config", "globals">>
    ELSE <<"base", "packages", "external", "dirs", "globals">>

Serve == <<"web-base", "web-packages", "web-config", "web-assets">>

\* Slips: sources are copied before dependencies are installed; the webserver is built
\* before the commands of the end.
StepsSourcesFirst(d) ==
  Setup(d) \o (IF d.dev THEN <<>>
               ELSE IF d.kind = "php" THEN <<"sources", "deps", "finish">>
               ELSE <<"config", "sources", "deps", "finish">>) \o <<"metadata">>
StepsServedFirst(d) ==
  Setup(d) \o <<"deps", "sources">> \o (IF d.web = None THEN <<>> ELSE Serve)
    \o <<"finish", "metadata">>

Steps(d) ==
  (IF d.kind = "webserver" THEN <<>>
   ELSE Setup(d) \o (IF d.dev THEN <<>>
                     ELSE IF d.kind = "php" THEN <<"deps", "sources", "finish">>
                     ELSE <<"deps", "config", "sources", "finish">>) \o <<"metadata">>)
    \o (IF d.web = None THEN <<>> ELSE Serve)

Content == {"nothing", "directory", "config", "context", "installed", "made"}
Argument ==
  Word \cup Root \cup {Relative} \cup Name
    \cup {"composer", "keep-cache", "composer.*", "package.json", "package-lock.json",
          "yarn.lock", "npm", "yarn", "sources"}
Layer == [op : {"copy", "run", "packages", "extensions", "external", "mkdir", "globals",
                "deps", "finish"},
          args : Seq(Argument),
          digest : SUBSET (Name \X (0..MaxEdits)), \* what it copies of the context
          ignore : BOOLEAN]                        \* llb.IgnoreCache

\* npm when the context has package-lock.json, which a build looks for once, as it
\* starts.
Managers(d) == IF d.kind = "nodejs" THEN {"npm", "yarn"} ELSE {None}

TypeOK ==
  /\ <<def, type>> \in Inputs
  /\ manager \in Managers(def)
  /\ opts \in [ignore : BOOLEAN, mounts : BOOLEAN]
  /\ versions \in [Name -> 0..MaxEdits]
  /\ \E i \in 1..Len(Steps(def)) + 1 : step = SubSeq(Steps(def), i, Len(Steps(def)))
  /\ cwd = IF def.kind = "webserver" \/ "dirs" \in ToSet(step) THEN "base" ELSE "app"
  /\ files \in [Path -> Content]
  /\ layers \in Seq(Layer)
  /\ volumes \subseteq Path
  /\ site # None => site.layers \in Seq(Layer) /\ site.files \in [Name -> Content]

NothingBuilt ==
  /\ step = Steps(def) /\ cwd = "base" /\ layers = <<>> /\ volumes = {} /\ site = None
  /\ files = [p \in Path |-> "nothing"]

Init ==
  /\ \E i \in Inputs : def = i[1] /\ type = i[2]
  /\ manager \in Managers(def)
  /\ opts \in [ignore : BOOLEAN, mounts : BOOLEAN]
  /\ versions = [n \in Name |-> 0]
  /\ NothingBuilt
  /\ before = None

-----------------------------------------------------------------------------
(* The steps of a build.                                                   *)

Resolve(dir, p) == IF p[1] = Relative THEN <<dir, p[2]>> ELSE p

At(s) == step # <<>> /\ Head(step) = s

\* Run or copy, with the cache the options ask for; Bare is without it.
Run(op, args) == [op |-> op, args |-> args, digest |-> {}, ignore |-> opts.ignore]
Bare(op, args) == [Run(op, args) EXCEPT !.ignore = FALSE]
Copy(names, args) ==
  [Run("copy", args) EXCEPT !.digest = {<<n, versions[n]>> : n \in names}]

Build(new) ==
  /\ step' = Tail(step)
  /\ layers' = layers \o new
  /\ UNCHANGED <<request, versions, site, before>>

Put(paths, content) == [p \in Path |-> IF p \in paths THEN content ELSE files[p]]

\* The handler of php starts with a copy of the composer binary.
StartFromBase ==
  /\ At("base")
  /\ Build(IF def.kind = "php" THEN <<Run("copy", <<"composer">>)>> ELSE <<>>)
  /\ UNCHANGED <<cwd, files, volumes>>

InstallLocked(packages) ==
  (IF opts.mounts /\ def.os = "debian" THEN <<Bare("run", <<"keep-cache">>)>> ELSE <<>>)
    \o <<Run("packages", packages)>>

\* A slip: the locked packages, a map, are not sorted.
InstallUnsorted ==
  /\ At("packages")
  /\ \E packages \in SetToSeqs(def.packages) :
       Build(IF def.packages = {} THEN <<>> ELSE InstallLocked(packages))
  /\ UNCHANGED <<cwd, files, volumes>>

InstallPackages ==
  /\ At("packages")
  /\ Build(IF def.packages = {} THEN <<>> ELSE InstallLocked(SetToSeq(def.packages)))
  /\ UNCHANGED <<cwd, files, volumes>>

\* Those of the extensions that have to be configured are, in the order of a map.
InstallExtensions ==
  /\ At("extensions")
  /\ \E configured \in SetToSeqs(def.extensions \cap {"gd", "imap"}) :
       Build(IF def.extensions = {} THEN <<>>
             ELSE <<Run("extensions", configured \o SetToSeq(def.extensions))>>)
  /\ UNCHANGED <<cwd, files, volumes>>

CopyExternalFiles ==
  /\ At("external")
  /\ Build([i \in DOMAIN def.external |-> Bare("external", <<def.external[i]>>)])
  /\ UNCHANGED <<cwd, files, volumes>>

\* A slip: the current directory stays the one of the base image.
MakeDirsOnly ==
  /\ At("dirs")
  /\ Build([i \in DOMAIN def.dirs |-> Bare("mkdir", def.dirs[i])])
  /\ files' = Put({Resolve(cwd, d) : d \in ToSet(def.dirs)}, "directory")
  /\ UNCHANGED <<cwd, volumes>>

\* Directories are made in the current directory, which is changed afterwards; the
\* working directory is the first of them.
MakeDirs ==
  /\ At("dirs")
  /\ Build(<<Bare("mkdir", <<"app">>)>>
           \o [i \in DOMAIN def.dirs |-> Bare("mkdir", def.dirs[i])])
  /\ files' = Put({Resolve(cwd, d) : d \in ToSet(def.dirs)}, "directory")
  /\ cwd' = "app"
  /\ UNCHANGED volumes

CopyConfigFiles ==
  /\ At("config")
  /\ LET dests == SetToSeq(def.config) IN
     Build([i \in DOMAIN dests |-> Copy({"dist"}, dests[i])])
  /\ files' = Put({Resolve("app", p) : p \in def.config}, "config")
  /\ UNCHANGED <<cwd, volumes>>

\* The commands of npm and of yarn differ.
Tool == IF def.kind = "nodejs" THEN <<manager>> ELSE <<>>

\* The global packages are in the order of a map.  php has one of its own.
InstallGlobals ==
  /\ At("globals")
  /\ \E globals \in SetToSeqs(def.globals) :
       Build(IF def.globals = {} /\ def.kind = "nodejs" THEN <<>>
             ELSE <<Run("globals", Tool \o globals)>>)
  /\ UNCHANGED <<cwd, files, volumes>>

\* composer.* is copied at once, package.json and its lock one after the other.
Manifests ==
  IF def.kind = "php" THEN <<"composer.*">>
  ELSE <<"package.json", IF manager = "npm" THEN "package-lock.json" ELSE "yarn.lock">>

InstallDeps ==
  /\ At("deps")
  /\ Build([i \in DOMAIN Manifests |-> Copy({"manifest"}, <<Manifests[i]>>)]
           \o <<Run("deps", Tool)>>)
  /\ files' = [Put({<<"app", "manifest">>}, "context") EXCEPT ![<<"app", "deps">>] = "installed"]
  /\ UNCHANGED <<cwd, volumes>>

\* What is loaded of a local context.  Patterns are matched against its own paths,
\* and without any pattern nothing is left out.
Included == IF def.sources = {} THEN Name ELSE def.sources
Excluded == {d[2] : d \in {d \in ToSet(def.dirs) : d[1] = Relative}}

\* A slip: patterns do not restrict what is loaded of a local context.
SourcesAll == IF type = "local" THEN Name \ Excluded ELSE def.sources

\* A slip: directories with state are not excluded.
SourcesWithState == IF type = "local" THEN Included ELSE def.sources

Sources == IF type = "local" THEN Included \ Excluded ELSE def.sources

\* A local context is copied at once, a git context source by source.
CopySources ==
  /\ At("sources")
  /\ LET each == SetToSeq(Sources) IN
     Build(IF type = "local" THEN <<Copy(Sources, <<"sources">>)>>
           ELSE [i \in DOMAIN each |-> Copy({each[i]}, <<each[i]>>)])
  /\ files' = Put({"app"} \X Sources, "context")
  /\ UNCHANGED <<cwd, volumes>>

\* composer dump-autoload and post-install commands, or the build command.
Finish ==
  /\ At("finish")
  /\ Build(IF def.kind = "php" \/ def.command THEN <<Run("finish", <<>>)>> ELSE <<>>)
  /\ files' = IF def.command THEN Put({<<"app", "built">>}, "made") ELSE files
  /\ UNCHANGED <<cwd, volumes>>

SetImageMetadata ==
  /\ At("metadata")
  /\ Build(<<>>)
  /\ volumes' = {Resolve("app", d) : d \in ToSet(def.dirs)}
  /\ UNCHANGED <<cwd, files>>

-----------------------------------------------------------------------------
(* The steps of the build of a webserver.                                  *)

\* Without the stage of an application there is nothing to copy assets from.
StartWebserver ==
  /\ At("web-base")
  /\ IF def.kind = "webserver" /\ def.web.assets # <<>>
       THEN step' = <<>> /\ UNCHANGED site
       ELSE /\ step' = Tail(step)
            /\ site' = [layers |-> <<>>, files |-> [n \in Name |-> "nothing"]]
  /\ UNCHANGED <<request, versions, cwd, files, layers, volumes, before>>

BuildSite(new, content) ==
  /\ step' = Tail(step)
  /\ site' = [layers |-> site.layers \o new, files |-> content]
  /\ UNCHANGED <<request, versions, cwd, files, layers, volumes, before>>

InstallSitePackages ==
  /\ At("web-packages")
  /\ BuildSite(IF def.web.packages = {} THEN <<>>
               ELSE InstallLocked(SetToSeq(def.web.packages)), site.files)

CopySiteConfig ==
  /\ At("web-config")
  /\ LET dests == SetToSeq(def.web.config) IN
     BuildSite([i \in DOMAIN dests |-> Copy({"dist"}, <<dests[i]>>)],
               [n \in Name |-> IF n \in def.web.config THEN "config" ELSE site.files[n]])

\* Assets come from the state the stage ends with, relative ones from its current
\* directory.
CopyAssets ==
  /\ At("web-assets")
  /\ LET assets == def.web.assets IN
     BuildSite([i \in DOMAIN assets |-> Run("copy", assets[i])],
               [n \in Name |->
                  IF \E a \in ToSet(assets) : a[2] = n
                    THEN files[Resolve(cwd, CHOOSE a \in ToSet(assets) : a[2] = n)]
                    ELSE site.files[n]])

-----------------------------------------------------------------------------
(* The user.                                                               *)

\* The commit of a git context is locked; configuration files are always read in the
\* build context.
Edit(n) ==
  /\ type = "local" \/ n = "dist"
  /\ \A m \in Name \ {n} : versions[m] = 0
  /\ versions[n] < MaxEdits
  /\ versions' = [versions EXCEPT ![n] = @ + 1]
  /\ UNCHANGED <<request, step, cwd, files, layers, volumes, site, before>>

\* The commit of a git context is locked; package-lock.json may have come to a local
\* one, or have left it.
Again ==
  /\ step = <<>> /\ before = None
  /\ before' = [stage |-> layers, site |-> site, manager |-> manager]
  /\ manager' \in IF type = "local" THEN Managers(def) ELSE {manager}
  /\ step' = Steps(def) /\ cwd' = "base" /\ layers' = <<>> /\ volumes' = {} /\ site' = None
  /\ files' = [p \in Path |-> "nothing"]
  /\ UNCHANGED <<def, type, opts, versions>>

Next ==
  \/ StartFromBase \/ InstallPackages \/ InstallExtensions \/ CopyExternalFiles
  \/ MakeDirs \/ CopyConfigFiles \/ InstallGlobals \/ InstallDeps \/ CopySources
  \/ Finish \/ SetImageMetadata
  \/ StartWebserver \/ InstallSitePackages \/ CopySiteConfig \/ CopyAssets
  \/ \E n \in Name : Edit(n)
  \/ Again

Spec == Init /\ [][Next]_vars

-----------------------------------------------------------------------------
(* Properties.                                                             *)

Done == step = <<>>
SameManager == before # None /\ manager = before.manager

Commands(ls) == [i \in DOMAIN ls |-> <<ls[i].op, ls[i].args>>]

\* A definition is always built with the same commands, whatever is edited in the
\* context (llbutils/utils.go:174-175: "to be sure to always run the same command for a
\* given set of packages"): without it nothing is ever reused.  The package manager is
\* part of that: lock files that come or go change it.
SameSteps ==
  Done /\ SameManager =>
    /\ Commands(layers) = Commands(before.stage)
    /\ site # None => Commands(site.layers) = Commands(before.site.layers)

\* What was copied of the files that come before dependencies.
Upstream(ls) ==
  LET names == {"manifest"} \cup (IF def.kind = "php" THEN {"dist"} ELSE {}) IN
  {c \in UNION {ls[i].digest : i \in DOMAIN ls} : c[1] \in names}

\* Dependencies are not installed again when sources are edited, not even in the
\* middle of a build, when the package manager stays: the layers of both builds are
\* the same up to there.
DepsReused ==
  SameManager /\ ~opts.ignore =>
    \A i \in DOMAIN layers :
      layers[i].op = "deps" /\ Upstream(SubSeq(layers, 1, i)) = Upstream(before.stage)
        => IsPrefix(SubSeq(layers, 1, i), before.stage)

\* Only the files a definition lists, and the manifest of its dependencies, are copied
\* (docs/generic-parameters.md:217: "This is the list of source files and directories
\* you want to copy in the image").
OnlySources ==
  \A n \in Name : files[<<"app", n>>] = "context" => n \in def.sources \cup {"manifest"}

\* Nothing of the context is in a directory with state, even one of the sources
\* (php/builder.go:287-288: "Explicitly exclude stateful dirs to ensure they aren't
\* included when they're in one of Sources"), and those outside of the project are
\* there for Docker to give their owner to the volume.
StateDirsEmpty ==
  /\ \A d \in ToSet(def.dirs) : files[Resolve("app", d)] # "context"
  /\ \A v \in volumes : v[1] # "app" => files[v] = "directory"

\* The assets of a webserver are those of the stage of the application once all of it
\* is built, its commands included, whatever the context has at the same paths
\* (docs/kind-php.md:167-169), nor is what a directory with state holds there served.
AssetsFromStage ==
  Done /\ site # None /\ ~def.dev =>
    \A a \in ToSet(def.web.assets) :
      LET content == site.files[a[2]]
          dir == a[1] \in {Relative, "app"}
      IN  /\ dir /\ a[2] = "built" /\ def.command => content = "made"
          /\ dir /\ a[2] = "deps" /\ "deps" \notin Sources => content = "installed"
          /\ dir /\ a[2] = "main" /\ "main" \in Sources => content = "context"
          /\ a \in ToSet(def.dirs) => content # "context"

=============================================================================
