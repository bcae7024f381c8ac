---------------------------- MODULE MCImageBuild ----------------------------
(* Small definitions for TLC.                                               *)
EXTENDS ImageBuild

Words == {"curl", "git", "gd", "redis", "tool", "file"}

State == "data"
Inside == <<Relative, State>>
Outside == <<"/", State>>

\* Stages that leave nothing to the order of a map: at most one global package and one
\* configured extension.
Stages(dirs, config, sources) ==
  [kind : {"php", "nodejs"}, dev : BOOLEAN, os : {"debian", "alpine"},
   packages : {{}, {"curl", "git"}}, extensions : {{}, {"gd", "redis"}},
   globals : {{}, {"tool"}}, external : {<<>>, <<"file">>}, dirs : dirs,
   config : config, sources : sources, command : BOOLEAN, web : {None}]

Small(d) ==
  /\ (d.kind = "nodejs" => d.extensions = {}) /\ (d.kind = "php" => ~d.command)
  /\ (d.os = "alpine" => d.packages # {})
  /\ (d.packages = {} => d.globals = {} /\ d.external = <<>>)
  /\ (d.extensions = {} <=> d.globals = {} \/ d.kind = "nodejs")

\* A local context, with state under one of the sources or not.
LocalStages ==
  {d \in Stages({<<Inside>>, <<Outside, Inside>>}, {{}, {<<Relative, "conf">>}},
                {{"main"}, {"main", State}}) : Small(d)}

\* A git context, whose state directories are elsewhere.
GitStages ==
  {d \in Stages({<<>>, <<Outside>>}, {{}, {<<"/", "conf">>}},
                {{"main"}, {"main", "conf"}}) : Small(d)}

\* A webserver, alone or in the definition of an application.
Assets ==
  {<<>>, <<<<"app", "built">>, <<Relative, "deps">>>>,
   <<<<Relative, "built">>, <<Relative, "main">>, Inside>>}

ServedStages ==
  [kind : {"php", "nodejs", "webserver"}, dev : BOOLEAN, os : {"debian", "alpine"},
   packages : {{}}, extensions : {{}}, globals : {{}}, external : {<<>>}, dirs : {<<Inside>>},
   config : {{}}, sources : {{"main"}, {"main", "built", State}}, command : BOOLEAN,
   web : [packages : {{"curl", "git"}}, config : {{}, {"conf", "main"}}, assets : Assets]]

Builds == (LocalStages \cup ServedStages) \X {"local"} \cup GitStages \X {"git"}
=============================================================================
