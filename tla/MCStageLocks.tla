---------------------------- MODULE MCStageLocks ----------------------------
(* Small definitions for TLC.                                               *)
EXTENDS StageLocks, TLC

MCExt == Inferable \cup {"gd", "gd.jpeg", "redis", "mbstring"}
MCPackage == {"git", "unzip", "curl", "libzip", "libpng", "libjpeg", "libxml2"}
MCCore == {"soap", "sockets", "zip", "opcache", "gd", "gd.jpeg", "mbstring"}
MCPreinstalled == {"mbstring"}
MCDeps ==
  [e \in MCExt |->
     CASE e = "zip" -> [debian |-> {"libzip"}, alpine |-> {"libzip", "libxml2"}]
       [] e = "soap" -> [debian |-> {"libxml2"}, alpine |-> {"libxml2"}]
       [] e = "gd" -> [debian |-> {"libpng"}, alpine |-> {"libpng"}]
       [] e = "gd.jpeg" -> [debian |-> {"libjpeg"}, alpine |-> {"libjpeg"}]
       [] OTHER -> [debian |-> {}, alpine |-> {}]]
MCPecl == [e \in MCExt |-> IF e = "redis" THEN {"1", "2"} ELSE IF e = "apcu" THEN {"1"} ELSE {}]

Reqs(prod, dev) == [prod |-> prod, dev |-> dev]
MCContents ==
  {Reqs("redis" :> "1" @@ "apcu" :> "2", Wild({"soap"})),
   Reqs(Wild({"mbstring", "gd"}), "redis" :> "2")}

Plain(dev) ==
  [dev |-> dev, served |-> TRUE, command |-> FALSE, dump |-> {"authoritative"},
   extensions |-> Wild({}), packages |-> {}]

PHPStages(dev) ==
  {[Plain(dev) EXCEPT !.extensions = m] :
     m \in {Wild({}), Wild({"gd.jpeg"}), Wild({"gd.jpeg", "gd"}), "redis" :> "2"}}
  \cup {[Plain(dev) EXCEPT !.served = FALSE, !.command = c] : c \in BOOLEAN}
  \cup {[Plain(dev) EXCEPT !.dump = @ \cup {"apcu"}]}

NoHealthcheck == [s \in {"base", "dev", "prod"} |-> None]

PHPs ==
  {[kind |-> "php", os |-> place[1], infer |-> place[2], bundled |-> place[3], health |-> NoHealthcheck,
    stages |-> [dev |-> pair[1], prod |-> pair[2]]] :
     place \in {<<"debian", TRUE, MCPreinstalled>>, <<"alpine", TRUE, {}>>,
              <<"debian", FALSE, MCPreinstalled>>},
     pair \in PHPStages(TRUE) \X {Plain(FALSE)} \cup {Plain(TRUE)} \X PHPStages(FALSE)}

Given(kind) ==
  {None} \cup {DecodeBool(kind, b) : b \in BOOLEAN}
    \cup [type : Types \cup {"unset"}, blocks : {{}, {"http"}, {"fcgi", "cmd"}}]

CheckedOf(kind) ==
  {[kind |-> kind, os |-> "debian", infer |-> FALSE, bundled |-> {},
    health |-> [base |-> b, dev |-> None, prod |-> p],
    stages |-> [dev |-> Plain(TRUE), prod |-> [Plain(FALSE) EXCEPT !.served = served]]] :
     b \in Given(kind), p \in {None, Disabled, [type |-> "http", blocks |-> {"cmd"}]},
     served \in BOOLEAN}

Webservers ==
  {[kind |-> "webserver", os |-> "alpine", infer |-> FALSE, bundled |-> {},
    health |-> [base |-> None, site |-> hc], stages |-> [site |-> Plain(FALSE)]] :
     hc \in Given("webserver")}

Definitions == PHPs \cup CheckedOf("php") \cup CheckedOf("nodejs") \cup Webservers
=============================================================================
