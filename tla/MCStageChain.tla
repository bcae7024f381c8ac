---------------------------- MODULE MCStageChain ----------------------------
(* Every way of deriving the stages from one another, with every setting of
   dev, and of fpm and healthcheck on the stage that is not a default one.   *)
EXTENDS StageChain

Written(name) ==
  [derive_from : Parent, dev : Option, fpm : IF name = "a" THEN {Nil, FALSE} ELSE {Nil},
   healthcheck : IF name = "a" THEN {Nil, FALSE} ELSE {Nil}, sources : {<<name>>}]

\* A user may leave any of the stages out.
MCDefinitions ==
  UNION {{f \in [N -> UNION {Written(n) : n \in N}] : \A n \in N : f[n] \in Written(n)} :
           N \in SUBSET Name}
=============================================================================
