---------------------------- MODULE MCConfigFiles ----------------------------
(* Small definitions for TLC: a and b are siblings, c derives from a.        *)
EXTENDS ConfigFiles

CONSTANTS a, b, c, f1, f2, f3, ini, conf

MCAncestry == [s \in Stage |-> IF s = c THEN <<a, c>> ELSE <<s>>]

\* Every file is for one destination: f1 and f2 for ini, f3 for conf.
Fixed(f) == \A s \in DOMAIN f : f[s] = (IF s = f3 THEN conf ELSE ini)
FixedDefinition == [Owner -> {f \in PathsMap : Fixed(f)} \cup {None}]
=============================================================================
