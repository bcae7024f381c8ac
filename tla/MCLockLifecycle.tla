-------------------------- MODULE MCLockLifecycle --------------------------
(* Small instances of LockLifecycle for TLC.                               *)
EXTENDS LockLifecycle

CONSTANTS php1, php2, node, web, phpweb, dev, prod, site, t1, t2, g1, g2

MCKind == [d \in Def |-> CASE d = node -> "nodejs" [] d = web -> "webserver" [] OTHER -> "php"]
MCWeb == [d \in Def |-> IF d = phpweb THEN web ELSE None]
MCStages == [d \in Def |-> CASE d = web -> {site}
                             [] d = php2 -> {dev}
                             [] OTHER -> {dev, prod}]
MCRank == [s \in Stage |-> IF s = dev THEN 1 ELSE IF s = prod THEN 2 ELSE 3]
MCImageTag == [d \in Def |-> IF d = web /\ t2 \in Tag THEN t2 ELSE t1]

AlwaysFull == {FullUpdate}
AnyFlags == SUBSET FullUpdate
=============================================================================
