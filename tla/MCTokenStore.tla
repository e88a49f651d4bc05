----------------------------- MODULE MCTokenStore -----------------------------
(* Small instances of TokenStore: a push-to-start token, which is durable  *)
(* and belongs to no activity, and perActivity tokens of one activity.     *)
EXTENDS TokenStore

CONSTANTS start, first, activity, none, e1, e2, e3

MCActivityOf == [t \in Tokens |-> IF t = start THEN none ELSE activity]

(* The durable token once or twice, and a perActivity token.               *)
MCTokenOf == [e \in Emissions |-> IF e = e2 THEN first ELSE start]
=============================================================================
