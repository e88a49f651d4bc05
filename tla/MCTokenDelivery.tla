--------------------------- MODULE MCTokenDelivery ---------------------------
(* Records for TokenDelivery: a token of an activity emitted twice, what its *)
(* end leaves of it in the store (the same key and recordedAt: transition in *)
(* index.ts changes the lifecycle only), the token it rotated to, an APNs    *)
(* device token the host forwards itself, and a record that is malformed.    *)
EXTENDS TokenDelivery

CONSTANTS first, rotated, device, e1, e2, e3, e4, e5, e6

Rec(k, at, life) == [key |-> k, at |-> at, life |-> life]

MCKeys == {first, rotated, device}
MCKindOf == [k \in MCKeys |-> IF k = device THEN "apnsDevice" ELSE "perActivity"]
MCEmissions == {e1, e2, e3, e4, e5, e6}
MCInvalid == {e6}
MCRecordOf == [e \in MCEmissions |-> CASE e = e1 -> Rec(first, 1, "active")
                                       [] e = e2 -> Rec(first, 1, "dead")
                                       [] e = e3 -> Rec(rotated, 2, "active")
                                       [] e = e4 -> Rec(first, 3, "active")
                                       [] e = e5 -> Rec(device, 2, "active")
                                       [] e = e6 -> Rec(device, 3, "active")]
=============================================================================
