----------------------------- MODULE ExampleDomain -----------------------------
(***************************************************************************)
(* packages/example-domain: a delivery order and the snapshot of each kind *)
(* it is projected to, by the example backend and by the Delivery screen.  *)
(*                                                                         *)
(* An order is its stage, the minutes left ("none" for undefined) and      *)
(* whether it has a driver.                                                *)
(***************************************************************************)
EXTENDS Integers, SurfaceContract

DeliveryStages == {"placed", "preparing", "out_for_delivery", "delivered"}

(* The tables of the stages; progress is counted in thirds.                *)
stageToLiveSurfaceStage ==
  [placed |-> "prompted", preparing |-> "inProgress", out_for_delivery |-> "inProgress",
   delivered |-> "completing"]

stageToState ==
  [placed |-> "queued", preparing |-> "active", out_for_delivery |-> "active",
   delivered |-> "completed"]

stageToProgress == [placed |-> 0, preparing |-> 1, out_for_delivery |-> 2, delivered |-> 3]

(* What the body and the short text say of the time left: "soon" when the  *)
(* order has none.                                                         *)
subtitleFor(order) ==
  CASE order.stage = "out_for_delivery" -> IF order.eta = "none" THEN "soon" ELSE "eta"
    [] OTHER -> order.stage

shortEta(order) ==
  CASE order.stage = "delivered" -> "done"
    [] OTHER -> IF order.eta = "none" THEN "soon" ELSE "eta"

initialDeliveryOrder == [stage |-> "placed", eta |-> "minutes", driver |-> FALSE]

mockTickOrder(order, next) ==
  [stage |-> next, eta |-> IF next = "delivered" THEN "none" ELSE "minutes",
   driver |-> order.driver \/ next = "out_for_delivery"]

(* The orders the screen and the backend come to: a driver is kept.        *)
Ticked(orders) == orders \cup {mockTickOrder(o, next) : o \in orders, next \in DeliveryStages}
Orders == Ticked(Ticked({initialDeliveryOrder}))

-----------------------------------------------------------------------------
(* The slices.                                                             *)

Values(keys) == [key \in keys |-> "value"]

toLiveActivity(order) ==
  Values({"title", "body", "progress", "deepLink", "modeLabel", "contextLabel", "statusLine",
          "stage", "estimatedSeconds", "morePartsCount"}
           \cup {k \in {"actionLabel"} : order.stage \in {"out_for_delivery", "delivered"}})

toWidget(order) == Values({"title", "body", "progress", "deepLink", "family", "reloadPolicy"})

toControl(order) == Values({"label", "deepLink", "controlKind", "state", "intent"})

toNotification(order) ==
  Values({"title", "body", "deepLink", "category"}
           \cup {k \in {"interruptionLevel"} : order.stage \in {"out_for_delivery", "delivered"}})

toLockAccessory(order) == Values({"title", "deepLink", "family", "gaugeValue", "shortText"})

toStandby(order) == Values({"title", "body", "progress", "deepLink", "presentation", "tint"})

(* The snapshot, before assertSnapshot.                                    *)
deliveryToSnapshot(order, kind) ==
  LET slice == CASE kind = "liveActivity" -> toLiveActivity(order)
                 [] kind = "widget" -> toWidget(order)
                 [] kind = "control" -> toControl(order)
                 [] kind = "notification" -> toNotification(order)
                 [] kind = "lockAccessory" -> toLockAccessory(order)
                 [] kind = "standby" -> toStandby(order)
  IN [kind |-> kind, base |-> Values(DOMAIN Base), slices |-> [k \in {kind} |-> slice]]
=============================================================================
