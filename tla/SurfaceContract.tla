--------------------------- MODULE SurfaceContract ---------------------------
(***************************************************************************)
(* The snapshot schemas of packages/surface-contracts (schema.ts), the     *)
(* projections that turn a snapshot into what each surface renders         *)
(* (index.ts), and the alert payload of packages/push (payloads.ts).       *)
(*                                                                         *)
(* An object is a function from the keys it has to the class of the value  *)
(* under each, as far as a schema can tell: a legal "value", the "empty"   *)
(* string, or something "wrong" (another type, out of range, not in the    *)
(* enumeration, another schema version).                                   *)
(***************************************************************************)
EXTENDS Naturals, Functions

(* The class under a key, "absent" also for a key set to undefined.        *)
At(object, key) == IF key \in DOMAIN object THEN object[key] ELSE "absent"

(* What a schema accepts under a key.                                      *)
Required    == {"value"}
AnyText     == {"value", "empty"}
Optional(S) == S \cup {"absent"}

(* A strict Zod object: every key is declared and holds what it may hold.  *)
Accepts(schema, object) ==
  /\ DOMAIN object \subseteq DOMAIN schema
  /\ \A key \in DOMAIN schema : At(object, key) \in schema[key]

-----------------------------------------------------------------------------
(* The slices of the six kinds.                                            *)


LiveActivitySlice ==
  [title |-> Required, body |-> AnyText, progress |-> Required,
   deepLink |-> Required, modeLabel |-> Required, stage |-> Required,
   contextLabel |-> Optional(AnyText), statusLine |-> Optional(AnyText),
   actionLabel |-> Optional(Required), estimatedSeconds |-> Optional(Required),
   morePartsCount |-> Optional(Required)]

WidgetSlice ==
  [title |-> Required, body |-> AnyText, progress |-> Required,
   deepLink |-> Required, family |-> Optional(Required),
   reloadPolicy |-> Optional(Required)]

ControlSlice ==
  [label |-> Required, deepLink |-> Required, controlKind |-> Required,
   state |-> Optional(Required), intent |-> Optional(AnyText)]

LockAccessorySlice ==
  [title |-> Required, deepLink |-> Required, family |-> Required,
   gaugeValue |-> Optional(Required), shortText |-> Optional(AnyText)]

(* `presentation` has a default, which parsing fills in.                   *)
StandbySlice ==
  [title |-> Required, body |-> AnyText, progress |-> Required,
   deepLink |-> Required, presentation |-> Optional(Required),
   tint |-> Optional(Required)]

NotificationSlice ==
  [title |-> Required, subtitle |-> Optional(Required), body |-> AnyText,
   deepLink |-> Required, category |-> Optional(Required),
   threadId |-> Optional(Required), interruptionLevel |-> Optional(Required),
   relevanceScore |-> Optional(Required), targetContentId |-> Optional(Required)]

Slices ==
  [liveActivity |-> LiveActivitySlice, widget |-> WidgetSlice,
   control |-> ControlSlice, lockAccessory |-> LockAccessorySlice,
   standby |-> StandbySlice, notification |-> NotificationSlice]

Kinds == DOMAIN Slices

(* What every snapshot has besides `kind` and the slice named by it.       *)
Base ==
  [schemaVersion |-> Required, id |-> Required, surfaceId |-> Required,
   updatedAt |-> Required, state |-> Required]

(* A snapshot as it arrives: kind, base, and the slices under their keys.  *)
safeParse(s) ==
  /\ s.kind \in Kinds
  /\ DOMAIN s.slices = {s.kind}
  /\ Accepts(Base, s.base)
  /\ Accepts(Slices[s.kind], s.slices[s.kind])

(* The slice in the data a successful parse returns.                       *)
Parsed(s) ==
  LET slice == s.slices[s.kind] IN
  IF s.kind = "standby" /\ At(slice, "presentation") = "absent"
  THEN [key \in DOMAIN slice \cup {"presentation"} |->
          IF key = "presentation" THEN "value" ELSE slice[key]]
  ELSE slice

-----------------------------------------------------------------------------
(* The projections: which key of the output comes from where.              *)

toLiveActivityContentState(s) ==
  LET a == Parsed(s) IN
  [headline |-> At(a, "title"), subhead |-> At(a, "body"),
   progress |-> At(a, "progress"), stage |-> At(a, "stage")]

toWidgetTimelineEntry(s) ==
  LET w == Parsed(s) IN
  [schemaVersion |-> "value", kind |-> "value", snapshotId |-> At(s.base, "id"),
   surfaceId |-> At(s.base, "surfaceId"), state |-> At(s.base, "state"),
   family |-> At(w, "family"), reloadPolicy |-> At(w, "reloadPolicy"),
   headline |-> At(w, "title"), subhead |-> At(w, "body"),
   progress |-> At(w, "progress"), deepLink |-> At(w, "deepLink")]

toControlValueProvider(s) ==
  LET c == Parsed(s) IN
  [schemaVersion |-> "value", kind |-> "value", snapshotId |-> At(s.base, "id"),
   surfaceId |-> At(s.base, "surfaceId"), controlKind |-> At(c, "controlKind"),
   value |-> At(c, "state"), intent |-> At(c, "intent"),
   label |-> At(c, "label"), deepLink |-> At(c, "deepLink")]

toLockAccessoryEntry(s) ==
  LET l == Parsed(s) IN
  [schemaVersion |-> "value", kind |-> "value", snapshotId |-> At(s.base, "id"),
   surfaceId |-> At(s.base, "surfaceId"), state |-> At(s.base, "state"),
   family |-> At(l, "family"), headline |-> At(l, "title"),
   shortText |-> At(l, "shortText"), gaugeValue |-> At(l, "gaugeValue"),
   deepLink |-> At(l, "deepLink")]

toStandbyEntry(s) ==
  LET b == Parsed(s) IN
  [schemaVersion |-> "value", kind |-> "value", snapshotId |-> At(s.base, "id"),
   surfaceId |-> At(s.base, "surfaceId"), state |-> At(s.base, "state"),
   presentation |-> At(b, "presentation"), tint |-> At(b, "tint"),
   headline |-> At(b, "title"), subhead |-> At(b, "body"),
   progress |-> At(b, "progress"), deepLink |-> At(b, "deepLink")]

(* The nested objects `aps.alert`, `aps` and `liveSurface` side by side.   *)
toNotificationContentPayload(s) ==
  LET n == Parsed(s) IN
  [schemaVersion |-> "value", title |-> At(n, "title"),
   subtitle |-> At(n, "subtitle"), body |-> At(n, "body"), sound |-> "value",
   category |-> At(n, "category"), threadId |-> At(n, "threadId"),
   interruptionLevel |-> At(n, "interruptionLevel"),
   relevanceScore |-> At(n, "relevanceScore"),
   targetContentId |-> At(n, "targetContentId"),
   sidecarVersion |-> "value", kind |-> "value",
   snapshotId |-> At(s.base, "id"), surfaceId |-> At(s.base, "surfaceId"),
   state |-> At(s.base, "state"), deepLink |-> At(n, "deepLink"),
   sidecarCategory |-> At(n, "category")]

(* The alert fall-back of a Live Activity.  Built without a parse.         *)
toApnsAlertPayload(s) ==
  LET a == Parsed(s) IN
  [title |-> At(a, "title"), body |-> At(a, "body"), sound |-> "value",
   kind |-> "value", snapshotId |-> At(s.base, "id"),
   surfaceId |-> At(s.base, "surfaceId"), state |-> At(s.base, "state"),
   deepLink |-> At(a, "deepLink")]

-----------------------------------------------------------------------------
(* The schemas the outputs are parsed with.                                *)

ActivityContentState ==
  [headline |-> AnyText, subhead |-> AnyText, progress |-> Required,
   stage |-> Required]

WidgetTimelineEntry ==
  [schemaVersion |-> Required, kind |-> Required, snapshotId |-> AnyText,
   surfaceId |-> AnyText, state |-> Required, family |-> Optional(Required),
   reloadPolicy |-> Optional(Required), headline |-> AnyText,
   subhead |-> AnyText, progress |-> Required, deepLink |-> Required]

ControlValueProvider ==
  [schemaVersion |-> Required, kind |-> Required, snapshotId |-> AnyText,
   surfaceId |-> AnyText, controlKind |-> Required,
   value |-> Optional(Required), intent |-> Optional(AnyText),
   label |-> Required, deepLink |-> Required]

LockAccessoryEntry ==
  [schemaVersion |-> Required, kind |-> Required, snapshotId |-> AnyText,
   surfaceId |-> AnyText, state |-> Required, family |-> Required,
   headline |-> AnyText, shortText |-> Optional(AnyText),
   gaugeValue |-> Optional(Required), deepLink |-> Required]

StandbyEntry ==
  [schemaVersion |-> Required, kind |-> Required, snapshotId |-> AnyText,
   surfaceId |-> AnyText, state |-> Required, presentation |-> Required,
   tint |-> Optional(Required), headline |-> AnyText, subhead |-> AnyText,
   progress |-> Required, deepLink |-> Required]

NotificationContentPayload ==
  [schemaVersion |-> Required, title |-> AnyText,
   subtitle |-> Optional(AnyText), body |-> AnyText, sound |-> Required,
   category |-> Optional(AnyText), threadId |-> Optional(AnyText),
   interruptionLevel |-> Optional(Required),
   relevanceScore |-> Optional(Required), targetContentId |-> Optional(AnyText),
   sidecarVersion |-> Required, kind |-> Required, snapshotId |-> AnyText,
   surfaceId |-> AnyText, state |-> Required, deepLink |-> Required,
   sidecarCategory |-> Optional(AnyText)]

AlertPayload ==
  [title |-> AnyText, body |-> AnyText, sound |-> Optional(Required),
   kind |-> Required, snapshotId |-> AnyText, surfaceId |-> AnyText,
   state |-> Required, deepLink |-> AnyText]

(* The helper of a kind and the schema it is paired with.                  *)
Project(s) ==
  CASE s.kind = "liveActivity"  -> toLiveActivityContentState(s)
    [] s.kind = "widget"        -> toWidgetTimelineEntry(s)
    [] s.kind = "control"       -> toControlValueProvider(s)
    [] s.kind = "lockAccessory" -> toLockAccessoryEntry(s)
    [] s.kind = "standby"       -> toStandbyEntry(s)
    [] s.kind = "notification"  -> toNotificationContentPayload(s)

OutputSchemas ==
  [liveActivity |-> ActivityContentState, widget |-> WidgetTimelineEntry,
   control |-> ControlValueProvider, lockAccessory |-> LockAccessoryEntry,
   standby |-> StandbyEntry, notification |-> NotificationContentPayload]

(* ensureProjection: the output parses, or the helper throws.              *)
ensureProjection(s) == Accepts(OutputSchemas[s.kind], Project(s))

-----------------------------------------------------------------------------
(* The structs that decode the outputs on the device: the properties that  *)
(* are not optional.                                                       *)

SwiftStructs ==
  [liveActivity |-> {"headline", "subhead", "progress", "stage"},
   widget |-> {"schemaVersion", "kind", "snapshotId", "surfaceId", "state",
               "headline", "subhead", "progress", "deepLink"},
   control |-> {"schemaVersion", "kind", "snapshotId", "surfaceId",
                "controlKind", "label", "deepLink"},
   lockAccessory |-> {"schemaVersion", "kind", "snapshotId", "surfaceId",
                      "state", "family", "headline", "deepLink"},
   standby |-> {"schemaVersion", "kind", "snapshotId", "surfaceId", "state",
                "presentation", "headline", "subhead", "progress", "deepLink"},
   notification |-> {"sidecarVersion", "kind", "snapshotId", "surfaceId",
                     "state", "deepLink"}]

Decodes(kind, output) ==
  \A key \in SwiftStructs[kind] : At(output, key) \in AnyText
=============================================================================
