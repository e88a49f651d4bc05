------------------------------ MODULE MCPushApi ------------------------------
(* Small instances of PushApi: one urgent or one background call, with     *)
(* every snapshot that is one key away from a full or a bare one, and      *)
(* every combination of options.                                           *)
EXTENDS PushApi, TLC

CONSTANTS urgent, background

MCCalls == {urgent, background}
MCPriority == urgent :> 10 @@ background :> 5
(* DEFAULT_RETRYABLE_REASONS, as in MCPushRetry.                           *)
MCReasons == {"expired", "tooManyNow"}
MCStatusCodes == {200, 201, 204, 400}

Without(object, key) == [k \in DOMAIN object \ {key} |-> object[k]]

(* One key is missing, empty, wrong, or one too many.                      *)
Variants(object) ==
  {object, ("unknown" :> "value") @@ object}
    \cup {Without(object, k) : k \in DOMAIN object}
    \cup {[object EXCEPT ![k] = v] : k \in DOMAIN object, v \in {"empty", "wrong"}}

AllOf(schema)  == [k \in DOMAIN schema |-> "value"]
BareOf(schema) == [k \in {k \in DOMAIN schema : "absent" \notin schema[k]} |-> "value"]

Snapshot(kind, base, slice) == [kind |-> kind, base |-> base, slices |-> kind :> slice]

SnapshotsOf(kind) ==
  {Snapshot(kind, AllOf(Base), slice) :
     slice \in Variants(AllOf(Slices[kind])) \cup Variants(BareOf(Slices[kind]))}
    \cup {Snapshot(kind, base, AllOf(Slices[kind])) : base \in Variants(AllOf(Base))}

Good(kind) == Snapshot(kind, AllOf(Base), AllOf(Slices[kind]))

(* The slice of another kind, and both.                                    *)
Misfits ==
  {[Good("liveActivity") EXCEPT !.slices = Good("widget").slices],
   [Good("liveActivity") EXCEPT !.slices = @ @@ Good("widget").slices]}

Input(op, snapshot, bytes, other) ==
  [op |-> op, snapshot |-> snapshot, bytes |-> bytes] @@ other

Defaults ==
  [priority |-> Unset, stale |-> "unset", dismissal |-> "unset",
   expiration |-> "unset", tokenEnvironment |-> "unset", policy |-> "unset"]

Times == {"unset", "zero", "seconds", "millis", "malformed"}

Options(environments, policies) ==
  [priority : {Unset, 1, 5, 10}, stale : Times \ {"malformed"},
   dismissal : {"unset", "zero", "seconds"}, expiration : Times,
   tokenEnvironment : environments, policy : policies]

KindFor(op) == IF op = "sendNotification" THEN "notification" ELSE "liveActivity"

MCInputs ==
  UNION {{Input(op, s, 4096, Defaults) :
            s \in Misfits \cup UNION {SnapshotsOf(k) : k \in Kinds}} :
            op \in {"update", "alert", "sendNotification"}}
    \cup {Input(op, Good(KindFor(op)), bytes, o) :
            op \in DeviceOps, bytes \in {4096, 4097},
            o \in Options({"unset", "development", "production"}, {"unset"})}
    \cup {Input("broadcast", Good("liveActivity"), bytes, o) :
            bytes \in {4097, 5120, 5121},
            o \in Options({"production"},
                                {"unset", "no-storage", "most-recent-message"})}
    \cup {Input(op, Good("liveActivity"), 0, [Defaults EXCEPT !.policy = policy]) :
            op \in ManageOps, policy \in {"unset", "most-recent-message"}}

Typed ==
  [flags |-> {"activity-token"}, action |-> "none", type |-> "liveactivity",
   event |-> "update", env |-> "development", policy |-> "no-storage",
   expiration |-> "unset", stale |-> "unset", dismissal |-> "unset",
   hexToken |-> TRUE, attributes |-> "none", priority |-> Unset,
   snapshot |-> {Good("liveActivity")}, bytes |-> 4096, dry |-> "no",
   bundleId |-> TRUE, credentials |-> TRUE, keyFile |-> TRUE]

(* Every set of mode flags with every event and type; and for a broadcast, *)
(* a start and the channel actions, what else can be typed.                *)
MCInvocations ==
  {[Typed EXCEPT !.flags = f, !.event = e, !.type = t, !.attributes = "good"] :
     f \in SUBSET ModeFlags, e \in {"start", "update", "end"}, t \in {"alert", "liveactivity"}}
    \cup {[Typed EXCEPT !.flags = {"channel-id"}, !.policy = p, !.expiration = x,
                        !.stale = s, !.dry = d, !.bytes = b] :
            p \in {"no-storage", "most-recent-message", "other"}, x \in Times,
            s \in {"unset", "zero"}, d \in {"no", "print", "describe"}, b \in {5120, 5121}}
    \cup {[Typed EXCEPT !.flags = {"push-to-start-token"}, !.event = "start",
                        !.attributes = a, !.hexToken = h, !.snapshot = s, !.dry = d,
                        !.bundleId = e, !.credentials = e2, !.keyFile = k] :
            a \in {"none", "bad", "good"}, h \in BOOLEAN, s \in {{}, {Good("widget")}},
            d \in {"no", "print"}, e \in BOOLEAN, e2 \in BOOLEAN, k \in BOOLEAN}
    \cup {[Typed EXCEPT !.flags = {"channel-action"} \cup f, !.action = a,
                        !.env = e, !.policy = p, !.dry = d] :
            f \in {{}, {"channel-id"}}, a \in {"create", "list", "delete", "other"},
            e \in {"production", "other"}, p \in {"no-storage", "other"}, d \in {"no", "print"}}
=============================================================================
