------------------------------ MODULE SetupApns ------------------------------
(***************************************************************************)
(* scripts/setup-apns.mjs: the wizard that asks for APNs credentials, tries*)
(* them on APNs and writes them to .env, from which send-apns.mjs reads    *)
(* them (lib/load-env.mjs).                                                *)
(*                                                                         *)
(* What is typed is one of a few classes, as far as the validators tell    *)
(* them apart. The .p8 file is looked at when its path is typed and read   *)
(* again for the probe; meanwhile the user may move it.                    *)
(***************************************************************************)
EXTENDS Integers

VARIABLES
  wizard,   \* where runWizard() stands
  options,  \* --skip-validate and --no-write
  typed,    \* the answers accepted so far
  keyFile,  \* what is at the path of the .p8
  envFile,  \* .env: "none", "earlier" (of an earlier run) or "written"
  answer,   \* the reason APNs answered the probe with
  setupCode \* the code the process exits with

setupVars == <<wizard, options, typed, keyFile, envFile, answer, setupCode>>

(* A key with PEM markers may be "pem", too long to be one ("huge"), or    *)
(* one that cannot sign ("broken").                                        *)
KeyFiles == {"pem", "huge", "broken", "plain", "missing"}
BundleIds == {"bare", "suffixed", "oneSegment", "empty"}
Ids == {"ten", "other", "empty"}

(* The prompts, in order, with what may be typed; the path of the key      *)
(* stands for itself.                                                      *)
Prompts == <<"keyPath", "keyId", "teamId", "bundleId", "env">>
MayType ==
  [keyPath |-> {"path", "empty"}, keyId |-> Ids, teamId |-> Ids, bundleId |-> BundleIds,
   env |-> {"development", "production"}]

SetupInit ==
  /\ wizard = "idle"
  /\ options = [skipValidate |-> FALSE, noWrite |-> FALSE]
  /\ typed = [prompt \in DOMAIN MayType |-> "unset"]
  /\ keyFile = "missing"
  /\ envFile = "none"
  /\ answer = "none"
  /\ setupCode = -1

-----------------------------------------------------------------------------
(* The validators: anything else is asked for again.                       *)

validateP8Path(v)   == v = "path" /\ keyFile \in {"pem", "huge", "broken"}
validateKeyId(v)    == v = "ten"
validateTeamId(v)   == v = "ten"

validateBundleId(v) == v = "bare"

Valid(prompt, v) ==
  CASE prompt = "keyPath" -> validateP8Path(v)
    [] prompt = "keyId" -> validateKeyId(v)
    [] prompt = "teamId" -> validateTeamId(v)
    [] prompt = "bundleId" -> validateBundleId(v)
    [] prompt = "env" -> TRUE

-----------------------------------------------------------------------------
(* The wizard.                                                             *)

Exits(code) == wizard' = "over" /\ setupCode' = code

(* The end of runWizard: it prints, asks before it overwrites, or writes.  *)
WriteEnv ==
  \/ options.noWrite /\ Exits(0) /\ UNCHANGED envFile
  \/ ~options.noWrite /\ envFile # "none" /\ wizard' = "confirm" /\ UNCHANGED <<envFile, setupCode>>
  \/ ~options.noWrite /\ envFile = "none" /\ envFile' = "written" /\ Exits(0)

(* It starts, with whatever files there are.                               *)
Setup(o) ==
  /\ wizard = "idle"
  /\ wizard' = "keyPath" /\ options' = o
  /\ keyFile' \in KeyFiles /\ envFile' \in {"none", "earlier"}
  /\ UNCHANGED <<typed, answer, setupCode>>

(* All but the last prompt.                                                *)
Types(i, v) ==
  /\ wizard = Prompts[i] /\ i < 5
  /\ Valid(wizard, v)
  /\ typed' = [typed EXCEPT ![wizard] = v]
  /\ wizard' = Prompts[i + 1]
  /\ UNCHANGED <<options, keyFile, envFile, answer, setupCode>>

(* The environment is chosen: the probe connects, if the key still reads   *)
(* and signs; or there is none.                                            *)
Chooses(v) ==
  /\ wizard = "env"
  /\ typed' = [typed EXCEPT !.env = v]
  /\ \/ options.skipValidate /\ WriteEnv
     \/ /\ ~options.skipValidate /\ keyFile \notin {"pem", "huge"}
        /\ Exits(1) /\ UNCHANGED envFile
     \/ /\ ~options.skipValidate /\ keyFile \in {"pem", "huge"}
        /\ wizard' = "probing" /\ UNCHANGED <<envFile, setupCode>>
  /\ UNCHANGED <<options, keyFile, answer>>

(* The user interrupts a prompt.                                           *)
Cancels ==
  /\ wizard \in {Prompts[i] : i \in 1..5}
  /\ Exits(0)
  /\ UNCHANGED <<options, typed, keyFile, envFile, answer>>

GoodReasons == {"BadDeviceToken", "DeviceTokenNotForTopic"}
ProbeReasons == GoodReasons \cup {"InvalidProviderToken", "TopicDisallowed", "none"}

(* The answer has ended: a refused token is an accepted provider.          *)
ProbeAnswered(reason) ==
  /\ wizard = "probing"
  /\ answer' = reason
  /\ \/ reason \in GoodReasons /\ WriteEnv
     \/ reason \notin GoodReasons /\ Exits(1) /\ UNCHANGED envFile
  /\ UNCHANGED <<options, typed, keyFile>>

(* The session or the request fails, or the process is interrupted.        *)
ProbeFails ==
  /\ wizard = "probing"
  /\ Exits(1)
  /\ UNCHANGED <<options, typed, keyFile, envFile, answer>>

(* The timer of 8 seconds.                                                 *)
ProbeTimesOut ==
  /\ wizard = "probing"
  /\ Exits(1)
  /\ UNCHANGED <<options, typed, keyFile, envFile, answer>>

(* Overwrite?  An interrupted prompt is a no.                              *)
Confirms(yes) ==
  /\ wizard = "confirm"
  /\ Exits(IF yes THEN 0 ELSE 1)
  /\ envFile' = IF yes THEN "written" ELSE envFile
  /\ UNCHANGED <<options, typed, keyFile, answer>>

(* The user moves the key.                                                 *)
KeyMoves ==
  /\ wizard \notin {"idle", "over"} /\ keyFile # "missing"
  /\ keyFile' = "missing"
  /\ UNCHANGED <<wizard, options, typed, envFile, answer, setupCode>>

WizardNext ==
  \/ \E skip, dry \in BOOLEAN : Setup([skipValidate |-> skip, noWrite |-> dry])
  \/ \E i \in 1..4 : \E v \in MayType[Prompts[i]] : Types(i, v)
  \/ \E v \in MayType.env : Chooses(v)
  \/ Cancels
  \/ \E reason \in ProbeReasons : ProbeAnswered(reason)
  \/ ProbeFails \/ ProbeTimesOut
  \/ \E yes \in BOOLEAN : Confirms(yes)
  \/ KeyMoves

-----------------------------------------------------------------------------
(* What .env is good for.                                                  *)

(* loadEnvFile in a shell that exports nothing: what send-apns.mjs is run  *)
(* with, and whether loadApnsKey and makeJwt can use the key.              *)
LoadEnv(a) == [a EXCEPT !.bundleId = envFile # "none", !.credentials = envFile # "none",
                        !.keyFile = keyFile = "pem"]

(* createPushClient with the same values: assertConfigComplete, then the   *)
(* key is read, which is not to be longer than 64 KB.                      *)
assertConfigComplete(config) ==
  CASE config.bundleId = "empty" \/ config.env \notin {"development", "production"}
         \/ config.keyId = "empty" \/ config.teamId = "empty" \/ config.keyPath = "empty"
         -> "MissingApnsConfigError"
    [] config.bundleId = "suffixed" -> "MalformedApnsConfigError"
    [] OTHER -> "none"

resolveKeyPem == keyFile \notin {"huge", "missing"}

createPushClient(config) ==
  IF assertConfigComplete(config) # "none" THEN assertConfigComplete(config)
  ELSE IF resolveKeyPem THEN "none" ELSE "Error"
=============================================================================
