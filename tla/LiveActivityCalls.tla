-------------------------- MODULE LiveActivityCalls --------------------------
(***************************************************************************)
(* How a call of the Live Activity adapter ends: the wrapper in JavaScript *)
(* (packages/live-activity/src/index.ts), which parses what crosses the    *)
(* bridge and reads what comes back, and the native functions it calls     *)
(* (LiveActivityModule.swift).  What they do to the drains is the subject  *)
(* of ActivityObservers.                                                   *)
(*                                                                         *)
(* A content state is an object of SurfaceContract, a version of iOS is a  *)
(* number, ten times the version.                                          *)
(***************************************************************************)
EXTENDS Integers, SurfaceContract

Versions == {150, 161, 162, 172, 180}

-----------------------------------------------------------------------------
(* The native module.                                                      *)

(* LiveActivityCodableBridge.decode into ContentState.                     *)
decode(content) == Decodes("liveActivity", content)

(* LiveActivityModuleLogic: the transport of a new activity, the policy    *)
(* end() takes, and the date that goes into ActivityContent.               *)
pushTypeDecision(channel, os) ==
  CASE ~channel -> "token"
    [] channel /\ os >= 180 -> "channel"
    [] channel /\ os < 180 -> "unsupportedFeature"

dismissalPolicyIsImmediate(policy) == policy = "immediate"

staleDateSeconds(time) == IF time \in {"seconds", "millis"} THEN time ELSE "unset"

areActivitiesEnabled(os, allowed) == os >= 161 /\ allowed

(* Each yields the case of LiveActivityError it throws, "refused" for an   *)
(* error of ActivityKit, or what it resolves with.                         *)
NativeStart(os, content, channel, allowed) ==
  CASE os < 162 -> "unsupportedOS"
    [] os >= 162 /\ ~decode(content) -> "decodingFailed"
    [] os >= 162 /\ decode(content) /\ pushTypeDecision(channel, os) = "unsupportedFeature"
         -> "unsupportedFeature"
    [] OTHER -> IF allowed THEN pushTypeDecision(channel, os) ELSE "refused"

NativeUpdate(os, content, known) ==
  CASE os < 162 -> "unsupportedOS"
    [] os >= 162 /\ ~known -> "notFound"
    [] OTHER -> IF decode(content) THEN "updated" ELSE "decodingFailed"

NativeEnd(os, policy, known) ==
  CASE os < 162 -> "unsupportedOS"
    [] os >= 162 /\ ~known -> "notFound"
    [] OTHER -> IF dismissalPolicyIsImmediate(policy) THEN "immediate" ELSE "default"

-----------------------------------------------------------------------------
(* LiveActivityError and what JavaScript makes of its description.         *)

Resolved == {"token", "channel", "updated", "immediate", "default"}

NativeCode ==
  [unsupportedOS |-> "ACTIVITY_UNSUPPORTED_OS", notFound |-> "ACTIVITY_NOT_FOUND",
   decodingFailed |-> "ACTIVITY_DECODE_FAILED", encodingFailed |-> "ACTIVITY_ENCODE_FAILED",
   unsupportedFeature |-> "ACTIVITY_UNSUPPORTED_FEATURE"]

(* The trap of a case, by its number: none or one.                         *)
NativeTrap(case) ==
  CASE case = "decodingFailed" -> {3}
    [] case \in {"unsupportedOS", "unsupportedFeature"} -> {12}
    [] OTHER -> {}

(* MSTraps.all, the deprecated ones included; find.                        *)
MSTraps == 1..45

Description(case) ==
  [code |-> IF case \in DOMAIN NativeCode THEN NativeCode[case] ELSE "none",
   trap |-> NativeTrap(case), url |-> NativeTrap(case) \cap MSTraps]

CODE_TO_CLASS ==
  [ACTIVITY_DECODE_FAILED |-> "LiveActivityDecodingError",
   ACTIVITY_ENCODE_FAILED |-> "LiveActivityEncodingError",
   ACTIVITY_UNSUPPORTED_OS |-> "LiveActivityUnsupportedOSError",
   ACTIVITY_UNSUPPORTED_FEATURE |-> "LiveActivityUnsupportedFeatureError",
   ACTIVITY_NOT_FOUND |-> "LiveActivityNotFoundError"]

(* wrapNativeError with parseNativeMessage.                                *)
wrapNativeError(message) ==
  [name |-> IF message.code \in DOMAIN CODE_TO_CLASS THEN CODE_TO_CLASS[message.code]
            ELSE "LiveActivityNativeError",
   trap |-> message.trap]

-----------------------------------------------------------------------------
(* The adapter.                                                            *)

InvalidContentState == [name |-> "InvalidContentStateError", trap |-> {38}]

Settled(native) ==
  IF native \in Resolved THEN [name |-> "ok", trap |-> {}] ELSE wrapNativeError(Description(native))

(* parseContentState throws before anything crosses the bridge.            *)
parseContentState(content) == Accepts(ActivityContentState, content)

LiveActivityStart(os, content, channel, allowed) ==
  IF parseContentState(content) THEN Settled(NativeStart(os, content, channel, allowed))
  ELSE InvalidContentState

LiveActivityUpdate(os, content, known) ==
  IF parseContentState(content) THEN Settled(NativeUpdate(os, content, known))
  ELSE InvalidContentState

LiveActivityEnd(os, policy, known) == Settled(NativeEnd(os, policy, known))
=============================================================================
