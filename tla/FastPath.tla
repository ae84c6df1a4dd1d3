------------------------------- MODULE FastPath -------------------------------
(***************************************************************************)
(* Which fast paths a thread takes (core/fast-path-strategy.ts).  Nothing  *)
(* is remembered: every use reads the environment of its own thread again, *)
(* so the two ends of a connection may differ, and so may two uses in one  *)
(* operation that are in different turns of the event loop.                *)
(*                                                                         *)
(* An environment is [mode, enable, disable, disableAll]; a test may put   *)
(* an override [mode, on, off] in front of it.  A strategy is the set of   *)
(* the flags that are on.                                                  *)
(***************************************************************************)

Experimental == {"readSideEncodedPayload"}
Standard ==
    {"preparedContractReuse", "validatedFrameWitness", "validatedAlignedBytesPayload",
     "preparedBinaryCodecWriter", "specializedCompositeWriter", "pendingRequestWitness"}
Flags == Standard \cup Experimental

(* readMode: `off' and `disabled' stand for safe, anything unknown for     *)
(* nothing.                                                                *)
Unset == "unset"
readMode(value) ==
    IF value \in {"default", "safe", "experimental", "paranoid"} THEN value
    ELSE IF value \in {"off", "disabled"} THEN "safe" ELSE Unset

SwitchesForMode(mode) ==
    CASE mode = "experimental" -> Flags
      [] mode = "default" -> Standard
      [] mode \in {"safe", "paranoid"} -> {}

NoOverride == [mode |-> Unset, on |-> {}, off |-> {}]

getFastPathStrategy(env, override) ==
    LET mode == IF readMode(env.mode) = Unset THEN "default" ELSE readMode(env.mode)
        perFlag == (SwitchesForMode(mode) \cup env.enable) \ env.disable
        fromEnvironment == IF env.disableAll THEN {} ELSE perFlag
        base == IF override.mode = Unset THEN fromEnvironment ELSE SwitchesForMode(override.mode)
    IN  (base \cup override.on) \ override.off

Enabled(flag, env) == flag \in getFastPathStrategy(env, NoOverride)
================================================================================
