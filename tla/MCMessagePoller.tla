-------------------------- MODULE MCMessagePoller --------------------------
(***************************************************************************)
(* Two jobs for one address, of which one can replace the other: hook      *)
(* sends auto-replies and accepts alice only; broken accepts any sender    *)
(* and has a payload template that fails.                                  *)
(***************************************************************************)
EXTENDS MessagePoller

CONSTANTS hook, broken, here, alice, bob

MCEmail == [j \in Job |-> here]
MCAccepts == [j \in Job |-> IF j = hook THEN {alice} ELSE {alice, bob}]

=============================================================================
