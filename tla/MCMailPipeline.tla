--------------------------- MODULE MCMailPipeline ---------------------------
(***************************************************************************)
(* One mail, sent up to twice, to three of our addresses with a foreign    *)
(* one among them; the agent takes two recipients. The first address is    *)
(* watched now by a job that accepts the mail's sender, now by one that    *)
(* does not, the third, past the limit, by one that does.                  *)
(***************************************************************************)
EXTENDS MailPipeline

CONSTANTS m1, here, there, over, away, alice, nobody, hook, picky, late, c1

MCFrom == [m \in Mail |-> alice]
MCRcpts == [m \in Mail |-> <<here, away, there, over>>]
MCEmail == [j \in Job |-> IF j = late THEN over ELSE here]
MCAccepts == [j \in Job |-> IF j = picky THEN {} ELSE {alice}]

=============================================================================
