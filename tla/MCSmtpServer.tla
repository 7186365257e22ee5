---------------------------- MODULE MCSmtpServer ----------------------------
(***************************************************************************)
(* Three mails over two connections: one to two of our addresses with a    *)
(* foreign one between them, one to one address, and one from the null     *)
(* sender that names the same recipient three times, once too often.       *)
(***************************************************************************)
EXTENDS SmtpServer

CONSTANTS c1, c2, m1, m2, m3, here, there, away, alice, nobody

MCFrom == [m \in Mail |-> IF m = m3 THEN nobody ELSE alice]
MCRcpts == [m \in Mail |-> CASE m = m1 -> <<here, away, there>>
                             [] m = m2 -> <<there>>
                             [] m = m3 -> <<here, here, here>>]
Connections == Permutations(Conn)

=============================================================================
