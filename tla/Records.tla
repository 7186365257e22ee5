------------------------------ MODULE Records ------------------------------
(***************************************************************************)
(* Table smtp_messages (pkg/models), which the SMTP agent fills and the    *)
(* worker empties. A table is a function from the ids in use to its rows.  *)
(***************************************************************************)
EXTENDS Naturals, FiniteSets

CONSTANTS
    Addr,       \* recipient addresses under the configured hostname
    Sender      \* envelope senders

\* models.SMTPMessage; the subject and the body are carried along unread.
Message == [to : Addr, from : Sender, processed : BOOLEAN]

\* db.Create(&SMTPMessage{...}): one row, under an id not used before.
Insert(table, m, msg) ==
    [k \in DOMAIN table \union {m} |-> IF k = m THEN msg ELSE table[k]]

\* WHERE processed = FALSE
Unprocessed(table) == {m \in DOMAIN table : ~table[m].processed}

=============================================================================
