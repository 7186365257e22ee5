----------------------------- MODULE SmtpServer -----------------------------
(***************************************************************************)
(* The SMTP agent (cmd/smtp, pkg/smtp/server.go) and the mail servers that *)
(* deliver to it. A session collects a sender and recipients; the DATA     *)
(* handler inserts one row per recipient, each in a transaction of its     *)
(* own, and the library (go-smtp) answers the client and resets the        *)
(* session. A client whose mail was refused, or whose connection broke,    *)
(* may send it again.                                                      *)
(***************************************************************************)
EXTENDS Records, Sequences, SequencesExt

CONSTANTS
    Conn,           \* connections a client may hold
    Mail,           \* mails to be delivered
    From,           \* Mail -> Sender
    Rcpts,          \* Mail -> sequence of recipients, Foreign ones among them
    Foreign,        \* addresses under other hostnames
    NullSender,     \* the empty reverse path, which a session starts with
    MaxRecipients,  \* server.MaxRecipients
    Msg,            \* ids of the rows smtp_messages may hold
    MaxTries,       \* bound: how often a client sends a mail
    MaxFaults       \* bound: failed inserts, lost connections, crashes

ASSUME SmtpAssumption ==
    /\ NullSender \in Sender
    /\ Addr \intersect Foreign = {}
    /\ From \in [Mail -> Sender]
    /\ Rcpts \in [Mail -> Seq(Addr \union Foreign)]
    /\ Msg \subseteq Nat \ {0}
    /\ MaxRecipients \in Nat /\ MaxTries \in Nat \ {0} /\ MaxFaults \in Nat

VARIABLES
    table,      \* smtp_messages
    phase,      \* Conn -> what the connection's goroutine is doing
    session,    \* Conn -> the Session: fields from and to
    next,       \* Conn -> index of the recipient Data stores next
    txn,        \* Conn -> <<mail, try>> being sent, << >> for none
    sent,       \* Conn -> RCPT commands of the transaction so far
    accepted,   \* Conn -> the recipients answered with 250
    linked,     \* the connections whose client is still there
    status,     \* Mail -> what its sender knows of it
    tries,      \* Mail -> how often it has been sent
    receipt,    \* Mail -> the recipients accepted in the acknowledged try
    origin,     \* history: row id -> <<mail, try>> that stored it
    netFaults   \* failed inserts, lost connections and crashes so far

server == <<phase, session, next>>
client == <<txn, sent, accepted, linked>>
mails == <<status, tries, receipt>>
vars == <<table, server, client, mails, origin, netFaults>>

NewSession == [from |-> NullSender, to |-> << >>]
NoTxn == << >>
Txn == Mail \X (1 .. MaxTries)

TypeOK ==
    /\ DOMAIN table \subseteq Msg
    /\ table \in [DOMAIN table -> Message]
    /\ phase \in [Conn -> {"closed", "ready", "envelope", "store", "failed"}]
    /\ \A c \in Conn : session[c].from \in Sender /\ session[c].to \in Seq(Addr)
    /\ next \in [Conn -> Nat]
    /\ txn \in [Conn -> Txn \union {NoTxn}]
    /\ sent \in [Conn -> Nat]
    /\ accepted \in [Conn -> Seq(Addr)]
    /\ linked \subseteq Conn
    /\ status \in [Mail -> {"queued", "sending", "acked", "bounced"}]
    /\ tries \in [Mail -> 0 .. MaxTries]
    /\ receipt \in [Mail -> Seq(Addr)]
    /\ origin \in [DOMAIN table -> Txn]
    /\ netFaults \in 0 .. MaxFaults

-----------------------------------------------------------------------------

Init ==
    /\ table = << >> /\ origin = << >> /\ netFaults = 0
    /\ phase = [c \in Conn |-> "closed"]
    /\ session = [c \in Conn |-> NewSession]
    /\ next = [c \in Conn |-> 1]
    /\ txn = [c \in Conn |-> NoTxn]
    /\ sent = [c \in Conn |-> 0]
    /\ accepted = [c \in Conn |-> << >>]
    /\ linked = {}
    /\ status = [m \in Mail |-> "queued"]
    /\ tries = [m \in Mail |-> 0]
    /\ receipt = [m \in Mail |-> << >>]

Fault == netFaults < MaxFaults /\ netFaults' = netFaults + 1

\* The client may try again, or give the mail up.
Retry(m) ==
    \E s \in IF tries[m] < MaxTries THEN {"queued", "bounced"} ELSE {"bounced"} :
        status' = [status EXCEPT ![m] = s]

\* The client forgets the transaction it had on this connection.
EndTxn(c) ==
    /\ txn' = [txn EXCEPT ![c] = NoTxn]
    /\ sent' = [sent EXCEPT ![c] = 0]
    /\ accepted' = [accepted EXCEPT ![c] = << >>]

\* Variant: the recipients survive.
MutReset(c) == session' = [session EXCEPT ![c].from = NullSender]

\* Session.Reset, called by go-smtp after DATA and on RSET.
Reset(c) == session' = [session EXCEPT ![c] = [from |-> NullSender, to |-> << >>]]

Goto(c, p) == phase' = [phase EXCEPT ![c] = p]

(***************************************************************************)
(* Commands of a client.                                                   *)
(***************************************************************************)
Connect(c) ==
    /\ phase[c] = "closed"
    /\ Goto(c, "ready")
    /\ session' = [session EXCEPT ![c] = NewSession]
    /\ linked' = linked \union {c}
    /\ UNCHANGED <<table, next, txn, sent, accepted, mails, origin, netFaults>>

\* Variant: the sender is not stored.
MutMailCommand(c, m) ==
    /\ phase[c] = "ready"
    /\ status[m] = "queued"
    /\ Goto(c, "envelope")
    /\ status' = [status EXCEPT ![m] = "sending"]
    /\ tries' = [tries EXCEPT ![m] = @ + 1]
    /\ txn' = [txn EXCEPT ![c] = <<m, tries'[m]>>]
    /\ UNCHANGED <<table, session, next, sent, accepted, linked, receipt, origin, netFaults>>

\* MAIL FROM: Session.Mail sets the sender and nothing else.
MailCommand(c, m) ==
    /\ phase[c] = "ready"
    /\ status[m] = "queued"
    /\ session' = [session EXCEPT ![c].from = From[m]]
    /\ Goto(c, "envelope")
    /\ status' = [status EXCEPT ![m] = "sending"]
    /\ tries' = [tries EXCEPT ![m] = @ + 1]
    /\ txn' = [txn EXCEPT ![c] = <<m, tries'[m]>>]
    /\ UNCHANGED <<table, next, sent, accepted, linked, receipt, origin, netFaults>>

\* Variant: no filter.
MutAllowed(addr) == TRUE

\* The hostname filter of Session.Rcpt.
Allowed(addr) == addr \notin Foreign

NextRcpt(c) == Rcpts[txn[c][1]][sent[c] + 1]

\* Variant: the limit is not looked at.
MutRcpt(c) ==
    /\ phase[c] = "envelope"
    /\ sent[c] < Len(Rcpts[txn[c][1]])
    /\ sent' = [sent EXCEPT ![c] = @ + 1]
    /\ IF Allowed(NextRcpt(c))
       THEN /\ session' = [session EXCEPT ![c].to = Append(@, NextRcpt(c))]
            /\ accepted' = [accepted EXCEPT ![c] = Append(@, NextRcpt(c))]
       ELSE UNCHANGED <<session, accepted>>
    /\ UNCHANGED <<table, phase, next, txn, linked, mails, origin, netFaults>>

Rcpt(c) ==
    /\ phase[c] = "envelope"
    /\ sent[c] < Len(Rcpts[txn[c][1]])
    /\ sent' = [sent EXCEPT ![c] = @ + 1]
    /\ IF Allowed(NextRcpt(c)) /\ Len(accepted[c]) < MaxRecipients
       THEN /\ session' = [session EXCEPT ![c].to = Append(@, NextRcpt(c))]
            /\ accepted' = [accepted EXCEPT ![c] = Append(@, NextRcpt(c))]
       ELSE UNCHANGED <<session, accepted>>
    /\ UNCHANGED <<table, phase, next, txn, linked, mails, origin, netFaults>>

\* Every recipient has been offered.
Offered(c) == phase[c] = "envelope" /\ sent[c] = Len(Rcpts[txn[c][1]])

\* No recipient was accepted, or the body is too large: RSET or an error reply.
NotAccepted(c) ==
    /\ Offered(c)
    /\ Reset(c)
    /\ Goto(c, "ready")
    /\ status' = [status EXCEPT ![txn[c][1]] = "bounced"]
    /\ EndTxn(c)
    /\ UNCHANGED <<table, next, linked, tries, receipt, origin, netFaults>>

\* DATA, and the whole body has arrived.
Data(c) ==
    /\ Offered(c) /\ accepted[c] # << >>
    /\ Goto(c, "store")
    /\ next' = [next EXCEPT ![c] = 1]
    /\ UNCHANGED <<table, session, client, mails, origin, netFaults>>

Quit(c) ==
    /\ phase[c] = "ready"
    /\ Goto(c, "closed")
    /\ linked' = linked \ {c}
    /\ UNCHANGED <<table, session, next, txn, sent, accepted, mails, origin, netFaults>>

(***************************************************************************)
(* The loop of Session.Data. Concurrent sessions interleave row by row.    *)
(***************************************************************************)
FreeId == {m \in Msg : m \notin DOMAIN table /\ \A k \in Msg \ DOMAIN table : m <= k}

Row(c) == [to |-> session[c].to[next[c]], from |-> session[c].from, processed |-> FALSE]

Create(c) ==
    \E m \in FreeId :
        /\ table' = Insert(table, m, Row(c))
        /\ origin' = [k \in DOMAIN origin \union {m} |-> IF k = m THEN txn[c] ELSE origin[k]]

Store(c) ==
    /\ phase[c] = "store" /\ next[c] <= Len(session[c].to)
    /\ Create(c)
    /\ next' = [next EXCEPT ![c] = @ + 1]
    /\ UNCHANGED <<phase, session, client, mails, netFaults>>

\* Data returns the error of the insert, which may have been committed.
StoreFails(c) ==
    /\ phase[c] = "store" /\ next[c] <= Len(session[c].to)
    /\ Fault
    /\ Create(c) \/ UNCHANGED <<table, origin>>
    /\ Goto(c, "failed")
    /\ UNCHANGED <<session, next, client, mails>>

\* Variant: the loop ends one recipient early.
MutDone(c) == phase[c] = "store" /\ next[c] >= Len(session[c].to)

(***************************************************************************)
(* Data has returned: go-smtp writes the reply and resets the session. If  *)
(* the client has gone, so does the connection.                            *)
(***************************************************************************)
Done(c) == phase[c] = "store" /\ next[c] > Len(session[c].to)

Acknowledge(c) ==
    /\ Done(c) /\ c \in linked
    /\ Reset(c)
    /\ Goto(c, "ready")
    /\ status' = [status EXCEPT ![txn[c][1]] = "acked"]
    /\ receipt' = [receipt EXCEPT ![txn[c][1]] = accepted[c]]
    /\ EndTxn(c)
    /\ UNCHANGED <<table, next, linked, tries, origin, netFaults>>

Refuse(c) ==
    /\ phase[c] = "failed" /\ c \in linked
    /\ Reset(c)
    /\ Goto(c, "ready")
    /\ Retry(txn[c][1])
    /\ EndTxn(c)
    /\ UNCHANGED <<table, next, linked, tries, receipt, origin, netFaults>>

HangUp(c) ==
    /\ Done(c) \/ phase[c] = "failed"
    /\ c \notin linked
    /\ Goto(c, "closed")
    /\ EndTxn(c)
    /\ UNCHANGED <<table, session, next, linked, mails, origin, netFaults>>

(***************************************************************************)
(* Failures. A connection lost during DATA leaves the handler running; the *)
(* client cannot tell and sends the mail again. A crash, or SIGTERM, which *)
(* cmd/smtp/main.go answers by returning, loses all connections.           *)
(***************************************************************************)
Lost(c) ==
    /\ c \in linked /\ txn[c] # NoTxn
    /\ Fault
    /\ linked' = linked \ {c}
    /\ Retry(txn[c][1])
    /\ IF phase[c] = "envelope"
       THEN Goto(c, "closed") /\ EndTxn(c)
       ELSE UNCHANGED <<phase, txn, sent, accepted>>
    /\ UNCHANGED <<table, session, next, tries, receipt, origin>>

Crash ==
    /\ \E c \in Conn : phase[c] # "closed"
    /\ Fault
    /\ phase' = [c \in Conn |-> "closed"]
    /\ txn' = [c \in Conn |-> NoTxn]
    /\ sent' = [c \in Conn |-> 0]
    /\ accepted' = [c \in Conn |-> << >>]
    /\ linked' = {}
    /\ status' = [m \in Mail |->
          IF status[m] # "sending" THEN status[m]
          ELSE IF tries[m] < MaxTries THEN "queued" ELSE "bounced"]
    /\ UNCHANGED <<table, session, next, tries, receipt, origin>>

-----------------------------------------------------------------------------

Next ==
    \/ \E c \in Conn :
        \/ Connect(c) \/ Rcpt(c) \/ NotAccepted(c) \/ Data(c) \/ Quit(c)
        \/ Store(c) \/ StoreFails(c)
        \/ Acknowledge(c) \/ Refuse(c) \/ HangUp(c) \/ Lost(c)
        \/ \E m \in Mail : MailCommand(c, m)
    \/ Crash

Spec == Init /\ [][Next]_vars

-----------------------------------------------------------------------------

\* The recipients of the rows one transaction has stored, in order.
Stored(t) ==
    LET ids == {m \in DOMAIN table : origin[m] = t}
    IN  [i \in 1 .. Cardinality(ids) |->
            table[CHOOSE m \in ids : Cardinality({k \in ids : k < m}) = i - 1].to]

(***************************************************************************)
(* A 250 after DATA is a promise: the acknowledged transaction stored one  *)
(* row for each recipient it had been answered 250 for, in order, and no   *)
(* other row (server.go:84-114).                                           *)
(***************************************************************************)
AckedIsStored ==
    \A m \in Mail : status[m] = "acked" => Stored(<<m, tries[m]>>) = receipt[m]

(***************************************************************************)
(* Whatever inserts fail and wherever the session was before, a running    *)
(* transaction has stored a prefix of the recipients accepted in this very *)
(* transaction: none of an earlier one on the connection, none past the    *)
(* failing one (server.go:96-111, 117-120).                                *)
(***************************************************************************)
StoredIsPrefix ==
    \A c \in Conn : txn[c] # NoTxn => IsPrefix(Stored(txn[c]), accepted[c])

(***************************************************************************)
(* A row carries the sender of the mail it was stored for, with sessions   *)
(* interleaving and being reused (server.go:57-60, 97-103).                *)
(***************************************************************************)
SenderIsKept ==
    \A m \in DOMAIN table : table[m].from = From[origin[m][1]]

=============================================================================
