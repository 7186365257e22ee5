------------------------- MODULE MailPipelineProofs -------------------------
(***************************************************************************)
(* Proofs about the agent and the worker together, for any mails, jobs,    *)
(* connections and bounds: the invariant follows a recipient from the      *)
(* command that was accepted through the session and the row to the call.  *)
(* A second part counts the rows a mail is stored as and, with what        *)
(* MessagePollerProofs proves of the worker, the calls made for them; a    *)
(* third hides the worker's marks and carries SmtpServerProofs over.       *)
(***************************************************************************)
EXTENDS MailPipeline, FiniteSetTheorems, TLAPS

Try == Mail \X Nat
Session == [from : Sender, to : Seq(Addr)]

\* Address a is among the recipients of mail m that the agent accepts.
Mentioned(m, a) == \E i \in Accepted(m) : Rcpts[m][i] = a

\* Job j is one of those ProcessMessage selects for row k.
Selected(k, j) == Email[j] = table[k].to /\ table[k].from \in Accepts[j]

\* A session holds the sender and recipients of the mail it is about.
SessionOK(c) ==
    /\ phase[c] = "ready" => session[c].to = << >>
    /\ phase[c] \in {"envelope", "store", "failed"} =>
          /\ txn[c] \in Try
          /\ session[c].from = From[txn[c][1]]
          /\ \A i \in 1 .. Len(session[c].to) : Mentioned(txn[c][1], session[c].to[i])

SessionsOK ==
    /\ phase \in [Conn -> {"closed", "ready", "envelope", "store", "failed"}]
    /\ session \in [Conn -> Session]
    /\ next \in [Conn -> Nat \ {0}]
    /\ txn \in [Conn -> Try \union {Agent!NoTxn}]
    /\ sent \in [Conn -> Nat]
    /\ tries \in [Mail -> Nat]
    /\ \A c \in Conn : SessionOK(c)

\* So does a row.
RowOK(k) == table[k].from = From[origin[k][1]] /\ Mentioned(origin[k][1], table[k].to)

RowsOK ==
    /\ DOMAIN table \subseteq Msg
    /\ table \in [DOMAIN table -> Message]
    /\ origin \in [DOMAIN table -> Try]
    /\ \A k \in DOMAIN table : RowOK(k)

\* The worker calls for rows that exist, and only the jobs they select.
CallsOK ==
    /\ calls \in [Msg \X Job -> Nat]
    /\ jobs \subseteq Job /\ matched \subseteq Job /\ todo \subseteq matched
    /\ batch \subseteq DOMAIN table
    /\ pc \in {"send", "call", "reply", "save"} =>
          cur \in DOMAIN table /\ \A j \in matched : Selected(cur, j)
    /\ \A k \in Msg, j \in Job : calls[<<k, j>>] > 0 => k \in DOMAIN table /\ Selected(k, j)

IInv == SessionsOK /\ RowsOK /\ CallsOK

\* While RCPT commands come, those answered with 250 are all those that are ours,
\* until the limit is reached.
LimitOK(c) ==
    /\ accepted[c] \in Seq(Addr)
    /\ phase[c] \in {"closed", "ready"} => sent[c] = 0 /\ accepted[c] = << >>
    /\ phase[c] = "envelope" =>
          /\ sent[c] <= Len(Rcpts[txn[c][1]])
          /\ Len(accepted[c]) < MaxRecipients =>
                Cardinality(Ours(txn[c][1], sent[c])) <= Len(accepted[c])

LimitsOK ==
    /\ accepted \in [Conn -> Seq(Addr)]
    /\ \A c \in Conn : LimitOK(c)

-----------------------------------------------------------------------------

LEMMA InitInv == Init => IInv
<1> SUFFICES ASSUME Init PROVE IInv
  OBVIOUS
<1>1. SessionsOK
  <2>1. NullSender \in Sender /\ << >> \in Seq(Addr)
    BY PipelineAssumption DEF Agent!SmtpAssumption
  <2> QED
    BY <2>1 DEF Init, Agent!Init, Agent!NewSession, SessionsOK, SessionOK, Session
<1>2. RowsOK
  BY DEF Init, Agent!Init, RowsOK
<1>3. CallsOK
  BY DEF Init, Worker!Init, CallsOK
<1> QED
  BY <1>1, <1>2, <1>3 DEF IInv

-----------------------------------------------------------------------------
(***************************************************************************)
(* The table. Rows are added and marked; what a call depends on stays.     *)
(***************************************************************************)
Kept ==
    \A k \in DOMAIN table :
        k \in DOMAIN table' /\ table'[k].to = table[k].to /\ table'[k].from = table[k].from

\* Whatever else happens to the table, the worker's calls stay justified.
LEMMA KeptCalls ==
    ASSUME IInv, Kept, UNCHANGED workerVars PROVE CallsOK'
<1>1. UNCHANGED <<jobs, pc, batch, cur, matched, todo, calls>>
  BY DEF workerVars
<1>2. \A k \in DOMAIN table, j \in Job : Selected(k, j) => k \in DOMAIN table' /\ Selected(k, j)'
  BY DEF Kept, Selected
<1>3. \A j \in matched : j \in Job
  BY DEF IInv, CallsOK
<1> QED
  BY <1>1, <1>2, <1>3 DEF IInv, CallsOK, Kept

\* A row inserted by a session of the agent.
LEMMA CreateRows ==
    ASSUME IInv, NEW c \in Conn, phase[c] = "store", next[c] <= Len(session[c].to), Agent!Create(c)
    PROVE  RowsOK' /\ Kept
<1>1. /\ txn[c] \in Try /\ session[c] \in Session /\ session[c].from = From[txn[c][1]]
      /\ \A i \in 1 .. Len(session[c].to) : Mentioned(txn[c][1], session[c].to[i])
  BY DEF IInv, SessionsOK, SessionOK
<1>2. next[c] \in 1 .. Len(session[c].to)
  BY <1>1 DEF IInv, SessionsOK, Session
<1>3. PICK m \in Agent!FreeId :
        /\ table' = Insert(table, m, Agent!Row(c))
        /\ origin' = [k \in DOMAIN origin \union {m} |-> IF k = m THEN txn[c] ELSE origin[k]]
  BY DEF Agent!Create, Agent!Insert, Insert
<1>4. m \in Msg /\ m \notin DOMAIN table
  BY DEF Agent!FreeId
<1>5. /\ Agent!Row(c) \in Message /\ Agent!Row(c).from = From[txn[c][1]]
      /\ Mentioned(txn[c][1], Agent!Row(c).to)
  <2>1. session[c].to[next[c]] \in Addr /\ session[c].from \in Sender
    BY <1>1, <1>2 DEF Session
  <2> QED
    BY <1>1, <1>2, <2>1 DEF Agent!Row, Message
<1>6. /\ DOMAIN table' = DOMAIN table \union {m} /\ table'[m] = Agent!Row(c) /\ origin'[m] = txn[c]
      /\ \A k \in DOMAIN table : table'[k] = table[k] /\ origin'[k] = origin[k]
      /\ table' \in [DOMAIN table' -> Message] /\ origin' \in [DOMAIN table' -> Try]
  BY <1>1, <1>3, <1>4, <1>5 DEF Insert, IInv, RowsOK
<1>7. \A k \in DOMAIN table' : RowOK(k)'
  BY <1>5, <1>6 DEF IInv, RowsOK, RowOK
<1> QED
  BY <1>4, <1>6, <1>7 DEF IInv, RowsOK, Kept

LEMMA SameRows == ASSUME IInv, UNCHANGED <<table, origin>> PROVE RowsOK' /\ Kept
BY DEF IInv, RowsOK, RowOK, Kept

-----------------------------------------------------------------------------
(***************************************************************************)
(* The sessions.                                                           *)
(***************************************************************************)
LEMMA NewSessionType == [from |-> NullSender, to |-> << >>] \in Session
BY PipelineAssumption DEF Agent!SmtpAssumption, Session

\* Sessions other than c are left alone by the steps of c.
LEMMA OneSession ==
    ASSUME IInv, NEW c \in Conn, SessionOK(c)',
           phase' \in [Conn -> {"closed", "ready", "envelope", "store", "failed"}],
           session' \in [Conn -> Session], next' \in [Conn -> Nat \ {0}],
           txn' \in [Conn -> Try \union {Agent!NoTxn}], sent' \in [Conn -> Nat],
           tries' \in [Mail -> Nat],
           \A d \in Conn \ {c} :
              phase'[d] = phase[d] /\ session'[d] = session[d] /\ txn'[d] = txn[d]
    PROVE  SessionsOK'
<1>1. ASSUME NEW d \in Conn \ {c} PROVE SessionOK(d)'
  <2>1. SessionOK(d) /\ phase'[d] = phase[d] /\ session'[d] = session[d] /\ txn'[d] = txn[d]
    BY DEF IInv, SessionsOK
  <2> QED
    BY <2>1 DEF SessionOK
<1> QED
  BY <1>1 DEF SessionsOK

\* A step that ends the transaction of c or leaves c without one.
LEMMA Idle ==
    ASSUME IInv, NEW c \in Conn, NEW p \in {"closed", "ready"},
           phase' = [phase EXCEPT ![c] = p],
           \/ session' = [session EXCEPT ![c] = [from |-> NullSender, to |-> << >>]]
           \/ p = "closed" /\ session' = session,
           txn' = [txn EXCEPT ![c] = Agent!NoTxn] \/ txn' = txn,
           sent' = [sent EXCEPT ![c] = 0] \/ sent' = sent,
           UNCHANGED <<next, tries>>
    PROVE  SessionsOK'
<1>1. /\ phase' \in [Conn -> {"closed", "ready", "envelope", "store", "failed"}]
      /\ phase'[c] = p /\ \A d \in Conn \ {c} : phase'[d] = phase[d]
  BY DEF IInv, SessionsOK
<1>2. /\ session' \in [Conn -> Session] /\ (p = "ready" => session'[c].to = << >>)
      /\ \A d \in Conn \ {c} : session'[d] = session[d]
  <2>1. session \in [Conn -> Session]
    BY DEF IInv, SessionsOK
  <2>2. CASE session' = [session EXCEPT ![c] = [from |-> NullSender, to |-> << >>]]
    <3> DEFINE s == [from |-> NullSender, to |-> << >>]
    <3>1. s \in Session /\ s.to = << >>
      BY NewSessionType
    <3>2. session' = [session EXCEPT ![c] = s]
      BY <2>2
    <3> HIDE DEF s
    <3> QED
      BY <2>1, <3>1, <3>2
  <2>3. CASE p = "closed" /\ session' = session
    BY <2>1, <2>3
  <2> QED
    BY <2>2, <2>3
<1>3. /\ txn' \in [Conn -> Try \union {Agent!NoTxn}]
      /\ \A d \in Conn \ {c} : txn'[d] = txn[d]
  BY DEF IInv, SessionsOK
<1>4. sent' \in [Conn -> Nat]
  BY DEF IInv, SessionsOK
<1>5. next' \in [Conn -> Nat \ {0}] /\ tries' \in [Mail -> Nat]
  BY DEF IInv, SessionsOK
<1>6. SessionOK(c)'
  BY <1>1, <1>2 DEF SessionOK
<1> QED
  BY <1>1, <1>2, <1>3, <1>4, <1>5, <1>6, OneSession

LEMMA IdleSteps ==
    ASSUME IInv, NEW c \in Conn,
           \/ Agent!Connect(c) \/ Agent!Quit(c) \/ Agent!NotAccepted(c)
           \/ Agent!Acknowledge(c) \/ Agent!Refuse(c) \/ Agent!HangUp(c)
    PROVE  SessionsOK' /\ RowsOK' /\ Kept
<1>1. \E p \in {"closed", "ready"} :
        /\ phase' = [phase EXCEPT ![c] = p]
        /\ \/ session' = [session EXCEPT ![c] = [from |-> NullSender, to |-> << >>]]
           \/ p = "closed" /\ session' = session
        /\ txn' = [txn EXCEPT ![c] = Agent!NoTxn] \/ txn' = txn
        /\ sent' = [sent EXCEPT ![c] = 0] \/ sent' = sent
        /\ UNCHANGED <<next, tries>>
  BY DEF Agent!Connect, Agent!Quit, Agent!NotAccepted, Agent!Acknowledge, Agent!Refuse, Agent!HangUp,
         Agent!Goto, Agent!Reset, Agent!EndTxn, Agent!NewSession, Agent!mails
<1>2. UNCHANGED <<table, origin>>
  BY DEF Agent!Connect, Agent!Quit, Agent!NotAccepted, Agent!Acknowledge, Agent!Refuse, Agent!HangUp
<1> QED
  BY <1>1, <1>2, Idle, SameRows

LEMMA MailCommandStep ==
    ASSUME IInv, NEW c \in Conn, NEW m \in Mail, Agent!MailCommand(c, m)
    PROVE  SessionsOK' /\ RowsOK' /\ Kept
<1>1. /\ phase[c] = "ready" /\ phase' = [phase EXCEPT ![c] = "envelope"]
      /\ session' = [session EXCEPT ![c] = [session[c] EXCEPT !.from = From[m]]]
      /\ tries' = [tries EXCEPT ![m] = tries[m] + 1] /\ txn' = [txn EXCEPT ![c] = <<m, tries'[m]>>]
      /\ UNCHANGED <<table, next, sent, origin>>
  BY DEF Agent!MailCommand, Agent!Goto
<1>2. From[m] \in Sender /\ session[c] \in Session /\ session[c].to = << >>
  BY <1>1, PipelineAssumption DEF Agent!SmtpAssumption, IInv, SessionsOK, SessionOK
<1>3. /\ [session[c] EXCEPT !.from = From[m]] \in Session
      /\ [session[c] EXCEPT !.from = From[m]].from = From[m]
      /\ [session[c] EXCEPT !.from = From[m]].to = << >>
  BY <1>2 DEF Session
<1>4. tries' \in [Mail -> Nat] /\ <<m, tries'[m]>> \in Try /\ <<m, tries'[m]>>[1] = m
  BY <1>1 DEF IInv, SessionsOK, Try
<1>5. /\ phase' \in [Conn -> {"closed", "ready", "envelope", "store", "failed"}]
      /\ session' \in [Conn -> Session] /\ txn' \in [Conn -> Try \union {Agent!NoTxn}]
      /\ phase'[c] = "envelope" /\ txn'[c] \in Try /\ txn'[c][1] = m
      /\ session'[c].from = From[m] /\ session'[c].to = << >>
      /\ \A d \in Conn \ {c} :
            phase'[d] = phase[d] /\ session'[d] = session[d] /\ txn'[d] = txn[d]
  BY <1>1, <1>3, <1>4 DEF IInv, SessionsOK
<1>6. SessionOK(c)'
  BY <1>5 DEF SessionOK
<1> QED
  BY <1>1, <1>4, <1>5, <1>6, OneSession, SameRows DEF IInv, SessionsOK

LEMMA OursFinite ==
    ASSUME NEW m, NEW n \in Nat
    PROVE  IsFiniteSet(Ours(m, n)) /\ Cardinality(Ours(m, n)) \in Nat
<1>1. Ours(m, n) \in SUBSET (1 .. n) /\ IsFiniteSet(1 .. n)
  BY FS_Interval DEF Ours
<1> QED
  BY <1>1, FS_Subset, FS_CardinalityType

\* One more recipient adds at most one to those that are ours.
LEMMA OursNext ==
    ASSUME NEW m, NEW n \in Nat
    PROVE  Cardinality(Ours(m, n + 1)) <=
              Cardinality(Ours(m, n)) + (IF Rcpts[m][n + 1] \in Foreign THEN 0 ELSE 1)
<1>1. IsFiniteSet(Ours(m, n)) /\ Cardinality(Ours(m, n)) \in Nat
  BY OursFinite
<1>2. CASE Rcpts[m][n + 1] \in Foreign
  <2>1. Ours(m, n + 1) = Ours(m, n)
    BY <1>2 DEF Ours
  <2> QED
    BY <1>1, <1>2, <2>1
<1>3. CASE Rcpts[m][n + 1] \notin Foreign
  <2>1. Ours(m, n + 1) = Ours(m, n) \union {n + 1}
    BY <1>3 DEF Ours
  <2>2. n + 1 \notin Ours(m, n)
    BY DEF Ours
  <2>3. Cardinality(Ours(m, n) \union {n + 1}) = Cardinality(Ours(m, n)) + 1
    BY <1>1, <2>2, FS_AddElement
  <2> QED
    BY <1>1, <1>3, <2>1, <2>3
<1> QED
  BY <1>2, <1>3

LEMMA RcptStep ==
    ASSUME IInv, LimitsOK, NEW c \in Conn, Agent!Rcpt(c)
    PROVE  SessionsOK' /\ RowsOK' /\ Kept
<1>1. /\ phase[c] = "envelope" /\ sent[c] < Len(Rcpts[txn[c][1]])
      /\ UNCHANGED <<table, phase, next, txn, tries, origin>> /\ sent' \in [Conn -> Nat]
      /\ txn[c] \in Try /\ session[c] \in Session /\ session[c].from = From[txn[c][1]]
      /\ \A i \in 1 .. Len(session[c].to) : Mentioned(txn[c][1], session[c].to[i])
  BY DEF Agent!Rcpt, Agent!mails, IInv, SessionsOK, SessionOK
<1> DEFINE a == Rcpts[txn[c][1]][sent[c] + 1]
<1>2. \/ UNCHANGED session
      \/ /\ a \notin Foreign /\ Len(accepted[c]) < MaxRecipients
         /\ session' = [session EXCEPT ![c] = [session[c] EXCEPT !.to = Append(session[c].to, a)]]
  BY DEF Agent!Rcpt, Agent!Allowed, Agent!NextRcpt
<1>3. CASE UNCHANGED session
  <2>1. SessionsOK'
    BY <1>1, <1>3 DEF IInv, SessionsOK, SessionOK
  <2> QED
    BY <1>1, <2>1, SameRows
<1>4. CASE /\ a \notin Foreign /\ Len(accepted[c]) < MaxRecipients
           /\ session' = [session EXCEPT ![c] = [session[c] EXCEPT !.to = Append(session[c].to, a)]]
  <2>1. Rcpts[txn[c][1]] \in Seq(Addr \union Foreign) /\ sent[c] + 1 \in DOMAIN Rcpts[txn[c][1]]
    BY <1>1, PipelineAssumption DEF Agent!SmtpAssumption, Try, IInv, SessionsOK
  <2>2. a \in Addr /\ Mentioned(txn[c][1], a)
    <3>1. /\ Len(accepted[c]) \in Nat /\ MaxRecipients \in Nat /\ sent[c] \in Nat
          /\ Len(Rcpts[txn[c][1]]) \in Nat /\ DOMAIN Rcpts[txn[c][1]] = 1 .. Len(Rcpts[txn[c][1]])
      BY <1>1, <2>1, PipelineAssumption DEF Agent!SmtpAssumption, LimitsOK, LimitOK, IInv, SessionsOK
    <3>2. Cardinality(Ours(txn[c][1], sent[c])) <= Len(accepted[c])
      BY <1>1, <1>4 DEF LimitsOK, LimitOK
    <3>3. Ours(txn[c][1], (sent[c] + 1) - 1) = Ours(txn[c][1], sent[c])
      BY <3>1 DEF Ours
    <3>4. Cardinality(Ours(txn[c][1], sent[c])) \in Nat
      BY <3>1, OursFinite
    <3>5. sent[c] + 1 \in Ours(txn[c][1], Len(Rcpts[txn[c][1]]))
      BY <1>4, <2>1, <3>1 DEF Ours
    <3>6. Cardinality(Ours(txn[c][1], (sent[c] + 1) - 1)) < MaxRecipients
      BY <1>4, <3>1, <3>2, <3>3, <3>4
    <3>7. sent[c] + 1 \in Accepted(txn[c][1])
      BY <3>5, <3>6 DEF Accepted
    <3> QED
      BY <1>4, <2>1, <3>7 DEF Mentioned
  <2> HIDE DEF a
  <2> DEFINE s == [session[c] EXCEPT !.to = Append(session[c].to, a)]
  <2>3. /\ s \in Session /\ s.from = session[c].from /\ s.to = Append(session[c].to, a)
    <3>1. session[c].to \in Seq(Addr) /\ Append(session[c].to, a) \in Seq(Addr)
      BY <1>1, <2>2 DEF Session
    <3> QED
      BY <1>1, <3>1 DEF Session
  <2>4. \A i \in 1 .. Len(s.to) : Mentioned(txn[c][1], s.to[i])
    <3>1. session[c].to \in Seq(Addr)
      BY <1>1 DEF Session
    <3>2. Len(s.to) = Len(session[c].to) + 1 /\ s.to[Len(session[c].to) + 1] = a
          /\ Len(session[c].to) \in Nat
          /\ \A i \in 1 .. Len(session[c].to) : s.to[i] = session[c].to[i]
      BY <2>2, <2>3, <3>1
    <3> HIDE DEF s
    <3> QED
      BY <1>1, <2>2, <3>2
  <2>5. session' = [session EXCEPT ![c] = s]
    BY <1>4
  <2> HIDE DEF s
  <2>6. /\ session' \in [Conn -> Session] /\ session'[c] = s
        /\ \A d \in Conn \ {c} : session'[d] = session[d]
    BY <2>3, <2>5 DEF IInv, SessionsOK
  <2>7. SessionOK(c)'
    BY <1>1, <2>3, <2>4, <2>6 DEF SessionOK
  <2>8. SessionsOK'
    BY <1>1, <2>6, <2>7, OneSession DEF IInv, SessionsOK
  <2> QED
    BY <1>1, <2>8, SameRows
<1> QED
  BY <1>2, <1>3, <1>4

LEMMA DataStep ==
    ASSUME IInv, NEW c \in Conn, Agent!Data(c)
    PROVE  SessionsOK' /\ RowsOK' /\ Kept
<1>1. /\ phase[c] = "envelope" /\ phase' = [phase EXCEPT ![c] = "store"]
      /\ next' = [next EXCEPT ![c] = 1]
      /\ UNCHANGED <<table, session, txn, sent, tries, origin>>
  BY DEF Agent!Data, Agent!Offered, Agent!Goto, Agent!client, Agent!mails
<1>2. /\ phase' \in [Conn -> {"closed", "ready", "envelope", "store", "failed"}]
      /\ next' \in [Conn -> Nat \ {0}] /\ phase'[c] = "store"
      /\ \A d \in Conn \ {c} : phase'[d] = phase[d]
  BY <1>1 DEF IInv, SessionsOK
<1>3. SessionOK(c)'
  BY <1>1, <1>2 DEF IInv, SessionsOK, SessionOK
<1> QED
  BY <1>1, <1>2, <1>3, OneSession, SameRows DEF IInv, SessionsOK

LEMMA StoreStep ==
    ASSUME IInv, NEW c \in Conn, Agent!Store(c) \/ Agent!StoreFails(c)
    PROVE  SessionsOK' /\ RowsOK' /\ Kept
<1>1. /\ phase[c] = "store" /\ next[c] <= Len(session[c].to)
      /\ Agent!Create(c) \/ UNCHANGED <<table, origin>>
      /\ UNCHANGED <<session, txn, sent, tries>>
      /\ \/ UNCHANGED phase /\ next' = [next EXCEPT ![c] = next[c] + 1]
         \/ phase' = [phase EXCEPT ![c] = "failed"] /\ UNCHANGED next
  BY DEF Agent!Store, Agent!StoreFails, Agent!Goto, Agent!client, Agent!mails
<1>2. /\ phase' \in [Conn -> {"closed", "ready", "envelope", "store", "failed"}]
      /\ phase'[c] \in {"store", "failed"} /\ \A d \in Conn \ {c} : phase'[d] = phase[d]
  BY <1>1 DEF IInv, SessionsOK
<1>3. next' \in [Conn -> Nat \ {0}]
  <2>1. next \in [Conn -> Nat \ {0}] /\ next[c] + 1 \in Nat \ {0}
    BY DEF IInv, SessionsOK
  <2> QED
    BY <1>1, <2>1
<1>4. SessionOK(c)'
  <2>1. SessionOK(c)
    BY DEF IInv, SessionsOK
  <2> QED
    BY <1>1, <1>2, <2>1 DEF SessionOK
<1>5. SessionsOK'
  BY <1>1, <1>2, <1>3, <1>4, OneSession DEF IInv, SessionsOK
<1> QED
  BY <1>1, <1>5, CreateRows, SameRows

LEMMA FailureStep ==
    ASSUME IInv, Agent!Crash \/ \E c \in Conn : Agent!Lost(c)
    PROVE  SessionsOK' /\ RowsOK' /\ Kept
<1>1. CASE Agent!Crash
  <2>1. /\ phase' = [c \in Conn |-> "closed"] /\ txn' = [c \in Conn |-> Agent!NoTxn]
        /\ sent' = [c \in Conn |-> 0] /\ UNCHANGED <<table, session, next, tries, origin>>
    BY <1>1 DEF Agent!Crash
  <2>2. SessionsOK'
    BY <2>1 DEF IInv, SessionsOK, SessionOK
  <2> QED
    BY <2>1, <2>2, SameRows
<1>2. ASSUME NEW c \in Conn, Agent!Lost(c) PROVE SessionsOK' /\ RowsOK' /\ Kept
  <2>1. UNCHANGED <<table, session, next, tries, origin>>
    BY <1>2 DEF Agent!Lost
  <2>2. CASE phase[c] = "envelope"
    <3>1. /\ phase' = [phase EXCEPT ![c] = "closed"] /\ txn' = [txn EXCEPT ![c] = Agent!NoTxn]
          /\ sent' = [sent EXCEPT ![c] = 0]
      BY <1>2, <2>2 DEF Agent!Lost, Agent!Goto, Agent!EndTxn
    <3> QED
      BY <2>1, <3>1, Idle, SameRows
  <2>3. CASE phase[c] # "envelope"
    <3>1. UNCHANGED <<phase, txn, sent>>
      BY <1>2, <2>3 DEF Agent!Lost
    <3>2. SessionsOK'
      BY <2>1, <3>1 DEF IInv, SessionsOK, SessionOK
    <3> QED
      BY <2>1, <3>2, SameRows
  <2> QED
    BY <2>2, <2>3
<1> QED
  BY <1>1, <1>2

LEMMA AgentInv == ASSUME IInv, LimitsOK, AgentStep PROVE IInv'
<1>1. SessionsOK' /\ RowsOK' /\ Kept
  <2>1. CASE Agent!Crash
    BY <2>1, FailureStep
  <2>2. ASSUME NEW c \in Conn, NEW m \in Mail, Agent!MailCommand(c, m)
        PROVE  SessionsOK' /\ RowsOK' /\ Kept
    BY <2>2, MailCommandStep
  <2>3. ASSUME NEW c \in Conn,
               \/ Agent!Connect(c) \/ Agent!Quit(c) \/ Agent!NotAccepted(c)
               \/ Agent!Acknowledge(c) \/ Agent!Refuse(c) \/ Agent!HangUp(c)
        PROVE  SessionsOK' /\ RowsOK' /\ Kept
    BY <2>3, IdleSteps
  <2>4. ASSUME NEW c \in Conn,
               \/ Agent!Rcpt(c) \/ Agent!Data(c) \/ Agent!Store(c) \/ Agent!StoreFails(c)
               \/ Agent!Lost(c)
        PROVE  SessionsOK' /\ RowsOK' /\ Kept
    BY <2>4, RcptStep, DataStep, StoreStep, FailureStep
  <2> QED
    BY <2>1, <2>2, <2>3, <2>4 DEF AgentStep, Agent!Next
<1>2. UNCHANGED workerVars
  BY DEF AgentStep
<1> QED
  BY <1>1, <1>2, KeptCalls DEF IInv

-----------------------------------------------------------------------------
(***************************************************************************)
(* The worker and the web application.                                     *)
(***************************************************************************)
LEMMA AgentRests ==
    ASSUME IInv, UNCHANGED agentVars PROVE SessionsOK'
BY DEF agentVars, IInv, SessionsOK, SessionOK

\* Marking the message in hand changes nothing a call depends on.
LEMMA MarkRows ==
    ASSUME IInv, pc = "save", Worker!Mark(cur), UNCHANGED origin PROVE RowsOK' /\ Kept
<1>1. cur \in DOMAIN table /\ table[cur] \in Message
  BY DEF IInv, CallsOK, RowsOK
<1>2. table' = [table EXCEPT ![cur] = [table[cur] EXCEPT !.processed = TRUE]]
  BY DEF Worker!Mark
<1>3. /\ [table[cur] EXCEPT !.processed = TRUE] \in Message
      /\ [table[cur] EXCEPT !.processed = TRUE].to = table[cur].to
      /\ [table[cur] EXCEPT !.processed = TRUE].from = table[cur].from
  BY <1>1 DEF Message
<1>4. /\ DOMAIN table' = DOMAIN table /\ table' \in [DOMAIN table' -> Message] /\ Kept
  BY <1>1, <1>2, <1>3 DEF IInv, RowsOK, Kept
<1>5. \A k \in DOMAIN table' : RowOK(k)'
  BY <1>4 DEF Kept, IInv, RowsOK, RowOK
<1> QED
  BY <1>4, <1>5 DEF IInv, RowsOK

\* The end of a pass, with the row marked or not.
LEMMA SaveInv ==
    ASSUME IInv, Worker!Save \/ Worker!SaveFails, UNCHANGED agentVars PROVE IInv'
<1>1. /\ pc = "save" /\ pc' = "next" /\ matched' = {} /\ todo' = {}
      /\ Worker!Mark(cur) \/ UNCHANGED table
      /\ UNCHANGED <<jobs, batch, calls, origin>>
  BY DEF Worker!Save, Worker!SaveFails, Worker!EndPass, Worker!history, agentVars
<1>2. RowsOK' /\ Kept
  BY <1>1, MarkRows, SameRows
<1>3. CallsOK'
  <2>1. \A k \in DOMAIN table, j \in Job : Selected(k, j) => k \in DOMAIN table' /\ Selected(k, j)'
    BY <1>2 DEF Kept, Selected
  <2> QED
    BY <1>1, <1>2, <2>1 DEF IInv, CallsOK, Kept
<1> QED
  BY <1>2, <1>3, AgentRests DEF IInv

LEMMA LookupInv ==
    ASSUME IInv, NEW m \in Msg, Worker!Lookup(m) \/ Worker!LookupFails(m),
           UNCHANGED agentVars
    PROVE  IInv'
<1>1. UNCHANGED <<table, jobs, calls, origin>> /\ m \in batch /\ batch' = batch \ {m}
      /\ m \in DOMAIN table
  BY DEF Worker!Lookup, Worker!LookupFails, Worker!First, Worker!shared, Worker!history, agentVars,
         IInv, CallsOK
<1>2. CASE Worker!Lookup(m)
  <2>1. /\ cur' = m /\ todo' = matched'
        /\ matched' = {j \in jobs : Selected(m, j)}
    BY <1>2 DEF Worker!Lookup, Worker!ProcessMessage, Worker!GetActiveJobs, ProcessMessage,
                GetActiveJobs, Selected
  <2>2. CallsOK'
    BY <1>1, <2>1 DEF IInv, CallsOK, Selected
  <2> QED
    BY <1>1, <2>2, SameRows, AgentRests DEF IInv
<1>3. CASE Worker!LookupFails(m)
  <2>1. UNCHANGED <<pc, cur, matched, todo>>
    BY <1>3 DEF Worker!LookupFails, Worker!process
  <2>2. CallsOK'
    BY <1>1, <2>1 DEF IInv, CallsOK, Selected
  <2> QED
    BY <1>1, <2>2, SameRows, AgentRests DEF IInv
<1> QED
  BY <1>2, <1>3

LEMMA CallInv ==
    ASSUME IInv, NEW j \in Job, Worker!CallWebhook(j), UNCHANGED agentVars PROVE IInv'
<1>1. /\ UNCHANGED <<table, jobs, batch, cur, matched, origin>>
      /\ pc = "send" /\ pc' = "call" /\ j \in todo /\ todo' = todo \ {j}
      /\ calls' = [calls EXCEPT ![<<cur, j>>] = calls[<<cur, j>>] + 1]
  BY DEF Worker!CallWebhook, Worker!shared, agentVars
<1>2. cur \in DOMAIN table /\ cur \in Msg /\ Selected(cur, j)
  BY <1>1 DEF IInv, CallsOK, RowsOK
<1>3. /\ calls' \in [Msg \X Job -> Nat]
      /\ \A k \in Msg, i \in Job : <<k, i>> # <<cur, j>> => calls'[<<k, i>>] = calls[<<k, i>>]
  BY <1>1, <1>2 DEF IInv, CallsOK
<1>4. CallsOK'
  <2>1. \A k \in Msg, i \in Job : calls'[<<k, i>>] > 0 => k \in DOMAIN table /\ Selected(k, i)
    BY <1>2, <1>3 DEF IInv, CallsOK
  <2> QED
    BY <1>1, <1>3, <2>1 DEF IInv, CallsOK, Selected
<1> QED
  BY <1>1, <1>4, SameRows, AgentRests DEF IInv

\* Steps that neither look a message up, call, nor end a pass with a mark.
LEMMA OtherInv ==
    ASSUME IInv, UNCHANGED agentVars,
           \/ Worker!Restart \/ Worker!Poll \/ Worker!Cancel \/ Worker!Stop \/ Worker!EndBatch
           \/ Worker!StartReplies \/ Worker!EndReplies \/ Worker!Signal \/ Worker!Crash
           \/ \E j \in Job : \/ Worker!SkipWebhook(j) \/ Worker!WebhookReturns(j)
                             \/ Worker!SendReply(j) \/ Worker!JobAdd(j) \/ Worker!JobDelete(j)
    PROVE  IInv'
<1>1. UNCHANGED <<table, origin, calls>>
  BY DEF Worker!Restart, Worker!Poll, Worker!Cancel, Worker!Stop, Worker!EndBatch,
         Worker!StartReplies, Worker!EndReplies, Worker!Signal, Worker!Crash, Worker!SkipWebhook,
         Worker!WebhookReturns, Worker!SendReply, Worker!JobAdd, Worker!JobDelete, Worker!shared,
         Worker!history, agentVars
<1>2. /\ jobs' \subseteq Job /\ matched' \subseteq Job /\ todo' \subseteq matched'
      /\ batch' \subseteq DOMAIN table
      /\ pc' \in {"send", "call", "reply", "save"} =>
            pc \in {"send", "call", "reply", "save"} /\ cur' = cur /\ matched' = matched
  <2>1. CASE Worker!Poll
    BY <2>1 DEF Worker!Poll, Worker!Oldest, Worker!Unprocessed, Unprocessed, Worker!shared, IInv,
                CallsOK
  <2>2. CASE \/ Worker!Restart \/ Worker!Cancel \/ Worker!Stop \/ Worker!EndBatch
             \/ Worker!EndReplies \/ Worker!Signal
    BY <2>2 DEF Worker!Restart, Worker!Cancel, Worker!Stop, Worker!EndBatch, Worker!EndReplies,
                Worker!Signal, Worker!shared, Worker!pass, IInv, CallsOK
  <2>3. CASE Worker!Crash
    BY <2>3 DEF Worker!Crash, Worker!EndPass, Worker!shared, IInv, CallsOK
  <2>4. CASE Worker!StartReplies
    BY <2>4 DEF Worker!StartReplies, Worker!shared, IInv, CallsOK
  <2>5. ASSUME NEW j \in Job, \/ Worker!SkipWebhook(j) \/ Worker!WebhookReturns(j)
                              \/ Worker!SendReply(j)
        PROVE  /\ jobs' \subseteq Job /\ matched' \subseteq Job /\ todo' \subseteq matched'
               /\ batch' \subseteq DOMAIN table
               /\ pc' \in {"send", "call", "reply", "save"} =>
                     pc \in {"send", "call", "reply", "save"} /\ cur' = cur /\ matched' = matched
    BY <2>5 DEF Worker!SkipWebhook, Worker!WebhookReturns, Worker!SendReply, Worker!shared,
                Worker!process, IInv, CallsOK
  <2>6. ASSUME NEW j \in Job, Worker!JobAdd(j) \/ Worker!JobDelete(j)
        PROVE  /\ jobs' \subseteq Job /\ matched' \subseteq Job /\ todo' \subseteq matched'
               /\ batch' \subseteq DOMAIN table
               /\ pc' \in {"send", "call", "reply", "save"} =>
                     pc \in {"send", "call", "reply", "save"} /\ cur' = cur /\ matched' = matched
    BY <2>6 DEF Worker!JobAdd, Worker!JobDelete, Worker!process, Worker!pass, IInv, CallsOK
  <2> QED
    BY <2>1, <2>2, <2>3, <2>4, <2>5, <2>6
<1>3. CallsOK'
  BY <1>1, <1>2 DEF IInv, CallsOK, Selected
<1> QED
  BY <1>1, <1>3, SameRows, AgentRests DEF IInv

-----------------------------------------------------------------------------

LEMMA NextInv == IInv /\ LimitsOK /\ [Next]_vars => IInv'
<1> SUFFICES ASSUME IInv, LimitsOK, [Next]_vars PROVE IInv'
  OBVIOUS
<1>1. CASE UNCHANGED vars
  BY <1>1, SameRows, AgentRests, KeptCalls DEF vars, agentVars, IInv
<1>2. CASE AgentStep
  BY <1>2, AgentInv
<1>3. CASE WebStep
  BY <1>3, OtherInv DEF WebStep
<1>4. CASE WorkerStep
  <2>1. UNCHANGED agentVars
    BY <1>4 DEF WorkerStep
  <2>2. CASE Worker!Signal \/ Worker!Crash
    BY <2>1, <2>2, OtherInv
  <2>3. CASE Worker!Worker
    BY <2>1, <2>3, OtherInv, SaveInv, LookupInv, CallInv DEF Worker!Worker
  <2> QED
    BY <1>4, <2>2, <2>3 DEF WorkerStep
<1> QED
  BY <1>1, <1>2, <1>3, <1>4 DEF Next

-----------------------------------------------------------------------------
(***************************************************************************)
(* The recipients a transaction has accepted so far.                       *)
(***************************************************************************)
LEMMA InitLimits == Init => LimitsOK
BY DEF Init, Agent!Init, LimitsOK, LimitOK

\* The other connections of a step of c.
LEMMA OneLimit ==
    ASSUME LimitsOK, NEW c \in Conn, accepted' \in [Conn -> Seq(Addr)], LimitOK(c)',
           \A d \in Conn \ {c} : /\ phase'[d] = phase[d] /\ sent'[d] = sent[d]
                                 /\ accepted'[d] = accepted[d] /\ txn'[d] = txn[d]
    PROVE  LimitsOK'
BY DEF LimitsOK, LimitOK

LEMMA RcptLimit == ASSUME IInv, LimitsOK, NEW c \in Conn, Agent!Rcpt(c) PROVE LimitsOK'
<1> DEFINE m == txn[c][1]
           a == Rcpts[m][sent[c] + 1]
<1>1. /\ phase[c] = "envelope" /\ sent[c] < Len(Rcpts[m]) /\ sent' = [sent EXCEPT ![c] = sent[c] + 1]
      /\ IF a \notin Foreign /\ Len(accepted[c]) < MaxRecipients
         THEN accepted' = [accepted EXCEPT ![c] = Append(accepted[c], a)]
         ELSE accepted' = accepted
      /\ UNCHANGED <<phase, txn>>
  BY DEF Agent!Rcpt, Agent!Allowed, Agent!NextRcpt
<1>2. /\ sent \in [Conn -> Nat] /\ accepted \in [Conn -> Seq(Addr)] /\ m \in Mail
      /\ Rcpts[m] \in Seq(Addr \union Foreign) /\ MaxRecipients \in Nat
  BY <1>1, PipelineAssumption DEF Agent!SmtpAssumption, IInv, SessionsOK, SessionOK, LimitsOK, Try
<1>3. sent[c] \in Nat /\ Len(Rcpts[m]) \in Nat /\ Len(accepted[c]) \in Nat /\ sent'[c] = sent[c] + 1
      /\ \A d \in Conn \ {c} : sent'[d] = sent[d]
  BY <1>1, <1>2
<1>4. sent[c] + 1 \in 1 .. Len(Rcpts[m]) /\ a \in Addr \union Foreign
  BY <1>1, <1>2, <1>3
<1>5. /\ Cardinality(Ours(m, sent[c])) \in Nat /\ Cardinality(Ours(m, sent[c] + 1)) \in Nat
      /\ Cardinality(Ours(m, sent[c] + 1)) <= Cardinality(Ours(m, sent[c])) + (IF a \in Foreign THEN 0 ELSE 1)
      /\ Len(accepted[c]) < MaxRecipients => Cardinality(Ours(m, sent[c])) <= Len(accepted[c])
  <2>1. sent[c] + 1 \in Nat
    BY <1>3
  <2>2. Cardinality(Ours(m, sent[c])) \in Nat /\ Cardinality(Ours(m, sent[c] + 1)) \in Nat
    BY <1>3, <2>1, OursFinite
  <2>3. Cardinality(Ours(m, sent[c] + 1)) <= Cardinality(Ours(m, sent[c])) + (IF a \in Foreign THEN 0 ELSE 1)
    BY <1>3, OursNext
  <2> QED
    BY <1>1, <2>2, <2>3 DEF LimitsOK, LimitOK
<1> HIDE DEF a
<1>6. CASE a \notin Foreign /\ Len(accepted[c]) < MaxRecipients
  <2>1. Append(accepted[c], a) \in Seq(Addr) /\ Len(Append(accepted[c], a)) = Len(accepted[c]) + 1
    BY <1>2, <1>4, <1>6
  <2>2. accepted' = [accepted EXCEPT ![c] = Append(accepted[c], a)]
    BY <1>1, <1>6
  <2>3. accepted' \in [Conn -> Seq(Addr)] /\ accepted'[c] = Append(accepted[c], a)
        /\ \A d \in Conn \ {c} : accepted'[d] = accepted[d]
    BY <1>2, <2>1, <2>2
  <2>4. LimitOK(c)'
    <3>1. Ours(txn[c][1], sent[c])' = Ours(m, sent[c] + 1)
      BY <1>1, <1>3 DEF Ours
    <3>2. Len(accepted'[c]) < MaxRecipients => Cardinality(Ours(m, sent[c] + 1)) <= Len(accepted'[c])
      BY <1>2, <1>3, <1>5, <1>6, <2>1, <2>3
    <3> QED
      BY <1>1, <1>3, <2>1, <2>3, <3>1, <3>2 DEF LimitOK
  <2> QED
    BY <1>1, <1>3, <2>3, <2>4, OneLimit
<1>7. CASE ~(a \notin Foreign /\ Len(accepted[c]) < MaxRecipients)
  <2>1. accepted' = accepted
    BY <1>1, <1>7
  <2>2. LimitOK(c)'
    BY <1>1, <1>2, <1>3, <1>5, <1>7, <2>1 DEF LimitOK, Ours
  <2> QED
    BY <1>1, <1>2, <1>3, <2>1, <2>2, OneLimit
<1> QED
  BY <1>6, <1>7

LEMMA MailLimit ==
    ASSUME IInv, LimitsOK, NEW c \in Conn, NEW m \in Mail, Agent!MailCommand(c, m) PROVE LimitsOK'
<1>1. /\ phase[c] = "ready" /\ phase' = [phase EXCEPT ![c] = "envelope"]
      /\ tries' = [tries EXCEPT ![m] = tries[m] + 1] /\ txn' = [txn EXCEPT ![c] = <<m, tries'[m]>>]
      /\ UNCHANGED <<sent, accepted>>
  BY DEF Agent!MailCommand, Agent!Goto
<1>2. /\ phase'[c] = "envelope" /\ txn'[c][1] = m
      /\ \A d \in Conn \ {c} : phase'[d] = phase[d] /\ txn'[d] = txn[d]
  BY <1>1 DEF IInv, SessionsOK
<1>3. sent[c] = 0 /\ accepted[c] = << >>
  BY <1>1 DEF LimitsOK, LimitOK
<1>4. Ours(m, 0) = {} /\ Cardinality(Ours(m, 0)) = 0
  BY FS_EmptySet DEF Ours
<1>5. Len(Rcpts[m]) \in Nat
  BY PipelineAssumption DEF Agent!SmtpAssumption
<1>6. LimitOK(c)'
  BY <1>1, <1>2, <1>3, <1>4, <1>5 DEF LimitsOK, LimitOK, Ours
<1> QED
  BY <1>1, <1>2, <1>6, OneLimit DEF LimitsOK

\* A step after which c takes no recipient, and that keeps what it has accepted.
LEMMA QuietLimit ==
    ASSUME LimitsOK, NEW c \in Conn, phase'[c] # "envelope",
           \A d \in Conn \ {c} : phase'[d] = phase[d], UNCHANGED <<txn, sent, accepted>>,
           phase'[c] \in {"closed", "ready"} => phase[c] \in {"closed", "ready"}
    PROVE  LimitsOK'
<1>1. LimitOK(c)'
  BY DEF LimitsOK, LimitOK
<1> QED
  BY <1>1, OneLimit DEF LimitsOK

\* A step that ends the transaction of c.
LEMMA EndLimit ==
    ASSUME IInv, LimitsOK, NEW c \in Conn, phase'[c] \in {"closed", "ready"},
           \A d \in Conn \ {c} : phase'[d] = phase[d],
           txn' = [txn EXCEPT ![c] = Agent!NoTxn], sent' = [sent EXCEPT ![c] = 0],
           accepted' = [accepted EXCEPT ![c] = << >>]
    PROVE  LimitsOK'
<1>1. /\ << >> \in Seq(Addr) /\ sent \in [Conn -> Nat] /\ accepted \in [Conn -> Seq(Addr)]
      /\ txn \in [Conn -> Try \union {Agent!NoTxn}]
  BY DEF IInv, SessionsOK, LimitsOK
<1>2. /\ sent'[c] = 0 /\ accepted'[c] = << >> /\ accepted' \in [Conn -> Seq(Addr)]
      /\ \A d \in Conn \ {c} : accepted'[d] = accepted[d] /\ sent'[d] = sent[d] /\ txn'[d] = txn[d]
  BY <1>1
<1>3. LimitOK(c)'
  BY <1>1, <1>2 DEF LimitOK
<1> QED
  BY <1>2, <1>3, OneLimit

LEMMA AgentLimit == ASSUME IInv, LimitsOK, AgentStep PROVE LimitsOK'
<1> USE DEF Agent!Goto, Agent!EndTxn, Agent!client
<1>1. phase \in [Conn -> {"closed", "ready", "envelope", "store", "failed"}]
      /\ txn \in [Conn -> Try \union {Agent!NoTxn}] /\ sent \in [Conn -> Nat]
  BY DEF IInv, SessionsOK
<1>2. CASE Agent!Crash
  <2>1. << >> \in Seq(Addr)
    OBVIOUS
  <2> QED
    BY <1>2, <2>1 DEF Agent!Crash, LimitsOK, LimitOK
<1>3. ASSUME NEW c \in Conn,
             Agent!Connect(c) \/ Agent!Quit(c) \/ Agent!Data(c) \/ Agent!Store(c) \/ Agent!StoreFails(c)
      PROVE  LimitsOK'
  <2>1. /\ phase'[c] # "envelope" /\ \A d \in Conn \ {c} : phase'[d] = phase[d]
        /\ UNCHANGED <<txn, sent, accepted>>
        /\ phase'[c] \in {"closed", "ready"} => phase[c] \in {"closed", "ready"}
    BY <1>1, <1>3 DEF Agent!Connect, Agent!Quit, Agent!Data, Agent!Store, Agent!StoreFails
  <2> QED
    BY <2>1, QuietLimit
<1>4. ASSUME NEW c \in Conn,
             Agent!NotAccepted(c) \/ Agent!Acknowledge(c) \/ Agent!Refuse(c) \/ Agent!HangUp(c)
      PROVE  LimitsOK'
  <2>1. /\ phase'[c] \in {"closed", "ready"} /\ \A d \in Conn \ {c} : phase'[d] = phase[d]
        /\ txn' = [txn EXCEPT ![c] = Agent!NoTxn] /\ sent' = [sent EXCEPT ![c] = 0]
        /\ accepted' = [accepted EXCEPT ![c] = << >>]
    BY <1>1, <1>4 DEF Agent!NotAccepted, Agent!Acknowledge, Agent!Refuse, Agent!HangUp
  <2> QED
    BY <1>1, <2>1, EndLimit
<1>5. ASSUME NEW c \in Conn, Agent!Lost(c) PROVE LimitsOK'
  <2>1. CASE phase[c] = "envelope"
    <3>1. /\ phase'[c] = "closed" /\ \A d \in Conn \ {c} : phase'[d] = phase[d]
          /\ txn' = [txn EXCEPT ![c] = Agent!NoTxn] /\ sent' = [sent EXCEPT ![c] = 0]
          /\ accepted' = [accepted EXCEPT ![c] = << >>]
      BY <1>1, <1>5, <2>1 DEF Agent!Lost
    <3> QED
      BY <1>1, <3>1, EndLimit
  <2>2. CASE phase[c] # "envelope"
    <3>1. UNCHANGED <<phase, txn, sent, accepted>>
      BY <1>5, <2>2 DEF Agent!Lost
    <3> QED
      BY <3>1 DEF LimitsOK, LimitOK
  <2> QED
    BY <2>1, <2>2
<1> QED
  BY <1>2, <1>3, <1>4, <1>5, MailLimit, RcptLimit DEF AgentStep, Agent!Next

LEMMA NextLimits == IInv /\ LimitsOK /\ [Next]_vars => LimitsOK'
<1> SUFFICES ASSUME IInv, LimitsOK, [Next]_vars PROVE LimitsOK'
  OBVIOUS
<1>1. CASE AgentStep
  BY <1>1, AgentLimit
<1>2. CASE UNCHANGED agentVars
  BY <1>2 DEF agentVars, LimitsOK, LimitOK, Ours
<1> QED
  BY <1>1, <1>2 DEF Next, WebStep, WorkerStep, vars

LEMMA Invariance == Spec => []IInv
<1>1. Init => IInv /\ LimitsOK
  BY InitInv, InitLimits
<1>2. IInv /\ LimitsOK /\ [Next]_vars => IInv' /\ LimitsOK'
  BY NextInv, NextLimits
<1> QED
  BY <1>1, <1>2, PTL DEF Spec

\* A webhook is called only for a row the agent stored for a recipient of that
\* mail it has to accept, the job's own address, and only if its job accepts the mail's sender, with the agent, the
\* worker and the job pages running side by side (server.go:64-81,
\* processor.go:104-137).
THEOREM AcceptedTheorem == Spec => []CallsAreForAcceptedMail
<1>1. IInv => CallsAreForAcceptedMail
  <2> SUFFICES ASSUME IInv, NEW k \in Msg, NEW j \in Job, calls[<<k, j>>] > 0
               PROVE  /\ k \in DOMAIN table /\ table[k].to = Email[j]
                      /\ \E i \in Accepted(origin[k][1]) : Rcpts[origin[k][1]][i] = Email[j]
                      /\ From[origin[k][1]] \in Accepts[j]
    BY DEF CallsAreForAcceptedMail
  <2>1. k \in DOMAIN table /\ Selected(k, j)
    BY DEF IInv, CallsOK
  <2>2. RowOK(k)
    BY <2>1 DEF IInv, RowsOK
  <2> QED
    BY <2>1, <2>2 DEF RowOK, Selected, Mentioned
<1> QED
  BY <1>1, Invariance, PTL

-----------------------------------------------------------------------------
(***************************************************************************)
(* The worker's specification knows the agent only as rows that appear.    *)
(***************************************************************************)
LEMMA AgentIsStore ==
    ASSUME IInv, AgentStep
    PROVE  (\E m \in Msg : Worker!Store(m)) \/ UNCHANGED Worker!vars
<1>1. UNCHANGED <<jobs, pc, shutdown, ctxDone, batch, cur, matched, todo, calling, result,
                  calls, replies, faults>>
  BY DEF AgentStep, workerVars
<1>2. CASE UNCHANGED table
  BY <1>1, <1>2 DEF Worker!vars, Worker!shared, Worker!process, Worker!pass, Worker!history
<1>3. ASSUME NEW c \in Conn, phase[c] = "store", next[c] <= Len(session[c].to), Agent!Create(c)
      PROVE  \E m \in Msg : Worker!Store(m)
  <2>1. session[c] \in Session /\ next[c] \in 1 .. Len(session[c].to)
    BY <1>3 DEF IInv, SessionsOK, Session
  <2>2. session[c].to[next[c]] \in Addr /\ session[c].from \in Sender
    BY <2>1 DEF Session
  <2>3. Agent!Row(c) \in Message /\ ~Agent!Row(c).processed
    BY <2>2 DEF Agent!Row, Message
  <2>4. PICK m \in Msg : m \notin DOMAIN table /\ table' = Insert(table, m, Agent!Row(c))
    BY <1>3 DEF Agent!Create, Agent!FreeId, Agent!Insert, Insert
  <2>5. Worker!Store(m)
    BY <1>1, <2>3, <2>4 DEF Worker!Store, Worker!Message, Message, Worker!Insert, Insert,
                            Worker!process, Worker!pass, Worker!history
  <2> QED
    BY <2>5
<1>4. \/ UNCHANGED table
      \/ \E c \in Conn : phase[c] = "store" /\ next[c] <= Len(session[c].to) /\ Agent!Create(c)
  BY DEF AgentStep, Agent!Next, Agent!Connect, Agent!Rcpt, Agent!NotAccepted, Agent!Data, Agent!Quit,
         Agent!Store, Agent!StoreFails, Agent!Acknowledge, Agent!Refuse, Agent!HangUp, Agent!Lost,
         Agent!MailCommand, Agent!Crash
<1> QED
  BY <1>2, <1>3, <1>4

\* Beside the agent and the job pages the worker is the worker of module
\* MessagePoller: all that is proved of it there, how often it calls and when it
\* marks, holds in the pipeline (server.go:96-111, poller.go:65-121).
THEOREM WorkerTheorem == Spec => Worker!Spec
<1>1. Init => Worker!Init
  BY DEF Init
<1>2. IInv /\ [Next]_vars => [Worker!Next]_(Worker!vars)
  <2> SUFFICES ASSUME IInv, [Next]_vars PROVE Worker!Next \/ UNCHANGED Worker!vars
    OBVIOUS
  <2>1. CASE UNCHANGED vars
    BY <2>1 DEF vars, workerVars, Worker!vars, Worker!shared, Worker!process, Worker!pass,
                Worker!history
  <2>2. CASE AgentStep
    BY <2>2, AgentIsStore DEF Worker!Next, Worker!Environment
  <2>3. CASE WebStep
    BY <2>3 DEF WebStep, Worker!Next, Worker!Environment
  <2>4. CASE WorkerStep
    BY <2>4 DEF WorkerStep, Worker!Next
  <2> QED
    BY <2>1, <2>2, <2>3, <2>4 DEF Next
<1> QED
  BY <1>1, <1>2, Invariance, PTL DEF Spec, Worker!Spec

-----------------------------------------------------------------------------
(***************************************************************************)
(* How many rows a mail is stored as. Both the recipients a session has    *)
(* collected and the rows its transaction has stored are counted per       *)
(* address: a transaction stores no more rows for an address than the mail *)
(* mentions it times, and there is one transaction per try.                *)
(***************************************************************************)
Live(c) == phase[c] \in {"envelope", "store", "failed"}

\* How often a is among the first n recipients of s.
Count(s, n, a) == Cardinality({i \in 1 .. n : s[i] = a})

\* The rows try t has stored for address a.
Rows(t, a) == {k \in DOMAIN table : origin[k] = t /\ table[k].to = a}

CountOK(c, a) ==
    LET m == txn[c][1]
        to == session[c].to
    IN  /\ phase[c] = "envelope" =>
              Rows(txn[c], a) = {} /\ Count(to, Len(to), a) <= Count(Rcpts[m], sent[c], a)
        /\ phase[c] = "store" =>
              /\ next[c] <= Len(to) + 1
              /\ Cardinality(Rows(txn[c], a)) = Count(to, next[c] - 1, a)
              /\ Count(to, Len(to), a) <= Times(m, a)

TriesOK ==
    /\ \A c, d \in Conn : Live(c) /\ Live(d) /\ txn[c] = txn[d] => c = d
    /\ \A c \in Conn : Live(c) => txn[c][2] \in 1 .. tries[txn[c][1]]
    /\ \A k \in DOMAIN table : origin[k][2] \in 1 .. tries[origin[k][1]]

RowsCounted ==
    \A t \in Try, a \in Addr : IsFiniteSet(Rows(t, a)) /\ Cardinality(Rows(t, a)) <= Times(t[1], a)

CountsOK == TriesOK /\ RowsCounted /\ \A c \in Conn, a \in Addr : Live(c) => CountOK(c, a)

-----------------------------------------------------------------------------

LEMMA CountIsNat ==
    ASSUME NEW s, NEW n \in Nat, NEW a
    PROVE  IsFiniteSet({i \in 1 .. n : s[i] = a}) /\ Count(s, n, a) \in Nat
<1>1. {i \in 1 .. n : s[i] = a} \in SUBSET (1 .. n) /\ IsFiniteSet(1 .. n)
  BY FS_Interval
<1> QED
  BY <1>1, FS_Subset, FS_CardinalityType DEF Count

LEMMA CountNone == \A s, a : Count(s, 0, a) = 0
<1> TAKE s, a
<1>1. {i \in 1 .. 0 : s[i] = a} = {}
  OBVIOUS
<1> QED
  BY <1>1, FS_EmptySet DEF Count

LEMMA CountNext ==
    ASSUME NEW s, NEW n \in Nat, NEW a
    PROVE  Count(s, n + 1, a) = Count(s, n, a) + (IF s[n + 1] = a THEN 1 ELSE 0)
<1> DEFINE A == {i \in 1 .. n : s[i] = a}
           B == {i \in 1 .. n + 1 : s[i] = a}
<1>1. IsFiniteSet(A) /\ Cardinality(A) \in Nat /\ n + 1 \notin A
  <2>1. A \in SUBSET (1 .. n) /\ IsFiniteSet(1 .. n) /\ n + 1 \notin 1 .. n
    BY FS_Interval
  <2> QED
    BY <2>1, FS_Subset, FS_CardinalityType
<1>2. CASE s[n + 1] = a
  <2>1. B = A \union {n + 1}
    BY <1>2
  <2>2. Cardinality(A \union {n + 1}) = Cardinality(A) + 1
    BY <1>1, FS_AddElement
  <2> QED
    BY <1>2, <2>1, <2>2 DEF Count
<1>3. CASE s[n + 1] # a
  <2>1. B = A
    BY <1>3
  <2> QED
    BY <1>1, <1>3, <2>1 DEF Count
<1> QED
  BY <1>2, <1>3

LEMMA CountMore ==
    ASSUME NEW s, NEW n \in Nat, NEW l \in Nat, n <= l, NEW a PROVE Count(s, n, a) <= Count(s, l, a)
<1>1. {i \in 1 .. n : s[i] = a} \in SUBSET {i \in 1 .. l : s[i] = a}
  OBVIOUS
<1>2. IsFiniteSet({i \in 1 .. l : s[i] = a})
  <2>1. {i \in 1 .. l : s[i] = a} \in SUBSET (1 .. l) /\ IsFiniteSet(1 .. l)
    BY FS_Interval
  <2> QED
    BY <2>1, FS_Subset
<1> QED
  BY <1>1, <1>2, FS_Subset DEF Count

LEMMA CountAll ==
    ASSUME NEW m \in Mail, NEW a
    PROVE  /\ Len(Rcpts[m]) \in Nat /\ Count(Rcpts[m], Len(Rcpts[m]), a) = Times(m, a)
           /\ Times(m, a) \in Nat
<1>1. Rcpts[m] \in Seq(Addr \union Foreign)
  BY PipelineAssumption DEF Agent!SmtpAssumption
<1>2. DOMAIN Rcpts[m] = 1 .. Len(Rcpts[m]) /\ Len(Rcpts[m]) \in Nat
  BY <1>1
<1>3. Count(Rcpts[m], Len(Rcpts[m]), a) = Times(m, a)
  BY <1>2 DEF Count, Times
<1> QED
  BY <1>2, <1>3, CountIsNat

\* What is known of a transaction under way.
LEMMA LiveTypes ==
    ASSUME IInv, NEW c \in Conn, Live(c)
    PROVE  /\ txn[c] \in Try /\ txn[c][1] \in Mail /\ session[c].to \in Seq(Addr)
           /\ Len(session[c].to) \in Nat /\ next[c] \in Nat /\ next[c] > 0 /\ sent[c] \in Nat
<1>1. txn[c] \in Try /\ session[c] \in Session /\ next[c] \in Nat \ {0} /\ sent[c] \in Nat
  BY DEF IInv, SessionsOK, SessionOK, Live
<1> QED
  BY <1>1 DEF Session, Try

LEMMA InitCounts == Init => CountsOK
<1> SUFFICES ASSUME Init PROVE CountsOK
  OBVIOUS
<1>1. table = << >> /\ origin = << >> /\ phase = [c \in Conn |-> "closed"]
  BY DEF Init, Agent!Init
<1>2. TriesOK /\ \A c \in Conn : ~Live(c)
  BY <1>1 DEF TriesOK, Live
<1>3. \A t \in Try, a \in Addr : Rows(t, a) = {}
  BY <1>1 DEF Rows
<1>4. RowsCounted
  <2> SUFFICES ASSUME NEW t \in Try, NEW a \in Addr
               PROVE  IsFiniteSet(Rows(t, a)) /\ Cardinality(Rows(t, a)) <= Times(t[1], a)
    BY DEF RowsCounted
  <2>1. t[1] \in Mail
    BY DEF Try
  <2>2. IsFiniteSet(Rows(t, a)) /\ Cardinality(Rows(t, a)) = 0
    BY <1>3, FS_EmptySet
  <2> QED
    BY <2>1, <2>2, CountAll
<1> QED
  BY <1>2, <1>4 DEF CountsOK

-----------------------------------------------------------------------------

\* No row is stored.
NoNewRow == DOMAIN table' = DOMAIN table /\ origin' = origin /\ \A k \in DOMAIN table : table'[k].to = table[k].to

LEMMA RowsRest == ASSUME NoNewRow PROVE \A t, a : Rows(t, a)' = Rows(t, a)
BY DEF NoNewRow, Rows

\* Steps that store no row and leave each transaction alone or end it.
LEMMA QuietCounts ==
    ASSUME CountsOK, NoNewRow, UNCHANGED tries,
           \A c \in Conn : Live(c)' =>
              /\ phase'[c] = phase[c] /\ session'[c] = session[c] /\ txn'[c] = txn[c]
              /\ next'[c] = next[c] /\ sent'[c] = sent[c]
    PROVE  CountsOK'
<1>1. \A c \in Conn : Live(c)' => Live(c)
  BY DEF Live
<1>2. TriesOK'
  BY <1>1 DEF CountsOK, TriesOK, NoNewRow
<1>3. RowsCounted'
  BY RowsRest DEF CountsOK, RowsCounted
<1>4. ASSUME NEW c \in Conn, NEW a \in Addr, Live(c)' PROVE CountOK(c, a)'
  <2>1. CountOK(c, a)
    BY <1>1, <1>4 DEF CountsOK
  <2> QED
    BY <1>4, <2>1, RowsRest DEF CountOK
<1> QED
  BY <1>2, <1>3, <1>4 DEF CountsOK

\* A step of one transaction that stores no row.
LEMMA OneCount ==
    ASSUME CountsOK, NoNewRow, UNCHANGED tries, NEW c \in Conn, Live(c), UNCHANGED txn,
           \A d \in Conn \ {c} :
              phase'[d] = phase[d] /\ session'[d] = session[d] /\ next'[d] = next[d] /\ sent'[d] = sent[d],
           \A a \in Addr : CountOK(c, a)'
    PROVE  CountsOK'
<1>1. \A d \in Conn : Live(d)' => Live(d)
  BY DEF Live
<1>2. TriesOK'
  BY <1>1 DEF CountsOK, TriesOK, NoNewRow
<1>3. RowsCounted'
  BY RowsRest DEF CountsOK, RowsCounted
<1>4. ASSUME NEW d \in Conn, NEW a \in Addr, Live(d)' PROVE CountOK(d, a)'
  <2>1. CASE d = c
    BY <2>1
  <2>2. CASE d # c
    <3>1. CountOK(d, a)
      BY <1>1, <1>4 DEF CountsOK
    <3> QED
      BY <2>2, <3>1, RowsRest DEF CountOK
  <2> QED
    BY <2>1, <2>2
<1> QED
  BY <1>2, <1>3, <1>4 DEF CountsOK

LEMMA MailCounts ==
    ASSUME IInv, CountsOK, NEW c \in Conn, NEW m \in Mail, Agent!MailCommand(c, m) PROVE CountsOK'
<1> DEFINE u == <<m, tries[m] + 1>>
<1>1. /\ phase[c] = "ready" /\ phase' = [phase EXCEPT ![c] = "envelope"]
      /\ session' = [session EXCEPT ![c] = [session[c] EXCEPT !.from = From[m]]]
      /\ tries' = [tries EXCEPT ![m] = tries[m] + 1] /\ txn' = [txn EXCEPT ![c] = <<m, tries'[m]>>]
      /\ UNCHANGED <<table, next, sent, origin>>
  BY DEF Agent!MailCommand, Agent!Goto
<1>2. /\ phase \in [Conn -> {"closed", "ready", "envelope", "store", "failed"}]
      /\ session \in [Conn -> Session] /\ tries \in [Mail -> Nat] /\ sent[c] \in Nat
      /\ txn \in [Conn -> Try \union {Agent!NoTxn}] /\ session[c].to = << >>
  BY <1>1 DEF IInv, SessionsOK, SessionOK
<1>3. /\ tries'[m] = tries[m] + 1 /\ tries[m] \in Nat /\ txn'[c] = u /\ phase'[c] = "envelope"
      /\ \A d \in Conn \ {c} : phase'[d] = phase[d] /\ session'[d] = session[d] /\ txn'[d] = txn[d]
      /\ \A l \in Mail : tries'[l] \in Nat /\ tries[l] <= tries'[l] /\ tries[l] \in Nat
  BY <1>1, <1>2
<1>4. session'[c].to = << >>
  <2>1. session'[c] = [session[c] EXCEPT !.from = From[m]] /\ session[c] \in Session
    BY <1>1, <1>2
  <2> QED
    BY <1>2, <2>1 DEF Session
<1>5. u[1] = m /\ u[2] = tries[m] + 1
  OBVIOUS
<1> HIDE DEF u
<1>6. NoNewRow
  BY <1>1 DEF NoNewRow
<1>7. \A d \in Conn \ {c} : Live(d)' => Live(d) /\ txn[d] \in Try /\ txn[d] # u
  <2> SUFFICES ASSUME NEW d \in Conn \ {c}, Live(d)' PROVE Live(d) /\ txn[d] \in Try /\ txn[d] # u
    OBVIOUS
  <2>1. Live(d)
    BY <1>3 DEF Live
  <2>2. txn[d] \in Try
    BY <2>1, LiveTypes
  <2>3. txn[d][2] \in 1 .. tries[txn[d][1]]
    BY <2>1 DEF CountsOK, TriesOK
  <2> QED
    BY <1>3, <1>5, <2>1, <2>2, <2>3
<1>8. \A k \in DOMAIN table : origin[k] \in Try /\ origin[k] # u
  <2> SUFFICES ASSUME NEW k \in DOMAIN table PROVE origin[k] \in Try /\ origin[k] # u
    OBVIOUS
  <2>1. origin[k] \in Try
    BY DEF IInv, RowsOK
  <2>2. origin[k][2] \in 1 .. tries[origin[k][1]]
    BY DEF CountsOK, TriesOK
  <2> QED
    BY <1>3, <1>5, <2>1, <2>2
<1>9. TriesOK'
  <2>1. ASSUME NEW d \in Conn, NEW e \in Conn, Live(d)', Live(e)', txn'[d] = txn'[e] PROVE d = e
    BY <1>3, <1>7, <2>1 DEF CountsOK, TriesOK
  <2>2. ASSUME NEW d \in Conn, Live(d)' PROVE txn'[d][2] \in 1 .. tries'[txn'[d][1]]
    <3>1. CASE d = c
      BY <1>3, <1>5, <3>1
    <3>2. CASE d # c
      <4>1. Live(d) /\ txn'[d] = txn[d] /\ txn[d][1] \in Mail /\ txn[d][2] \in 1 .. tries[txn[d][1]]
        BY <1>3, <1>7, <2>2, <3>2, LiveTypes DEF CountsOK, TriesOK
      <4> QED
        BY <1>3, <4>1
    <3> QED
      BY <3>1, <3>2
  <2>3. ASSUME NEW k \in DOMAIN table PROVE origin[k][2] \in 1 .. tries'[origin[k][1]]
    <3>1. origin[k][1] \in Mail /\ origin[k][2] \in 1 .. tries[origin[k][1]]
      BY <1>8 DEF CountsOK, TriesOK, Try
    <3> QED
      BY <1>3, <3>1
  <2> QED
    BY <1>6, <2>1, <2>2, <2>3 DEF TriesOK, NoNewRow
<1>10. RowsCounted'
  BY <1>6, RowsRest DEF CountsOK, RowsCounted
<1>11. ASSUME NEW d \in Conn, NEW a \in Addr, Live(d)' PROVE CountOK(d, a)'
  <2>1. CASE d = c
    <3>1. Rows(txn[c], a)' = {}
      BY <1>1, <1>3, <1>8 DEF Rows
    <3>2. Count(session'[c].to, Len(session'[c].to), a) = 0
      BY <1>4, CountNone
    <3>3. Count(Rcpts[m], sent[c], a) \in Nat
      BY <1>2, CountIsNat
    <3>4. sent'[c] = sent[c]
      BY <1>1
    <3> QED
      BY <1>3, <1>5, <2>1, <3>1, <3>2, <3>3, <3>4 DEF CountOK
  <2>2. CASE d # c
    <3>1. CountOK(d, a)
      BY <1>7, <1>11, <2>2 DEF CountsOK
    <3> QED
      BY <1>1, <1>3, <1>6, <2>2, <3>1, RowsRest DEF CountOK
  <2> QED
    BY <2>1, <2>2
<1> QED
  BY <1>9, <1>10, <1>11 DEF CountsOK

LEMMA RcptCounts ==
    ASSUME IInv, CountsOK, NEW c \in Conn, Agent!Rcpt(c) PROVE CountsOK'
<1> DEFINE m == txn[c][1]
           s == session[c].to
           x == Rcpts[m][sent[c] + 1]
<1>1. /\ phase[c] = "envelope" /\ sent' = [sent EXCEPT ![c] = sent[c] + 1]
      /\ UNCHANGED <<table, phase, next, txn, tries, origin>>
      /\ \/ UNCHANGED session
         \/ session' = [session EXCEPT ![c] = [session[c] EXCEPT !.to = Append(session[c].to, x)]] /\ x \notin Foreign
      /\ sent[c] < Len(Rcpts[txn[c][1]])
  BY DEF Agent!Rcpt, Agent!mails, Agent!Allowed, Agent!NextRcpt
<1>2. Live(c) /\ m \in Mail /\ s \in Seq(Addr) /\ Len(s) \in Nat /\ sent[c] \in Nat
  BY <1>1, LiveTypes DEF Live
<1>3. /\ sent'[c] = sent[c] + 1 /\ \A d \in Conn \ {c} : sent'[d] = sent[d] /\ session'[d] = session[d]
      /\ session[c] \in Session
  <2>1. sent \in [Conn -> Nat] /\ session \in [Conn -> Session]
    BY DEF IInv, SessionsOK
  <2>2. sent'[c] = sent[c] + 1 /\ \A d \in Conn \ {c} : sent'[d] = sent[d]
    BY <1>1, <2>1
  <2>3. \A d \in Conn \ {c} : session'[d] = session[d]
    <3>1. CASE UNCHANGED session
      BY <3>1
    <3>2. CASE session' = [session EXCEPT ![c] = [session[c] EXCEPT !.to = Append(session[c].to, x)]]
      BY <2>1, <3>2
    <3> QED
      BY <1>1, <3>1, <3>2
  <2> QED
    BY <2>1, <2>2, <2>3
<1>4. \/ session'[c].to = s
      \/ session'[c].to = Append(s, x) /\ x \in Addr
  <2>1. CASE UNCHANGED session
    BY <2>1
  <2>2. CASE session' = [session EXCEPT ![c] = [session[c] EXCEPT !.to = Append(session[c].to, x)]] /\ x \notin Foreign
    <3>1. session'[c] = [session[c] EXCEPT !.to = Append(session[c].to, x)]
      <4>1. session \in [Conn -> Session]
        BY DEF IInv, SessionsOK
      <4> QED
        BY <2>2, <4>1
    <3>2. session'[c].to = Append(s, x)
      BY <1>3, <3>1 DEF Session
    <3>3. Rcpts[m] \in Seq(Addr \union Foreign)
      BY <1>2, PipelineAssumption DEF Agent!SmtpAssumption
    <3>4. sent[c] + 1 \in 1 .. Len(Rcpts[m]) /\ Len(Rcpts[m]) \in Nat
      BY <1>1, <1>2, <3>3
    <3>5. x \in Addr \union Foreign
      BY <3>3, <3>4
    <3> QED
      BY <2>2, <3>2, <3>5
  <2> QED
    BY <1>1, <2>1, <2>2
<1>5. ASSUME NEW a \in Addr PROVE CountOK(c, a)'
  <2>1. Rows(txn[c], a) = {} /\ Count(s, Len(s), a) <= Count(Rcpts[m], sent[c], a)
    BY <1>1, <1>2 DEF CountsOK, CountOK
  <2>2. /\ Count(Rcpts[m], sent[c] + 1, a) = Count(Rcpts[m], sent[c], a) + (IF x = a THEN 1 ELSE 0)
        /\ Count(Rcpts[m], sent[c], a) \in Nat /\ Count(s, Len(s), a) \in Nat
    BY <1>2, CountNext, CountIsNat
  <2>3. Count(session'[c].to, Len(session'[c].to), a) <= Count(Rcpts[m], sent[c] + 1, a)
    <3>1. CASE session'[c].to = s
      BY <2>1, <2>2, <3>1
    <3>2. CASE session'[c].to = Append(s, x) /\ x \in Addr
      <4> DEFINE u == Append(s, x)
      <4>1. Len(u) = Len(s) + 1 /\ u[Len(s) + 1] = x /\ \A i \in 1 .. Len(s) : s[i] = u[i]
        BY <1>2, <3>2
      <4> HIDE DEF u, s, x
      <4>2. Count(u, Len(s) + 1, a) = Count(u, Len(s), a) + (IF x = a THEN 1 ELSE 0)
        BY <1>2, <4>1, CountNext
      <4>3. Count(u, Len(s), a) = Count(s, Len(s), a)
        <5>1. {i \in 1 .. Len(s) : u[i] = a} = {i \in 1 .. Len(s) : s[i] = a}
          BY <4>1
        <5> QED
          BY <5>1 DEF Count
      <4>4. Count(u, Len(u), a) <= Count(Rcpts[m], sent[c] + 1, a)
        BY <2>1, <2>2, <4>1, <4>2, <4>3
      <4> QED
        BY <3>2, <4>4 DEF u
    <3> QED
      BY <1>4, <3>1, <3>2
  <2>4. Rows(txn[c], a)' = {}
    BY <1>1, <2>1 DEF Rows
  <2> QED
    BY <1>1, <1>3, <2>3, <2>4 DEF CountOK
<1>6. NoNewRow
  BY <1>1 DEF NoNewRow
<1> QED
  BY <1>1, <1>2, <1>3, <1>5, <1>6, OneCount

LEMMA DataCounts ==
    ASSUME IInv, CountsOK, NEW c \in Conn, Agent!Data(c) PROVE CountsOK'
<1>1. /\ phase[c] = "envelope" /\ sent[c] = Len(Rcpts[txn[c][1]])
      /\ phase' = [phase EXCEPT ![c] = "store"] /\ next' = [next EXCEPT ![c] = 1]
      /\ UNCHANGED <<table, session, txn, sent, tries, origin>>
  BY DEF Agent!Data, Agent!Offered, Agent!Goto, Agent!client, Agent!mails
<1>2. Live(c) /\ txn[c][1] \in Mail /\ Len(session[c].to) \in Nat
  BY <1>1, LiveTypes DEF Live
<1>3. /\ phase'[c] = "store" /\ next'[c] = 1
      /\ \A d \in Conn \ {c} : phase'[d] = phase[d] /\ next'[d] = next[d]
  BY <1>1 DEF IInv, SessionsOK
<1>4. NoNewRow
  BY <1>1 DEF NoNewRow
<1>5. ASSUME NEW a \in Addr PROVE CountOK(c, a)'
  <2>1. Rows(txn[c], a) = {} /\ Count(session[c].to, Len(session[c].to), a) <= Times(txn[c][1], a)
    BY <1>1, <1>2, CountAll DEF CountsOK, CountOK
  <2>2. Rows(txn[c], a)' = {}
    BY <1>1, <2>1 DEF Rows
  <2>3. Cardinality(Rows(txn[c], a)') = Count(session[c].to, 1 - 1, a)
    BY <2>2, FS_EmptySet, CountNone
  <2> QED
    BY <1>1, <1>2, <1>3, <2>1, <2>3 DEF CountOK
<1> QED
  BY <1>1, <1>2, <1>3, <1>4, <1>5, OneCount

-----------------------------------------------------------------------------

\* A row is stored for the next recipient, and whatever becomes of the session.
LEMMA CreateCounts ==
    ASSUME IInv, CountsOK, NEW c \in Conn, phase[c] = "store", next[c] <= Len(session[c].to), Agent!Create(c),
           UNCHANGED txn
    PROVE  /\ DOMAIN table \subseteq DOMAIN table'
           /\ \A k \in DOMAIN table' : origin'[k] = txn[c] \/ (k \in DOMAIN table /\ origin'[k] = origin[k])
           /\ \A t, a : t # txn[c] => Rows(t, a)' = Rows(t, a)
           /\ \A a \in Addr : /\ IsFiniteSet(Rows(txn[c], a)')
                              /\ Cardinality(Rows(txn[c], a)') = Count(session[c].to, next[c], a)
<1>1. PICK k \in Agent!FreeId :
        /\ table' = Insert(table, k, Agent!Row(c))
        /\ origin' = [l \in DOMAIN origin \union {k} |-> IF l = k THEN txn[c] ELSE origin[l]]
  BY DEF Agent!Create, Agent!Insert, Insert
<1>2. /\ k \notin DOMAIN table /\ DOMAIN origin = DOMAIN table
      /\ Agent!Row(c).to = session[c].to[next[c]]
  BY DEF Agent!FreeId, IInv, RowsOK, Agent!Row
<1>3. /\ DOMAIN table' = DOMAIN table \union {k} /\ table'[k].to = session[c].to[next[c]] /\ origin'[k] = txn[c]
      /\ \A l \in DOMAIN table : table'[l] = table[l] /\ origin'[l] = origin[l]
  BY <1>1, <1>2 DEF Insert
<1>4. Live(c) /\ next[c] \in Nat /\ next[c] > 0 /\ txn[c] \in Try
  BY LiveTypes DEF Live
<1>5. ASSUME NEW a \in Addr
      PROVE  /\ IsFiniteSet(Rows(txn[c], a)')
             /\ Cardinality(Rows(txn[c], a)') = Count(session[c].to, next[c], a)
  <2>1. /\ IsFiniteSet(Rows(txn[c], a)) /\ Cardinality(Rows(txn[c], a)) = Count(session[c].to, next[c] - 1, a)
        /\ k \notin Rows(txn[c], a)
    BY <1>2, <1>4 DEF CountsOK, RowsCounted, CountOK, Rows
  <2>2. Count(session[c].to, (next[c] - 1) + 1, a)
          = Count(session[c].to, next[c] - 1, a) + (IF session[c].to[(next[c] - 1) + 1] = a THEN 1 ELSE 0)
    BY <1>4, CountNext
  <2>3. (next[c] - 1) + 1 = next[c] /\ Count(session[c].to, next[c] - 1, a) \in Nat
    <3>1. (next[c] - 1) + 1 = next[c] /\ next[c] - 1 \in Nat
      BY <1>4
    <3> QED
      BY <3>1, CountIsNat
  <2>4. CASE session[c].to[next[c]] = a
    <3>1. Rows(txn[c], a)' = Rows(txn[c], a) \union {k}
      BY <1>2, <1>3, <2>4 DEF Rows
    <3>2. /\ IsFiniteSet(Rows(txn[c], a) \union {k})
          /\ Cardinality(Rows(txn[c], a) \union {k}) = Cardinality(Rows(txn[c], a)) + 1
      BY <2>1, FS_AddElement
    <3> QED
      BY <2>1, <2>2, <2>3, <2>4, <3>1, <3>2
  <2>5. CASE session[c].to[next[c]] # a
    <3>1. Rows(txn[c], a)' = Rows(txn[c], a)
      BY <1>2, <1>3, <2>5 DEF Rows
    <3> QED
      BY <2>1, <2>2, <2>3, <2>5, <3>1
  <2> QED
    BY <2>4, <2>5
<1>6. \A t, a : t # txn[c] => Rows(t, a)' = Rows(t, a)
  BY <1>2, <1>3 DEF Rows
<1> QED
  BY <1>3, <1>5, <1>6

LEMMA StoreCounts ==
    ASSUME IInv, CountsOK, NEW c \in Conn, Agent!Store(c) \/ Agent!StoreFails(c) PROVE CountsOK'
<1> DEFINE s == session[c].to
           u == txn[c]
<1>1. /\ phase[c] = "store" /\ next[c] <= Len(s)
      /\ \/ Agent!Create(c) /\ UNCHANGED phase /\ next' = [next EXCEPT ![c] = next[c] + 1]
         \/ /\ Agent!Create(c) \/ UNCHANGED <<table, origin>>
            /\ phase' = [phase EXCEPT ![c] = "failed"] /\ UNCHANGED next
      /\ UNCHANGED <<session, txn, sent, tries>>
  BY DEF Agent!Store, Agent!StoreFails, Agent!Goto, Agent!client, Agent!mails
<1>2. /\ Live(c) /\ u \in Try /\ u[1] \in Mail /\ Len(s) \in Nat /\ next[c] \in Nat /\ next[c] > 0
      /\ \A a \in Addr : Count(s, Len(s), a) <= Times(u[1], a)
  BY <1>1, LiveTypes DEF Live, CountsOK, CountOK
<1>3. /\ phase'[c] \in {"store", "failed"}
      /\ \A d \in Conn \ {c} : phase'[d] = phase[d] /\ next'[d] = next[d]
  BY <1>1 DEF IInv, SessionsOK
<1>4. CASE UNCHANGED <<table, origin>> /\ phase' = [phase EXCEPT ![c] = "failed"] /\ UNCHANGED next
  <2>1. NoNewRow /\ phase'[c] = "failed"
    BY <1>4 DEF NoNewRow, IInv, SessionsOK
  <2>2. \A a \in Addr : CountOK(c, a)'
    BY <2>1 DEF CountOK
  <2> QED
    BY <1>1, <1>2, <1>3, <1>4, <2>1, <2>2, OneCount
<1>5. CASE Agent!Create(c)
  <2>1. /\ DOMAIN table \subseteq DOMAIN table'
        /\ \A k \in DOMAIN table' : origin'[k] = u \/ (k \in DOMAIN table /\ origin'[k] = origin[k])
        /\ \A t, a : t # u => Rows(t, a)' = Rows(t, a)
        /\ \A a \in Addr : /\ IsFiniteSet(Rows(u, a)')
                           /\ Cardinality(Rows(u, a)') = Count(s, next[c], a)
    BY <1>1, <1>5, CreateCounts
  <2>2. \A d \in Conn : Live(d)' => Live(d)
    BY <1>2, <1>3 DEF Live
  <2>3. TriesOK'
    <3>1. \A d, e \in Conn : Live(d)' /\ Live(e)' /\ txn'[d] = txn'[e] => d = e
      BY <1>1, <2>2 DEF CountsOK, TriesOK
    <3>2. \A d \in Conn : Live(d)' => txn'[d][2] \in 1 .. tries'[txn'[d][1]]
      BY <1>1, <2>2 DEF CountsOK, TriesOK
    <3>3. \A k \in DOMAIN table' : origin'[k][2] \in 1 .. tries'[origin'[k][1]]
      BY <1>1, <1>2, <2>1 DEF CountsOK, TriesOK
    <3> QED
      BY <3>1, <3>2, <3>3 DEF TriesOK
  <2>4. RowsCounted'
    <3> SUFFICES ASSUME NEW t \in Try, NEW a \in Addr
                 PROVE  IsFiniteSet(Rows(t, a)') /\ Cardinality(Rows(t, a)') <= Times(t[1], a)
      BY DEF RowsCounted
    <3>1. CASE t = u
      <4>1. Count(s, next[c], a) <= Count(s, Len(s), a)
        BY <1>1, <1>2, CountMore
      <4>2. Count(s, next[c], a) \in Nat /\ Count(s, Len(s), a) \in Nat /\ Times(u[1], a) \in Nat
        BY <1>2, CountIsNat, CountAll
      <4>3. /\ Cardinality(Rows(t, a)') = Count(s, next[c], a) /\ IsFiniteSet(Rows(t, a)')
            /\ Count(s, Len(s), a) <= Times(t[1], a)
        BY <1>1, <1>2, <2>1, <3>1
      <4> QED
        BY <1>2, <3>1, <4>1, <4>2, <4>3
    <3>2. CASE t # u
      BY <2>1, <3>2 DEF CountsOK, RowsCounted
    <3> QED
      BY <3>1, <3>2
  <2>5. ASSUME NEW d \in Conn, NEW a \in Addr, Live(d)' PROVE CountOK(d, a)'
    <3>1. CASE d # c
      <4>1. CountOK(d, a) /\ txn[d] # u
        BY <1>2, <2>2, <2>5, <3>1 DEF CountsOK, TriesOK
      <4> QED
        BY <1>1, <1>3, <2>1, <3>1, <4>1 DEF CountOK
    <3>2. CASE d = c /\ phase'[c] = "failed"
      BY <3>2 DEF CountOK
    <3>3. CASE d = c /\ phase'[c] = "store"
      <4>1. next' = [next EXCEPT ![c] = next[c] + 1]
        BY <1>1, <3>3 DEF IInv, SessionsOK
      <4>2. next'[c] = next[c] + 1 /\ next'[c] - 1 = next[c] /\ next'[c] <= Len(s) + 1
        BY <1>1, <1>2, <4>1 DEF IInv, SessionsOK
      <4> QED
        BY <1>1, <1>2, <2>1, <3>3, <4>2 DEF CountOK
    <3> QED
      BY <1>3, <3>1, <3>2, <3>3
  <2> QED
    BY <2>3, <2>4, <2>5 DEF CountsOK
<1> QED
  BY <1>1, <1>4, <1>5

-----------------------------------------------------------------------------

LEMMA AgentCounts == ASSUME IInv, CountsOK, AgentStep PROVE CountsOK'
<1>1. ASSUME NEW c \in Conn,
             \/ Agent!Connect(c) \/ Agent!Quit(c) \/ Agent!NotAccepted(c)
             \/ Agent!Acknowledge(c) \/ Agent!Refuse(c) \/ Agent!HangUp(c)
      PROVE  CountsOK'
  <2>1. /\ UNCHANGED <<table, origin, next, tries>>
        /\ phase' = [phase EXCEPT ![c] = "ready"] \/ phase' = [phase EXCEPT ![c] = "closed"]
        /\ \/ session' = [session EXCEPT ![c] = [from |-> NullSender, to |-> << >>]]
           \/ session' = session
        /\ txn' = [txn EXCEPT ![c] = Agent!NoTxn] \/ txn' = txn
        /\ sent' = [sent EXCEPT ![c] = 0] \/ sent' = sent
    BY <1>1 DEF Agent!Connect, Agent!Quit, Agent!NotAccepted, Agent!Acknowledge, Agent!Refuse, Agent!HangUp,
         Agent!Goto, Agent!Reset, Agent!EndTxn, Agent!NewSession, Agent!mails
  <2>2. ~Live(c)' /\ \A d \in Conn \ {c} :
            phase'[d] = phase[d] /\ session'[d] = session[d] /\ txn'[d] = txn[d] /\ sent'[d] = sent[d]
    <3>1. /\ phase \in [Conn -> {"closed", "ready", "envelope", "store", "failed"}]
          /\ session \in [Conn -> Session] /\ txn \in [Conn -> Try \union {Agent!NoTxn}] /\ sent \in [Conn -> Nat]
      BY DEF IInv, SessionsOK
    <3>2. phase'[c] \in {"ready", "closed"} /\ \A d \in Conn \ {c} : phase'[d] = phase[d]
      BY <2>1, <3>1
    <3>3. \A d \in Conn \ {c} : session'[d] = session[d]
      BY <2>1, <3>1
    <3>4. \A d \in Conn \ {c} : txn'[d] = txn[d] /\ sent'[d] = sent[d]
      BY <2>1, <3>1
    <3> QED
      BY <3>2, <3>3, <3>4 DEF Live
  <2>3. NoNewRow
    BY <2>1 DEF NoNewRow
  <2> QED
    BY <2>1, <2>2, <2>3, QuietCounts
<1>2. CASE Agent!Crash
  <2>1. phase' = [c \in Conn |-> "closed"] /\ UNCHANGED <<table, tries, origin>>
    BY <1>2 DEF Agent!Crash
  <2>2. NoNewRow /\ \A c \in Conn : ~Live(c)'
    BY <2>1 DEF NoNewRow, Live
  <2> QED
    BY <2>1, <2>2, QuietCounts
<1>3. ASSUME NEW c \in Conn, Agent!Lost(c) PROVE CountsOK'
  <2>1. UNCHANGED <<table, session, next, tries, origin>> /\ NoNewRow
    BY <1>3 DEF Agent!Lost, NoNewRow
  <2>2. CASE phase[c] = "envelope"
    <3>1. /\ phase' = [phase EXCEPT ![c] = "closed"] /\ txn' = [txn EXCEPT ![c] = Agent!NoTxn]
          /\ sent' = [sent EXCEPT ![c] = 0]
      BY <1>3, <2>2 DEF Agent!Lost, Agent!Goto, Agent!EndTxn
    <3>2. ~Live(c)' /\ \A d \in Conn \ {c} : phase'[d] = phase[d] /\ txn'[d] = txn[d] /\ sent'[d] = sent[d]
      BY <3>1 DEF Live, IInv, SessionsOK
    <3> QED
      BY <2>1, <3>2, QuietCounts
  <2>3. CASE phase[c] # "envelope"
    <3>1. UNCHANGED <<phase, txn, sent>>
      BY <1>3, <2>3 DEF Agent!Lost
    <3> QED
      BY <2>1, <3>1, QuietCounts
  <2> QED
    BY <2>2, <2>3
<1>4. ASSUME NEW c \in Conn, NEW m \in Mail, Agent!MailCommand(c, m) PROVE CountsOK'
  BY <1>4, MailCounts
<1>5. ASSUME NEW c \in Conn, Agent!Rcpt(c) \/ Agent!Data(c) \/ Agent!Store(c) \/ Agent!StoreFails(c)
      PROVE  CountsOK'
  BY <1>5, RcptCounts, DataCounts, StoreCounts
<1> QED
  BY <1>1, <1>2, <1>3, <1>4, <1>5 DEF AgentStep, Agent!Next

LEMMA WorkerCounts ==
    ASSUME IInv, CountsOK, UNCHANGED agentVars, UNCHANGED table \/ (pc = "save" /\ Worker!Mark(cur))
    PROVE  CountsOK'
<1>1. UNCHANGED <<phase, session, next, txn, sent, tries, origin>>
  BY DEF agentVars
<1>2. NoNewRow
  <2>1. CASE UNCHANGED table
    BY <1>1, <2>1 DEF NoNewRow
  <2>2. CASE pc = "save" /\ Worker!Mark(cur)
    <3>1. RowsOK' /\ Kept
      BY <1>1, <2>2, MarkRows
    <3>2. table' = [table EXCEPT ![cur] = [table[cur] EXCEPT !.processed = TRUE]]
      BY <2>2 DEF Worker!Mark
    <3>3. DOMAIN table' = DOMAIN table
      BY <3>2 DEF IInv, RowsOK
    <3> QED
      BY <1>1, <3>1, <3>3 DEF NoNewRow, Kept
  <2> QED
    BY <2>1, <2>2
<1> QED
  BY <1>1, <1>2, QuietCounts

\* The worker marks the row in hand, or leaves the table alone.
LEMMA WorkerMarks ==
    ASSUME WorkerStep PROVE UNCHANGED table \/ (pc = "save" /\ Worker!Mark(cur))
BY DEF WorkerStep, Worker!Worker, Worker!Step, Worker!Signal, Worker!Crash, Worker!Restart, Worker!Poll,
   Worker!Cancel, Worker!Stop, Worker!EndPass, Worker!Lookup, Worker!LookupFails, Worker!EndBatch,
   Worker!SkipWebhook, Worker!CallWebhook, Worker!WebhookReturns, Worker!StartReplies,
   Worker!SendReply, Worker!EndReplies, Worker!Save, Worker!SaveFails, Worker!shared

LEMMA NextCounts == IInv /\ CountsOK /\ [Next]_vars => CountsOK'
<1> SUFFICES ASSUME IInv, CountsOK, [Next]_vars PROVE CountsOK'
  OBVIOUS
<1>1. CASE UNCHANGED vars
  BY <1>1, WorkerCounts DEF vars
<1>2. CASE AgentStep
  BY <1>2, AgentCounts
<1>3. CASE WebStep
  <2>1. UNCHANGED agentVars /\ UNCHANGED table
    BY <1>3 DEF WebStep, Worker!JobAdd, Worker!JobDelete
  <2> QED
    BY <2>1, WorkerCounts
<1>4. CASE WorkerStep
  <2>1. UNCHANGED agentVars
    BY <1>4 DEF WorkerStep
  <2>2. UNCHANGED table \/ (pc = "save" /\ Worker!Mark(cur))
    BY <1>4, WorkerMarks
  <2> QED
    BY <2>1, <2>2, WorkerCounts
<1> QED
  BY <1>1, <1>2, <1>3, <1>4 DEF Next

LEMMA CountsInvariance == Spec => [](IInv /\ CountsOK)
<1>1. Init => CountsOK
  BY InitCounts
<1>2. IInv /\ CountsOK /\ [Next]_vars => CountsOK'
  BY NextCounts
<1> QED
  BY <1>1, <1>2, Invariance, PTL DEF Spec

-----------------------------------------------------------------------------

\* A row is told from the others of its mail and address by its try and its
\* rank among those of the same try.
Rank(k, a) == Cardinality({l \in Rows(origin[k], a) : l <= k})

LEMMA RankFits ==
    ASSUME IInv, CountsOK, NEW k \in DOMAIN table, NEW a \in Addr, table[k].to = a
    PROVE  /\ Rank(k, a) \in 1 .. Times(origin[k][1], a)
           /\ origin[k][2] \in 1 .. tries[origin[k][1]] /\ origin[k][1] \in Mail
           /\ IsFiniteSet(Rows(origin[k], a))
<1> DEFINE S == Rows(origin[k], a)
           R == {l \in S : l <= k}
<1>1. origin[k] \in Try /\ k \in Nat
  BY PipelineAssumption DEF IInv, RowsOK, Agent!SmtpAssumption
<1>2. origin[k][1] \in Mail /\ origin[k][2] \in 1 .. tries[origin[k][1]]
  BY <1>1 DEF Try, CountsOK, TriesOK
<1>3. IsFiniteSet(S) /\ Cardinality(S) <= Times(origin[k][1], a)
  BY <1>1 DEF CountsOK, RowsCounted
<1>4. R \in SUBSET S /\ k \in R
  BY <1>1 DEF Rows
<1> HIDE DEF S, R
<1>5. IsFiniteSet(R) /\ Cardinality(R) <= Cardinality(S) /\ Cardinality(S) \in Nat /\ Cardinality(R) \in Nat
  BY <1>3, <1>4, FS_Subset, FS_CardinalityType
<1>6. Cardinality(R) # 0
  BY <1>4, <1>5, FS_EmptySet
<1>7. Times(origin[k][1], a) \in Nat
  BY <1>2, CountAll
<1>8. Rank(k, a) = Cardinality(R)
  BY DEF Rank, R, S
<1> QED
  BY <1>2, <1>3, <1>5, <1>6, <1>7, <1>8 DEF S

LEMMA RankDiffers ==
    ASSUME IInv, CountsOK, NEW k \in DOMAIN table, NEW l \in DOMAIN table, NEW a \in Addr,
           table[k].to = a, table[l].to = a, origin[k] = origin[l], k < l
    PROVE  Rank(k, a) < Rank(l, a)
<1> DEFINE S == Rows(origin[k], a)
           A == {i \in S : i <= k}
           B == {i \in S : i <= l}
<1>1. k \in Nat /\ l \in Nat /\ IsFiniteSet(S) /\ \A i \in S : i \in Nat
  BY PipelineAssumption, RankFits DEF IInv, RowsOK, Agent!SmtpAssumption, Rows
<1>2. A \in SUBSET S /\ B \in SUBSET S /\ l \notin A /\ A \union {l} \in SUBSET B
  <2>1. l \in S
    BY DEF Rows
  <2> HIDE DEF S
  <2> QED
    BY <1>1, <2>1
<1> HIDE DEF S, A, B
<1>3. IsFiniteSet(A) /\ IsFiniteSet(B) /\ Cardinality(A) \in Nat /\ Cardinality(B) \in Nat
  BY <1>1, <1>2, FS_Subset, FS_CardinalityType
<1>4. Cardinality(A \union {l}) = Cardinality(A) + 1 /\ Cardinality(A \union {l}) <= Cardinality(B)
  BY <1>2, <1>3, FS_AddElement, FS_Subset
<1>5. Rank(k, a) = Cardinality(A) /\ Rank(l, a) = Cardinality(B)
  BY DEF Rank, A, B, S
<1> QED
  BY <1>3, <1>4, <1>5

LEMMA RowsBounded ==
    ASSUME IInv, CountsOK, NEW m \in Mail, NEW a \in Addr, NEW T \in SUBSET RowsOf(m),
           \A k \in T : table[k].to = a
    PROVE  Cardinality(T) <= tries[m] * Times(m, a)
<1> DEFINE U == 1 .. tries[m]
           V == 1 .. Times(m, a)
           f == [k \in T |-> <<origin[k][2], Rank(k, a)>>]
<1>1. tries[m] \in Nat /\ Times(m, a) \in Nat
  BY CountAll DEF IInv, SessionsOK
<1>2. \A k \in T : k \in DOMAIN table /\ origin[k][1] = m /\ table[k].to = a /\ k \in Nat
  BY PipelineAssumption DEF RowsOf, IInv, RowsOK, Agent!SmtpAssumption
<1>3. \A k \in T : origin[k][2] \in U /\ Rank(k, a) \in V
  BY <1>2, RankFits
<1>4. /\ IsFiniteSet(U) /\ Cardinality(U) = tries[m] /\ IsFiniteSet(V) /\ Cardinality(V) = Times(m, a)
  <2>1. \A n \in Nat : IsFiniteSet(1 .. n) /\ Cardinality(1 .. n) = n
    BY FS_Interval
  <2> QED
    BY <1>1, <2>1
<1>5. ASSUME NEW k \in T, NEW l \in T, f[k] = f[l] PROVE k = l
  <2>1. origin[k][2] = origin[l][2] /\ Rank(k, a) = Rank(l, a)
    BY <1>5
  <2>2. origin[k] \in Try /\ origin[l] \in Try
    BY <1>2 DEF IInv, RowsOK
  <2>3. origin[k] = origin[l]
    BY <1>2, <2>1, <2>2 DEF Try
  <2>4. Rank(k, a) \in Nat /\ Rank(l, a) \in Nat
    BY <1>1, <1>3
  <2>5. CASE k < l
    BY <1>2, <2>1, <2>3, <2>4, <2>5, RankDiffers
  <2>6. CASE l < k
    BY <1>2, <2>1, <2>3, <2>4, <2>6, RankDiffers
  <2> QED
    BY <1>2, <2>5, <2>6
<1> HIDE DEF U, V
<1>6. f \in [T -> U \X V]
  BY <1>3
<1> HIDE DEF f
<1>7. f \in Injection(T, U \X V)
  BY <1>5, <1>6 DEF Injection, IsInjective
<1>8. IsFiniteSet(U \X V) /\ Cardinality(U \X V) = Cardinality(U) * Cardinality(V)
  BY <1>4, FS_Product
<1>9. Cardinality(T) <= Cardinality(U \X V)
  BY <1>7, <1>8, FS_Injection
<1> QED
  BY <1>4, <1>8, <1>9

-----------------------------------------------------------------------------
(***************************************************************************)
(* What MessagePollerProofs proves of the worker, carried over.            *)
(***************************************************************************)
WorkerProofs == INSTANCE MessagePollerProofs

LEMMA SameOldest == \A n, S : Worker!Oldest(n, S) = WorkerProofs!Oldest(n, S)
<1>1. \A S : Worker!Cardinality(S) = WorkerProofs!Cardinality(S)
  BY DEF Worker!Cardinality, WorkerProofs!Cardinality
<1> QED
  BY <1>1 DEF Worker!Oldest, WorkerProofs!Oldest

\* Both instances of MessagePoller, and of its theorems, are the same worker.
LEMMA SameWorker == Worker!Spec => WorkerProofs!Spec
<1>1. Worker!Init => WorkerProofs!Init
  BY DEF Worker!Init, WorkerProofs!Init, Worker!UniqueEmails, WorkerProofs!UniqueEmails,
         Worker!NoResult, WorkerProofs!NoResult
<1>2. UNCHANGED Worker!vars => UNCHANGED WorkerProofs!vars
  BY DEF Worker!shared, WorkerProofs!shared, Worker!process, WorkerProofs!process, Worker!pass,
           WorkerProofs!pass, Worker!history, WorkerProofs!history, Worker!vars, WorkerProofs!vars
<1>3. Worker!Next => WorkerProofs!Next
  BY SameOldest DEF Worker!Message, WorkerProofs!Message, Worker!Insert, WorkerProofs!Insert, Worker!Unprocessed,
         WorkerProofs!Unprocessed, Worker!GetActiveJobs, WorkerProofs!GetActiveJobs,
         Worker!ProcessMessage, WorkerProofs!ProcessMessage, Worker!UniqueEmails,
         WorkerProofs!UniqueEmails, Worker!NoResult, WorkerProofs!NoResult, Worker!Store,
         WorkerProofs!Store, Worker!JobAdd, WorkerProofs!JobAdd, Worker!JobDelete,
         WorkerProofs!JobDelete, Worker!Restart, WorkerProofs!Restart, Worker!Poll,
         WorkerProofs!Poll, Worker!Signal, WorkerProofs!Signal, Worker!Cancel,
         WorkerProofs!Cancel, Worker!Stop, WorkerProofs!Stop, Worker!EndPass,
         WorkerProofs!EndPass, Worker!Crash, WorkerProofs!Crash, Worker!First, WorkerProofs!First,
         Worker!Lookup, WorkerProofs!Lookup, Worker!LookupFails, WorkerProofs!LookupFails,
         Worker!EndBatch, WorkerProofs!EndBatch, Worker!SkipWebhook, WorkerProofs!SkipWebhook,
         Worker!CallWebhook, WorkerProofs!CallWebhook, Worker!WebhookReturns,
         WorkerProofs!WebhookReturns, Worker!WantsReply, WorkerProofs!WantsReply,
         Worker!StartReplies, WorkerProofs!StartReplies, Worker!SendReply, WorkerProofs!SendReply,
         Worker!EndReplies, WorkerProofs!EndReplies, Worker!Mark, WorkerProofs!Mark, Worker!Save,
         WorkerProofs!Save, Worker!SaveFails, WorkerProofs!SaveFails, Worker!Environment,
         WorkerProofs!Environment, Worker!Worker, WorkerProofs!Worker, Worker!Next,
         WorkerProofs!Next, Worker!shared, WorkerProofs!shared, Worker!process,
         WorkerProofs!process, Worker!pass, WorkerProofs!pass, Worker!history,
         WorkerProofs!history
<1>4. [Worker!Next]_(Worker!vars) => [WorkerProofs!Next]_(WorkerProofs!vars)
  BY <1>2, <1>3
<1> QED
  BY <1>1, <1>4, PTL DEF Worker!Spec, WorkerProofs!Spec

LEMMA WorkerAssumed ==
    /\ Msg \subseteq Nat \ {0} /\ BatchSize \in Nat \ {0} /\ MaxFaults \in Nat
    /\ Email \in [Job -> Addr] /\ Accepts \in [Job -> SUBSET Sender]
    /\ Broken \subseteq Job /\ AutoReply \subseteq Job
BY PipelineAssumption, JobsAssumption DEF Worker!PollerAssumption

LEMMA RepeatsHere == Spec => []WorkerProofs!RepeatsNeedAFault
BY WorkerAssumed, WorkerTheorem, SameWorker, WorkerProofs!RepeatsTheorem, PTL

(***************************************************************************)
(* End to end, a mail triggers a job through no more rows than its sender  *)
(* sent it times it mentions the job's address, and through each of them   *)
(* once, and once more per fault of the worker, with any number of         *)
(* sessions and of failures (server.go:96-111, poller.go:65-121).          *)
(***************************************************************************)
THEOREM BoundTheorem == Spec => []CallsAreBounded
<1>1. IInv /\ CountsOK /\ WorkerProofs!RepeatsNeedAFault => CallsAreBounded
  <2> SUFFICES ASSUME IInv, CountsOK, WorkerProofs!RepeatsNeedAFault, NEW m \in Mail, NEW j \in Job
               PROVE  /\ Cardinality(Triggering(m, j)) <= tries[m] * Times(m, Email[j])
                      /\ \A k \in Triggering(m, j) : calls[<<k, j>>] <= 1 + faults
    BY DEF CallsAreBounded
  <2>1. \A k \in Triggering(m, j) : k \in Msg /\ k \in DOMAIN table /\ calls[<<k, j>>] > 0
    BY DEF Triggering, RowsOf, IInv, RowsOK
  <2>2. \A k \in Triggering(m, j) : table[k].to = Email[j]
    BY <2>1 DEF IInv, CallsOK, Selected
  <2>3. Triggering(m, j) \in SUBSET RowsOf(m) /\ Email[j] \in Addr
    BY JobsAssumption DEF Triggering
  <2>4. Cardinality(Triggering(m, j)) <= tries[m] * Times(m, Email[j])
    BY <2>2, <2>3, RowsBounded
  <2>5. \A k \in Triggering(m, j) : calls[<<k, j>>] <= 1 + faults
    BY <2>1 DEF WorkerProofs!RepeatsNeedAFault
  <2> QED
    BY <2>4, <2>5
<1> QED
  BY <1>1, CountsInvariance, RepeatsHere, PTL

-----------------------------------------------------------------------------
(***************************************************************************)
(* The agent within the pipeline. It never reads whether a row has been    *)
(* processed: with the worker's marks hidden it behaves as SmtpServer says.*)
(***************************************************************************)
Unmarked == [k \in DOMAIN table |-> [to |-> table[k].to, from |-> table[k].from, processed |-> FALSE]]

AgentHere == INSTANCE SmtpServerProofs

AgentView == INSTANCE SmtpServerProofs WITH table <- Unmarked

LEMMA UnmarkedSame == ASSUME UNCHANGED table PROVE UNCHANGED Unmarked
BY DEF Unmarked

LEMMA UnmarkedCreate == ASSUME NEW c \in Conn, Agent!Create(c) PROVE AgentView!Create(c)
<1>1. DOMAIN Unmarked = DOMAIN table
  BY DEF Unmarked
<1>2. Agent!FreeId = AgentView!FreeId
  BY <1>1 DEF Agent!FreeId, AgentView!FreeId
<1>3. PICK m \in Agent!FreeId :
         /\ table' = Agent!Insert(table, m, Agent!Row(c))
         /\ origin' = [k \in DOMAIN origin \union {m} |-> IF k = m THEN txn[c] ELSE origin[k]]
  BY DEF Agent!Create
<1>4. DOMAIN table' = DOMAIN table \union {m}
  BY <1>3 DEF Agent!Insert
<1>5. Unmarked' = AgentView!Insert(Unmarked, m, AgentView!Row(c))
  BY <1>1, <1>3, <1>4 DEF Agent!Insert, AgentView!Insert, Unmarked, Agent!Row, AgentView!Row
<1> QED
  BY <1>2, <1>3, <1>5 DEF AgentView!Create

LEMMA UnmarkedStep == ASSUME Agent!Next PROVE AgentView!Next
<1>1. ASSUME NEW c \in Conn, Agent!Store(c) PROVE AgentView!Store(c)
  BY <1>1, UnmarkedCreate DEF Agent!Store, AgentView!Store, Agent!client, AgentView!client,
     Agent!mails, AgentView!mails
<1>2. ASSUME NEW c \in Conn, Agent!StoreFails(c) PROVE AgentView!StoreFails(c)
  BY <1>2, UnmarkedCreate, UnmarkedSame DEF Agent!StoreFails, AgentView!StoreFails, Agent!Fault,
     AgentView!Fault, Agent!Goto, AgentView!Goto, Agent!client, AgentView!client,
     Agent!mails, AgentView!mails
<1>3. ASSUME NEW c \in Conn,
             \/ Agent!Connect(c) \/ Agent!Rcpt(c) \/ Agent!NotAccepted(c) \/ Agent!Data(c)
             \/ Agent!Quit(c) \/ \E m \in Mail : Agent!MailCommand(c, m)
      PROVE  \/ AgentView!Connect(c) \/ AgentView!Rcpt(c) \/ AgentView!NotAccepted(c)
             \/ AgentView!Data(c) \/ AgentView!Quit(c)
             \/ \E m \in Mail : AgentView!MailCommand(c, m)
  <2>1. UNCHANGED Unmarked
    BY <1>3, UnmarkedSame DEF Agent!Connect, Agent!Rcpt, Agent!NotAccepted, Agent!Data, Agent!Quit,
       Agent!MailCommand
  <2> QED
    BY <1>3, <2>1 DEF Agent!Connect, Agent!Rcpt, Agent!NotAccepted, Agent!Data, Agent!Quit,
       Agent!MailCommand, Agent!NewSession, Agent!NextRcpt, Agent!Allowed, Agent!Offered,
       Agent!Reset, Agent!Goto, Agent!EndTxn, Agent!NoTxn, Agent!client, Agent!mails,
       AgentView!Connect, AgentView!Rcpt, AgentView!NotAccepted, AgentView!Data,
       AgentView!Quit, AgentView!MailCommand, AgentView!NewSession, AgentView!NextRcpt,
       AgentView!Allowed, AgentView!Offered, AgentView!Reset, AgentView!Goto,
       AgentView!EndTxn, AgentView!NoTxn, AgentView!client, AgentView!mails
<1>4. ASSUME NEW c \in Conn,
             Agent!Acknowledge(c) \/ Agent!Refuse(c) \/ Agent!HangUp(c) \/ Agent!Lost(c)
      PROVE  \/ AgentView!Acknowledge(c) \/ AgentView!Refuse(c) \/ AgentView!HangUp(c)
             \/ AgentView!Lost(c)
  <2>1. UNCHANGED Unmarked
    BY <1>4, UnmarkedSame DEF Agent!Acknowledge, Agent!Refuse, Agent!HangUp, Agent!Lost
  <2> QED
    BY <1>4, <2>1 DEF Agent!Acknowledge, Agent!Refuse, Agent!HangUp, Agent!Lost, Agent!Done,
       Agent!Reset, Agent!Goto, Agent!EndTxn, Agent!NoTxn, Agent!Retry, Agent!Fault, Agent!mails,
       AgentView!Acknowledge, AgentView!Refuse, AgentView!HangUp, AgentView!Lost,
       AgentView!Done, AgentView!Reset, AgentView!Goto, AgentView!EndTxn,
       AgentView!NoTxn, AgentView!Retry, AgentView!Fault, AgentView!mails
<1>5. ASSUME Agent!Crash PROVE AgentView!Crash
  BY <1>5, UnmarkedSame DEF Agent!Crash, AgentView!Crash, Agent!Fault, AgentView!Fault,
     Agent!NoTxn, AgentView!NoTxn
<1> QED
  BY <1>1, <1>2, <1>3, <1>4, <1>5 DEF Agent!Next, AgentView!Next

\* No step of the others shows once the marks are hidden.
LEMMA UnmarkedRests == ASSUME IInv, WebStep \/ WorkerStep PROVE UNCHANGED Unmarked
<1>1. CASE WebStep
  BY <1>1, UnmarkedSame DEF WebStep, Worker!JobAdd, Worker!JobDelete
<1>2. CASE WorkerStep
  <2>1. CASE UNCHANGED table
    BY <2>1, UnmarkedSame
  <2>2. CASE pc = "save" /\ Worker!Mark(cur)
    <3>1. Kept
      BY <1>2, <2>2, MarkRows DEF WorkerStep, agentVars
    <3>2. table' = [table EXCEPT ![cur] = [table[cur] EXCEPT !.processed = TRUE]]
      BY <2>2 DEF Worker!Mark
    <3>3. DOMAIN table' = DOMAIN table
      BY <3>2 DEF IInv, RowsOK
    <3> QED
      BY <3>1, <3>3 DEF Unmarked, Kept
  <2> QED
    BY <1>2, <2>1, <2>2, WorkerMarks
<1> QED
  BY <1>1, <1>2

(***************************************************************************)
(* With the marks hidden, the agent in the pipeline behaves as SmtpServer  *)
(* specifies, whatever the worker and the job pages do at the same time    *)
(* (server.go:57-120 reads no row it has stored).                          *)
(***************************************************************************)
THEOREM AgentTheorem == Spec => AgentView!Spec
<1>1. Init => AgentView!Init
  <2> SUFFICES ASSUME Init PROVE AgentView!Init
    OBVIOUS
  <2>1. Agent!Init
    BY DEF Init
  <2>2. Unmarked = << >>
    BY <2>1 DEF Agent!Init, Unmarked
  <2> QED
    BY <2>1, <2>2 DEF Agent!Init, AgentView!Init, Agent!NewSession, AgentView!NewSession,
       Agent!NoTxn, AgentView!NoTxn
<1>2. IInv /\ [Next]_vars => [AgentView!Next]_(AgentView!vars)
  <2> SUFFICES ASSUME IInv, [Next]_vars PROVE AgentView!Next \/ UNCHANGED AgentView!vars
    OBVIOUS
  <2>1. CASE AgentStep
    BY <2>1, UnmarkedStep DEF AgentStep
  <2>2. CASE UNCHANGED vars
    BY <2>2, UnmarkedSame DEF vars, agentVars, AgentView!vars, AgentView!server,
       AgentView!client, AgentView!mails
  <2>3. CASE WebStep \/ WorkerStep
    BY <2>3, UnmarkedRests DEF WebStep, WorkerStep, agentVars, AgentView!vars,
       AgentView!server, AgentView!client, AgentView!mails
  <2> QED
    BY <2>1, <2>2, <2>3 DEF Next
<1> QED
  BY <1>1, <1>2, Invariance, PTL DEF Spec, AgentView!Spec

LEMMA AgentAssumed ==
    /\ NullSender \in Sender
    /\ Addr \intersect Foreign = {}
    /\ From \in [Mail -> Sender]
    /\ Rcpts \in [Mail -> Seq(Addr \union Foreign)]
    /\ Msg \subseteq Nat \ {0}
    /\ MaxRecipients \in Nat /\ MaxTries \in Nat \ {0} /\ MaxFaults \in Nat
BY PipelineAssumption DEF Agent!SmtpAssumption

\* Which rows are a try's own does not depend on the marks.
LEMMA HoldsSame ==
    ASSUME NEW t, NEW s, AgentView!Holds(Unmarked, origin, t, s)
    PROVE  AgentHere!Holds(table, origin, t, s)
<1>1. DOMAIN Unmarked = DOMAIN table /\ \A k \in DOMAIN table : Unmarked[k].to = table[k].to
  BY DEF Unmarked
<1>2. \A S : AgentHere!Cardinality(S) = AgentView!Cardinality(S)
  BY DEF AgentHere!Cardinality, AgentView!Cardinality
<1>3. \A S : AgentHere!IsFiniteSet(S) = AgentView!IsFiniteSet(S)
  BY DEF AgentHere!IsFiniteSet, AgentView!IsFiniteSet
<1>4. AgentHere!IdsOf(table, origin, t) = AgentView!IdsOf(Unmarked, origin, t)
  BY <1>1 DEF AgentHere!IdsOf, AgentView!IdsOf
<1>5. \A m : AgentHere!Position(table, origin, t, m) = AgentView!Position(Unmarked, origin, t, m)
  BY <1>2, <1>4 DEF AgentHere!Position, AgentView!Position, AgentHere!Before, AgentView!Before
<1>6. \A m \in AgentView!IdsOf(Unmarked, origin, t) : Unmarked[m].to = table[m].to
  BY <1>1 DEF AgentView!IdsOf
<1> QED
  BY <1>2, <1>3, <1>4, <1>5, <1>6 DEF AgentHere!Holds, AgentView!Holds

LEMMA StoredSame ==
    ASSUME NEW t, NEW s \in Seq(Addr), AgentView!Holds(Unmarked, origin, t, s)
    PROVE  Agent!Stored(t) = s /\ AgentView!Stored(t) = s
<1>1. AgentHere!Stored(t) = s
  BY AgentAssumed, HoldsSame, AgentHere!StoredIs
<1>2. AgentView!Stored(t) = s
  BY AgentAssumed, AgentView!StoredIs
<1>3. Agent!Stored(t) = AgentHere!Stored(t)
  BY DEF Agent!Stored, AgentHere!Stored, Agent!Cardinality, AgentHere!Cardinality
<1> QED
  BY <1>1, <1>2, <1>3

(***************************************************************************)
(* What the agent promises it keeps beside the worker: an acknowledged     *)
(* mail has one row for each accepted recipient, in order, and no other; a *)
(* running transaction has stored a prefix of what it accepted; a row has  *)
(* the sender of its mail (server.go:57-120).                              *)
(***************************************************************************)
THEOREM PromiseTheorem ==
    Spec => [](Agent!AckedIsStored /\ Agent!StoredIsPrefix /\ Agent!SenderIsKept)
<1>1. AgentView!IInv => Agent!AckedIsStored
  <2> SUFFICES ASSUME AgentView!IInv, NEW m \in Mail, status[m] = "acked"
               PROVE  Agent!Stored(<<m, tries[m]>>) = receipt[m]
    BY DEF Agent!AckedIsStored
  <2>1. AgentView!Holds(Unmarked, origin, <<m, tries[m]>>, receipt[m]) /\ receipt[m] \in Seq(Addr)
    BY AgentAssumed, AgentView!Types DEF AgentView!IInv, AgentView!RowsOK
  <2> QED
    BY <2>1, StoredSame
<1>2. AgentView!IInv /\ AgentView!StoredIsPrefix => Agent!StoredIsPrefix
  <2> SUFFICES ASSUME AgentView!IInv, AgentView!StoredIsPrefix, NEW c \in Conn, txn[c] # Agent!NoTxn
               PROVE  Agent!IsPrefix(Agent!Stored(txn[c]), accepted[c])
    BY DEF Agent!StoredIsPrefix
  <2>1. txn[c] # AgentView!NoTxn
    BY DEF Agent!NoTxn, AgentView!NoTxn
  <2>2. accepted[c] \in Seq(Addr)
    BY AgentAssumed, AgentView!Types
  <2>3. PICK n \in 0 .. Len(accepted[c]) :
           AgentView!Holds(Unmarked, origin, txn[c], SubSeq(accepted[c], 1, n))
    BY <2>1, AgentAssumed, AgentView!PrefixHeld
  <2>4. Agent!Stored(txn[c]) = AgentView!Stored(txn[c])
    <3>1. SubSeq(accepted[c], 1, n) \in Seq(Addr)
      BY <2>2
    <3> QED
      BY <2>3, <3>1, StoredSame
  <2>5. AgentView!IsPrefix(AgentView!Stored(txn[c]), accepted[c])
    BY <2>1 DEF AgentView!StoredIsPrefix
  <2> QED
    BY <2>4, <2>5 DEF Agent!IsPrefix, AgentView!IsPrefix
<1>3. AgentView!IInv => Agent!SenderIsKept
  BY DEF AgentView!IInv, AgentView!SenderIsKept, Agent!SenderIsKept, Unmarked
<1> QED
  BY <1>1, <1>2, <1>3, AgentTheorem, AgentAssumed, AgentView!Invariance, AgentView!PrefixTheorem, PTL

=============================================================================
