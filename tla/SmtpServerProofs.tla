-------------------------- MODULE SmtpServerProofs --------------------------
(***************************************************************************)
(* Proofs about the SMTP agent for any mails, recipients, connections and  *)
(* numbers of tries and faults.                                            *)
(*                                                                         *)
(* Stored, the rows of a transaction in order, is defined by counting ids; *)
(* Holds says the same by the position of each row, and one insert at the  *)
(* end of the table extends it by one row.                                 *)
(***************************************************************************)
EXTENDS SmtpServer, FiniteSetTheorems, SequenceTheorems, TLAPS

IdsOf(tb, og, t) == {m \in DOMAIN tb : og[m] = t}
Before(tb, og, t, m) == {k \in IdsOf(tb, og, t) : k < m}
Position(tb, og, t, m) == Cardinality(Before(tb, og, t, m)) + 1

\* Transaction t has stored rows for the recipients s, in their order.
Holds(tb, og, t, s) ==
    /\ IsFiniteSet(IdsOf(tb, og, t))
    /\ Cardinality(IdsOf(tb, og, t)) = Len(s)
    /\ \A i \in 1 .. Len(s) : \E m \in IdsOf(tb, og, t) : Position(tb, og, t, m) = i
    /\ \A m \in IdsOf(tb, og, t) :
        /\ Position(tb, og, t, m) \in 1 .. Len(s)
        /\ tb[m].to = s[Position(tb, og, t, m)]

\* The transaction of a new row is noted with it.
Mark(og, m, t) == [k \in DOMAIN og \union {m} |-> IF k = m THEN t ELSE og[k]]

\* The ids in use are the smallest ones.
Dense == \A k \in DOMAIN table, j \in Msg : j < k => j \in DOMAIN table

Session == [from : Sender, to : Seq(Addr)]
Phase == {"closed", "ready", "envelope", "store", "failed"}
Status == {"queued", "sending", "acked", "bounced"}

SessionOK(c) ==
    /\ txn[c] = NoTxn <=> phase[c] \in {"closed", "ready"}
    /\ phase[c] \in {"ready", "envelope"} => c \in linked
    /\ phase[c] = "closed" => c \notin linked
    /\ phase[c] = "ready" => session[c] = NewSession
    /\ txn[c] = NoTxn => accepted[c] = << >> /\ sent[c] = 0
    /\ txn[c] # NoTxn => session[c].from = From[txn[c][1]] /\ session[c].to = accepted[c]
    /\ phase[c] = "store" => next[c] \in 1 .. Len(accepted[c]) + 1

SessionsOK == session \in [Conn -> Session] /\ \A c \in Conn : SessionOK(c)

\* Tries are told apart, and whoever waits for an answer makes the last one.
TxnsOK ==
    /\ \A c, d \in Conn : txn[c] = txn[d] /\ txn[c] # NoTxn => c = d
    /\ \A c \in Conn : txn[c] # NoTxn => txn[c][2] <= tries[txn[c][1]]
    /\ \A c \in linked : txn[c] # NoTxn =>
          status[txn[c][1]] = "sending" /\ txn[c][2] = tries[txn[c][1]]
    /\ \A m \in Mail :
        /\ status[m] = "queued" => tries[m] < MaxTries
        /\ status[m] = "acked" => \A c \in Conn : txn[c] # <<m, tries[m]>>
    /\ \A k \in DOMAIN table : origin[k][2] <= tries[origin[k][1]]

\* What each transaction has stored so far.
RowOK(c) ==
    /\ phase[c] = "envelope" => Holds(table, origin, txn[c], << >>)
    /\ phase[c] = "store" =>
          Holds(table, origin, txn[c], SubSeq(accepted[c], 1, next[c] - 1))
    /\ phase[c] = "failed" =>
          \E n \in 0 .. Len(accepted[c]) :
              Holds(table, origin, txn[c], SubSeq(accepted[c], 1, n))

RowsOK ==
    /\ \A c \in Conn : RowOK(c)
    /\ \A m \in Mail : status[m] = "acked" => Holds(table, origin, <<m, tries[m]>>, receipt[m])

IInv == TypeOK /\ SessionsOK /\ TxnsOK /\ Dense /\ RowsOK /\ SenderIsKept

-----------------------------------------------------------------------------
(***************************************************************************)
(* Rows in order.                                                          *)
(***************************************************************************)
LEMMA HoldsNothing ==
    ASSUME NEW tb, NEW og, NEW t, \A k \in DOMAIN tb : og[k] # t
    PROVE  Holds(tb, og, t, << >>)
<1>1. IdsOf(tb, og, t) = {}
  BY DEF IdsOf
<1> QED
  BY <1>1, FS_EmptySet DEF Holds

\* An insert by one transaction is nothing to the others.
LEMMA HoldsOther ==
    ASSUME NEW tb, NEW og, NEW t, NEW u, NEW s, NEW m, NEW row,
           Holds(tb, og, u, s), u # t, m \notin DOMAIN tb, DOMAIN og = DOMAIN tb
    PROVE  Holds(Insert(tb, m, row), Mark(og, m, t), u, s)
<1> DEFINE tc == Insert(tb, m, row)
           oh == Mark(og, m, t)
<1>1. IdsOf(tc, oh, u) = IdsOf(tb, og, u) /\ \A k \in IdsOf(tb, og, u) : tc[k] = tb[k]
  BY DEF IdsOf, Insert, Mark
<1> HIDE DEF tc, oh
<1>2. \A k : Position(tc, oh, u, k) = Position(tb, og, u, k)
  BY <1>1 DEF Position, Before
<1>3. Holds(tc, oh, u, s)
  BY <1>1, <1>2 DEF Holds
<1> QED
  BY <1>3 DEF tc, oh

\* A row after all others is the last one of its transaction.
LEMMA HoldsAppend ==
    ASSUME NEW tb, NEW og, NEW t, NEW s \in Seq(Addr), NEW m \in Nat, NEW row, row.to \in Addr,
           Holds(tb, og, t, s), DOMAIN tb \subseteq Nat, \A k \in DOMAIN tb : k < m,
           DOMAIN og = DOMAIN tb
    PROVE  Holds(Insert(tb, m, row), Mark(og, m, t), t, Append(s, row.to))
<1> DEFINE tc == Insert(tb, m, row)
           oh == Mark(og, m, t)
           ids == IdsOf(tb, og, t)
           w == Append(s, row.to)
<1>1. m \notin DOMAIN tb
  OBVIOUS
<1>2. /\ IdsOf(tc, oh, t) = ids \union {m}
      /\ m \notin ids
      /\ tc[m] = row /\ \A k \in ids : tc[k] = tb[k]
      /\ \A k \in ids : k \in Nat /\ k < m
  BY <1>1 DEF IdsOf, Insert, Mark
<1>3. /\ IsFiniteSet(ids) /\ Cardinality(ids) = Len(s)
      /\ \A i \in 1 .. Len(s) : \E k \in ids : Position(tb, og, t, k) = i
      /\ \A k \in ids : Position(tb, og, t, k) \in 1 .. Len(s) /\ tb[k].to = s[Position(tb, og, t, k)]
  BY DEF Holds
<1>4. /\ Len(s) \in Nat /\ w \in Seq(Addr) /\ Len(w) = Len(s) + 1
      /\ w[Len(s) + 1] = row.to
      /\ \A i \in 1 .. Len(s) : w[i] = s[i]
  OBVIOUS
<1> HIDE DEF tc, oh, w
<1>5. IsFiniteSet(ids \union {m}) /\ Cardinality(ids \union {m}) = Len(s) + 1
  <2> HIDE DEF ids
  <2> QED
    BY <1>2, <1>3, FS_AddElement
<1>6. \A k \in ids : Position(tc, oh, t, k) = Position(tb, og, t, k)
  <2> TAKE k \in ids
  <2>1. Before(tc, oh, t, k) = Before(tb, og, t, k)
    BY <1>2 DEF Before
  <2> QED
    BY <2>1 DEF Position
<1>7. Position(tc, oh, t, m) = Len(s) + 1
  <2>1. Before(tc, oh, t, m) = ids
    BY <1>2 DEF Before
  <2> QED
    BY <2>1, <1>3 DEF Position
<1> HIDE DEF ids
<1>8. \A i \in 1 .. Len(w) : \E k \in IdsOf(tc, oh, t) : Position(tc, oh, t, k) = i
  BY <1>2, <1>3, <1>4, <1>6, <1>7
<1>9. \A k \in IdsOf(tc, oh, t) : Position(tc, oh, t, k) \in 1 .. Len(w)
                                   /\ tc[k].to = w[Position(tc, oh, t, k)]
  BY <1>2, <1>3, <1>4, <1>6, <1>7
<1>10. Holds(tc, oh, t, w)
  BY <1>2, <1>4, <1>5, <1>8, <1>9 DEF Holds
<1> QED
  BY <1>10 DEF tc, oh, w

LEMMA SubSeqAppend ==
    ASSUME NEW S, NEW s \in Seq(S), NEW n \in 1 .. Len(s)
    PROVE  /\ SubSeq(s, 1, n - 1) \in Seq(S)
           /\ SubSeq(s, 1, n) = Append(SubSeq(s, 1, n - 1), s[n])
<1> DEFINE u == SubSeq(s, 1, n - 1)
<1>1. Len(s) \in Nat /\ 1 \in Int /\ n \in Int /\ n - 1 \in Int /\ s[n] \in S
  OBVIOUS
<1>2. u \in Seq(S)
  BY <1>1, SubSeqProperties
<1>3. SubSeq(s, 1, n) = u \o <<s[n]>>
  BY <1>1, SubSeqRecursiveSecond
<1> HIDE DEF u
<1>4. u \o <<s[n]>> = Append(u, s[n])
  BY <1>1, <1>2, AppendIsConcat
<1> QED
  BY <1>2, <1>3, <1>4 DEF u

\* Holds is about Stored.
LEMMA StoredIs ==
    ASSUME NEW t, NEW s \in Seq(Addr), Holds(table, origin, t, s)
    PROVE  Stored(t) = s
<1> DEFINE ids == {m \in DOMAIN table : origin[m] = t}
           at(i) == CHOOSE m \in ids : Cardinality({k \in ids : k < m}) = i - 1
<1>1. ids = IdsOf(table, origin, t)
      /\ \A m : Cardinality({k \in ids : k < m}) + 1 = Position(table, origin, t, m)
  BY DEF IdsOf, Position, Before
<1>2. Len(s) \in Nat /\ IsFiniteSet(ids) /\ Cardinality(ids) = Len(s)
  <2> HIDE DEF ids
  <2> QED
    BY <1>1 DEF Holds
<1>3. ASSUME NEW i \in 1 .. Len(s) PROVE table[at(i)].to = s[i]
  <2>1. PICK m \in ids : Position(table, origin, t, m) = i
    <3> HIDE DEF ids
    <3> QED
      BY <1>1, <1>3 DEF Holds
  <2>2. {k \in ids : k < m} \in SUBSET ids
    OBVIOUS
  <2>3. Cardinality({k \in ids : k < m}) \in Nat
    <3> HIDE DEF ids
    <3> QED
      BY <1>2, <2>2, FS_Subset, FS_CardinalityType
  <2>4. Cardinality({k \in ids : k < m}) = i - 1
    BY <1>1, <2>1, <2>3
  <2>5. at(i) \in ids /\ Cardinality({k \in ids : k < at(i)}) = i - 1
    BY <2>1, <2>4
  <2> HIDE DEF ids, at
  <2>6. Position(table, origin, t, at(i)) = i
    BY <1>1, <2>5
  <2> QED
    BY <1>1, <2>5, <2>6 DEF Holds
<1>4. Stored(t) = [i \in 1 .. Len(s) |-> table[at(i)].to]
  BY <1>2 DEF Stored
<1>5. s = [i \in 1 .. Len(s) |-> s[i]]
  OBVIOUS
<1> HIDE DEF ids, at
<1> QED
  BY <1>3, <1>4, <1>5

-----------------------------------------------------------------------------
(***************************************************************************)
(* Steps that leave the table alone.                                       *)
(***************************************************************************)
LEMMA NewSessionType == << >> \in Seq(Addr) /\ NewSession \in Session
BY SmtpAssumption DEF NewSession, Session

LEMMA InitInv == Init => IInv
<1> SUFFICES ASSUME Init PROVE IInv
  OBVIOUS
<1>1. TypeOK
  <2>1. DOMAIN table = {} /\ table \in [{} -> Message] /\ origin \in [{} -> Txn]
    BY DEF Init
  <2>2. session \in [Conn -> Session]
    BY NewSessionType DEF Init
  <2>3. \A c \in Conn : session[c].from \in Sender /\ session[c].to \in Seq(Addr)
    BY <2>2 DEF Session
  <2>4. netFaults \in 0 .. MaxFaults /\ tries \in [Mail -> 0 .. MaxTries]
    BY SmtpAssumption DEF Init
  <2> QED
    BY <2>1, <2>3, <2>4, NewSessionType DEF Init, TypeOK
<1>2. SessionsOK
  BY NewSessionType DEF Init, SessionsOK, SessionOK, NoTxn
<1>3. TxnsOK /\ Dense /\ RowsOK /\ SenderIsKept
  BY SmtpAssumption DEF Init, TxnsOK, Dense, RowsOK, RowOK, SenderIsKept, NoTxn
<1> QED
  BY <1>1, <1>2, <1>3 DEF IInv

\* What is known of each variable.
LEMMA Types ==
    ASSUME IInv
    PROVE  /\ phase \in [Conn -> Phase] /\ session \in [Conn -> Session] /\ next \in [Conn -> Nat]
           /\ txn \in [Conn -> Txn \union {NoTxn}] /\ sent \in [Conn -> Nat]
           /\ accepted \in [Conn -> Seq(Addr)] /\ linked \subseteq Conn
           /\ status \in [Mail -> Status] /\ tries \in [Mail -> 0 .. MaxTries]
           /\ receipt \in [Mail -> Seq(Addr)] /\ origin \in [DOMAIN table -> Txn]
BY DEF IInv, TypeOK, SessionsOK, SessionOK, Phase, Status

\* What is known of a transaction under way.
LEMMA TxnType ==
    ASSUME IInv, NEW c \in Conn, txn[c] # NoTxn
    PROVE  /\ txn[c][1] \in Mail /\ txn[c][2] \in 1 .. MaxTries
           /\ txn[c] = <<txn[c][1], txn[c][2]>>
           /\ Rcpts[txn[c][1]] \in Seq(Addr \union Foreign)
BY Types, SmtpAssumption DEF Txn

LEMMA OriginType ==
    ASSUME IInv, NEW k \in DOMAIN table
    PROVE  origin[k] \in Txn /\ origin[k][1] \in Mail /\ origin[k][2] \in Nat
BY Types DEF Txn

LEMMA ConnectInv ==
    ASSUME IInv, NEW c \in Conn, Connect(c) \/ Quit(c) PROVE IInv'
<1>1. phase[c] \in {"closed", "ready"} /\ txn[c] = NoTxn
  BY DEF Connect, Quit, IInv, SessionsOK, SessionOK
<1>2. /\ UNCHANGED <<table, next, txn, sent, accepted, status, tries, receipt, origin, netFaults>>
      /\ session' \in [Conn -> Session] /\ phase' \in [Conn -> Phase] /\ linked' \subseteq Conn
      /\ \A d \in Conn \ {c} :
            session'[d] = session[d] /\ phase'[d] = phase[d] /\ (d \in linked' <=> d \in linked)
  <2>1. CASE Connect(c)
    BY <2>1, Types, NewSessionType DEF Connect, Goto, mails, Phase
  <2>2. CASE Quit(c)
    BY <2>2, Types DEF Quit, Goto, mails, Phase
  <2> QED
    BY <2>1, <2>2
<1>3. \/ phase'[c] = "ready" /\ session'[c] = NewSession /\ c \in linked'
      \/ phase'[c] = "closed" /\ c \notin linked'
  <2>1. CASE Connect(c)
    BY <2>1, Types, NewSessionType DEF Connect, Goto
  <2>2. CASE Quit(c)
    BY <2>2, Types DEF Quit, Goto
  <2> QED
    BY <2>1, <2>2
<1>4. TypeOK'
  BY <1>2 DEF IInv, TypeOK, Session, Phase
<1>5. SessionsOK'
  BY <1>1, <1>2, <1>3 DEF IInv, SessionsOK, SessionOK
<1>6. TxnsOK'
  BY <1>1, <1>2 DEF IInv, TxnsOK
<1>7. RowsOK'
  BY <1>2, <1>3 DEF IInv, RowsOK, RowOK
<1>8. Dense' /\ SenderIsKept'
  BY <1>2 DEF IInv, Dense, SenderIsKept
<1> QED
  BY <1>4, <1>5, <1>6, <1>7, <1>8 DEF IInv

LEMMA MailCommandInv ==
    ASSUME IInv, NEW c \in Conn, NEW m \in Mail, MailCommand(c, m) PROVE IInv'
<1> DEFINE u == <<m, tries[m] + 1>>
<1>1. /\ phase[c] = "ready" /\ status[m] = "queued"
      /\ txn[c] = NoTxn /\ c \in linked /\ accepted[c] = << >> /\ session[c] = NewSession
      /\ UNCHANGED <<table, next, sent, accepted, linked, receipt, origin, netFaults>>
  BY DEF MailCommand, IInv, SessionsOK, SessionOK
<1>2. tries[m] \in Nat /\ tries[m] + 1 \in 1 .. MaxTries /\ MaxTries \in Nat
  BY <1>1, Types, SmtpAssumption DEF IInv, TxnsOK
<1>3. u \in Txn /\ u # NoTxn /\ u[1] = m /\ u[2] = tries[m] + 1
  BY <1>2 DEF Txn, NoTxn
<1>4. /\ tries' = [tries EXCEPT ![m] = tries[m] + 1] /\ status' = [status EXCEPT ![m] = "sending"]
      /\ phase' = [phase EXCEPT ![c] = "envelope"]
      /\ session' = [session EXCEPT ![c].from = From[m]]
  BY DEF MailCommand, Goto
<1>5. txn' = [txn EXCEPT ![c] = u]
  BY <1>4, Types DEF MailCommand
<1>6. /\ tries' \in [Mail -> 0 .. MaxTries] /\ tries'[m] = tries[m] + 1
      /\ \A l \in Mail \ {m} : tries'[l] = tries[l]
      /\ status' \in [Mail -> Status] /\ status'[m] = "sending"
      /\ \A l \in Mail \ {m} : status'[l] = status[l]
  BY <1>2, <1>4, Types DEF Status
<1> HIDE DEF u
<1>7. /\ phase' \in [Conn -> Phase] /\ phase'[c] = "envelope"
      /\ txn' \in [Conn -> Txn \union {NoTxn}] /\ txn'[c] = u
      /\ \A d \in Conn \ {c} : phase'[d] = phase[d] /\ txn'[d] = txn[d]
  BY <1>3, <1>4, <1>5, Types DEF Phase
<1>8. /\ session' \in [Conn -> Session]
      /\ session'[c].from = From[m] /\ session'[c].to = << >>
      /\ \A d \in Conn \ {c} : session'[d] = session[d]
  <2>1. From[m] \in Sender
    BY SmtpAssumption
  <2>2. session[c] \in Session /\ session[c].to = << >>
    BY <1>1, Types DEF NewSession
  <2>3. [session[c] EXCEPT !.from = From[m]] \in Session
        /\ [session[c] EXCEPT !.from = From[m]].from = From[m]
        /\ [session[c] EXCEPT !.from = From[m]].to = << >>
    BY <2>1, <2>2 DEF Session
  <2>4. session' = [session EXCEPT ![c] = [session[c] EXCEPT !.from = From[m]]]
    BY <1>4
  <2> QED
    BY <2>3, <2>4, Types
<1>9. TypeOK'
  BY <1>1, <1>6, <1>7, <1>8 DEF IInv, TypeOK, Session, Phase, Status
<1>10. SessionsOK'
  BY <1>1, <1>3, <1>7, <1>8 DEF IInv, SessionsOK, SessionOK
<1>11. TxnsOK'
  <2>1. \A d \in Conn : txn[d] # NoTxn =>
           txn[d][1] \in Mail /\ txn[d][2] \in Nat /\ txn[d][2] <= tries[txn[d][1]]
           /\ tries'[txn[d][1]] \in Nat /\ tries[txn[d][1]] <= tries'[txn[d][1]]
    BY <1>2, <1>6, TxnType DEF IInv, TxnsOK
  <2>2. \A d \in Conn \ {c} : txn[d] # u
    BY <1>2, <1>3, <2>1
  <2>3. \A k \in DOMAIN table : origin[k][2] <= tries'[origin[k][1]]
    <3> TAKE k \in DOMAIN table
    <3>1. origin[k][1] \in Mail /\ origin[k][2] \in Nat /\ origin[k][2] <= tries[origin[k][1]]
      BY OriginType DEF IInv, TxnsOK
    <3> QED
      BY <1>2, <1>6, <3>1
  <2>4. \A d \in Conn : txn'[d] # NoTxn => txn'[d][2] <= tries'[txn'[d][1]]
    BY <1>2, <1>3, <1>6, <1>7, <2>1
  <2>5. \A d \in linked' : txn'[d] # NoTxn =>
          status'[txn'[d][1]] = "sending" /\ txn'[d][2] = tries'[txn'[d][1]]
    <3> SUFFICES ASSUME NEW d \in linked, txn'[d] # NoTxn
                 PROVE  status'[txn'[d][1]] = "sending" /\ txn'[d][2] = tries'[txn'[d][1]]
      BY <1>1
    <3>1. CASE d = c
      BY <1>3, <1>6, <1>7, <3>1
    <3>2. CASE d # c
      <4>1. d \in Conn /\ txn'[d] = txn[d] /\ txn[d][1] \in Mail
        BY <1>7, <2>1, <3>2, Types
      <4>2. status[txn[d][1]] = "sending" /\ txn[d][2] = tries[txn[d][1]]
        BY <4>1 DEF IInv, TxnsOK
      <4> QED
        BY <1>1, <1>6, <4>1, <4>2
    <3> QED
      BY <3>1, <3>2
  <2>6. ASSUME NEW l \in Mail
        PROVE  /\ status'[l] = "queued" => tries'[l] < MaxTries
               /\ status'[l] = "acked" => \A d \in Conn : txn'[d] # <<l, tries'[l]>>
    <3>1. CASE l = m
      BY <1>6, <3>1
    <3>2. CASE l # m
      <4>1. status'[l] = status[l] /\ tries'[l] = tries[l] /\ u # <<l, tries[l]>>
        BY <1>3, <1>6, <3>2
      <4> QED
        BY <1>7, <4>1 DEF IInv, TxnsOK
    <3> QED
      BY <3>1, <3>2
  <2>7. \A d, e \in Conn : txn'[d] = txn'[e] /\ txn'[d] # NoTxn => d = e
    BY <1>7, <2>2 DEF IInv, TxnsOK
  <2> QED
    BY <1>1, <2>3, <2>4, <2>5, <2>6, <2>7 DEF TxnsOK
<1>12. RowsOK'
  <2>1. \A k \in DOMAIN table : origin[k] # u
    <3> TAKE k \in DOMAIN table
    <3>1. origin[k][1] \in Mail /\ origin[k][2] \in Nat /\ origin[k][2] <= tries[origin[k][1]]
      BY OriginType DEF IInv, TxnsOK
    <3> QED
      BY <1>2, <1>3, <3>1
  <2>2. Holds(table, origin, txn'[c], << >>)
    BY <1>7, <2>1, HoldsNothing
  <2> QED
    BY <1>1, <1>6, <1>7, <2>2 DEF IInv, RowsOK, RowOK
<1>13. Dense' /\ SenderIsKept'
  BY <1>1 DEF IInv, Dense, SenderIsKept
<1> QED
  BY <1>9, <1>10, <1>11, <1>12, <1>13 DEF IInv

LEMMA RcptInv ==
    ASSUME IInv, NEW c \in Conn, Rcpt(c) PROVE IInv'
<1>1. txn[c] # NoTxn
  BY DEF Rcpt, IInv, SessionsOK, SessionOK
<1>2. NextRcpt(c) \in Addr \union Foreign /\ sent[c] + 1 \in Nat
  BY <1>1, TxnType DEF Rcpt, NextRcpt, IInv, TypeOK
<1>3. /\ session' \in [Conn -> Session] /\ accepted' \in [Conn -> Seq(Addr)]
      /\ session'[c].from = session[c].from /\ session'[c].to = accepted'[c]
      /\ \A d \in Conn \ {c} : session'[d] = session[d] /\ accepted'[d] = accepted[d]
  <2>1. session[c].to = accepted[c] /\ accepted[c] \in Seq(Addr) /\ session[c] \in Session
    BY <1>1 DEF IInv, TypeOK, SessionsOK, SessionOK
  <2>2. CASE Allowed(NextRcpt(c)) /\ Len(accepted[c]) < MaxRecipients
    <3>1. Append(accepted[c], NextRcpt(c)) \in Seq(Addr)
      BY <1>2, <2>1, <2>2 DEF Allowed
    <3>2. [session[c] EXCEPT !.to = Append(session[c].to, NextRcpt(c))] \in Session
          /\ [session[c] EXCEPT !.to = Append(session[c].to, NextRcpt(c))].from = session[c].from
          /\ [session[c] EXCEPT !.to = Append(session[c].to, NextRcpt(c))].to
                = Append(accepted[c], NextRcpt(c))
      BY <2>1, <3>1 DEF Session
    <3>3. /\ session' = [session EXCEPT ![c] =
                [session[c] EXCEPT !.to = Append(session[c].to, NextRcpt(c))]]
          /\ accepted' = [accepted EXCEPT ![c] = Append(accepted[c], NextRcpt(c))]
      BY <2>2 DEF Rcpt
    <3> QED
      BY <3>1, <3>2, <3>3, Types
  <2>3. CASE ~(Allowed(NextRcpt(c)) /\ Len(accepted[c]) < MaxRecipients)
    BY <2>1, <2>3 DEF Rcpt, IInv, TypeOK, SessionsOK, SessionOK
  <2> QED
    BY <2>2, <2>3
<1>4. /\ sent' \in [Conn -> Nat] /\ \A d \in Conn \ {c} : sent'[d] = sent[d]
      /\ phase[c] = "envelope"
      /\ UNCHANGED <<table, phase, next, txn, linked, status, tries, receipt, origin, netFaults>>
  BY <1>2 DEF Rcpt, mails, IInv, TypeOK
<1>5. TypeOK'
  BY <1>3, <1>4 DEF IInv, TypeOK, Session
<1>6. SessionsOK'
  BY <1>1, <1>3, <1>4 DEF IInv, SessionsOK, SessionOK
<1>7. TxnsOK' /\ RowsOK' /\ Dense' /\ SenderIsKept'
  BY <1>3, <1>4 DEF IInv, TxnsOK, RowsOK, RowOK, Dense, SenderIsKept
<1> QED
  BY <1>5, <1>6, <1>7 DEF IInv

LEMMA DataInv ==
    ASSUME IInv, NEW c \in Conn, Data(c) PROVE IInv'
<1>1. /\ phase[c] = "envelope" /\ txn[c] # NoTxn /\ Len(accepted[c]) \in Nat
      /\ UNCHANGED <<table, session, txn, sent, accepted, linked, status, tries, receipt, origin, netFaults>>
  BY Types DEF Data, Offered, client, mails, IInv, SessionsOK, SessionOK
<1>2. /\ phase' \in [Conn -> Phase] /\ phase'[c] = "store"
      /\ next' \in [Conn -> Nat] /\ next'[c] = 1
      /\ \A d \in Conn \ {c} : phase'[d] = phase[d] /\ next'[d] = next[d]
  BY Types DEF Data, Goto, Phase
<1>3. TypeOK'
  BY <1>1, <1>2 DEF IInv, TypeOK, Phase
<1>4. SessionsOK'
  BY <1>1, <1>2 DEF IInv, SessionsOK, SessionOK
<1>5. TxnsOK' /\ Dense' /\ SenderIsKept'
  BY <1>1 DEF IInv, TxnsOK, Dense, SenderIsKept
<1>6. RowsOK'
  <2>1. SubSeq(accepted[c], 1, next'[c] - 1) = << >>
    BY <1>2, SubSeqEmpty
  <2>2. Holds(table, origin, txn[c], << >>)
    BY <1>1 DEF IInv, RowsOK, RowOK
  <2> QED
    BY <1>1, <1>2, <2>1, <2>2 DEF IInv, RowsOK, RowOK
<1> QED
  BY <1>3, <1>4, <1>5, <1>6 DEF IInv

-----------------------------------------------------------------------------
(***************************************************************************)
(* The end of a transaction, however it comes.                             *)
(***************************************************************************)

\* The answer a client still there takes its mail's new status from.
Answered(c) ==
    /\ c \in linked
    /\ status'[txn[c][1]] \in {"queued", "bounced", "acked"}
    /\ status'[txn[c][1]] = "queued" => tries[txn[c][1]] < MaxTries
    /\ status'[txn[c][1]] = "acked" =>
          receipt'[txn[c][1]] = accepted[c] /\ Holds(table, origin, txn[c], accepted[c])

\* What the steps that end a transaction of c have in common.
Ends(c) ==
    /\ txn[c] # NoTxn
    /\ EndTxn(c)
    /\ UNCHANGED <<table, tries, origin, next>>
    /\ phase' \in [Conn -> Phase] /\ linked' \subseteq Conn /\ session' \in [Conn -> Session]
    /\ \/ phase'[c] = "ready" /\ c \in linked' /\ session'[c] = NewSession
       \/ phase'[c] = "closed" /\ c \notin linked'
    /\ \A d \in Conn \ {c} :
          phase'[d] = phase[d] /\ (d \in linked' <=> d \in linked) /\ session'[d] = session[d]
    /\ status' \in [Mail -> Status] /\ receipt' \in [Mail -> Seq(Addr)]
    /\ \A m \in Mail \ {txn[c][1]} : status'[m] = status[m] /\ receipt'[m] = receipt[m]
    /\ UNCHANGED <<status, receipt>> \/ Answered(c)
    /\ netFaults' \in 0 .. MaxFaults

LEMMA EndInv ==
    ASSUME IInv, NEW c \in Conn, Ends(c) PROVE  IInv'
<1>1. /\ txn' \in [Conn -> Txn \union {NoTxn}] /\ sent' \in [Conn -> Nat]
      /\ accepted' \in [Conn -> Seq(Addr)]
      /\ txn'[c] = NoTxn /\ sent'[c] = 0 /\ accepted'[c] = << >>
      /\ \A d \in Conn \ {c} : txn'[d] = txn[d] /\ sent'[d] = sent[d] /\ accepted'[d] = accepted[d]
  <2>1. 0 \in Nat /\ << >> \in Seq(Addr)
    OBVIOUS
  <2> QED
    BY <2>1, Types DEF Ends, EndTxn
<1>2. /\ txn[c] # NoTxn
      /\ UNCHANGED <<table, tries, origin, next>>
      /\ \A d \in Conn \ {c} : phase'[d] = phase[d] /\ (d \in linked' <=> d \in linked)
      /\ \/ phase'[c] = "ready" /\ c \in linked'
         \/ phase'[c] = "closed" /\ c \notin linked'
      /\ phase'[c] = "ready" => session'[c] = NewSession
      /\ \A d \in Conn \ {c} : session'[d] = session[d]
  BY DEF Ends
<1>3. /\ linked' \subseteq Conn
      /\ \A m \in Mail \ {txn[c][1]} : status'[m] = status[m] /\ receipt'[m] = receipt[m]
      /\ UNCHANGED <<status, receipt>> \/ Answered(c)
  BY DEF Ends
<1>4. TypeOK'
  BY <1>1 DEF Ends, IInv, TypeOK, Session, Phase, Status
<1>5. SessionsOK'
  <2>1. session' \in [Conn -> Session]
    BY DEF Ends
  <2>2. ASSUME NEW d \in Conn \ {c} PROVE SessionOK(d)'
    <3>1. /\ txn'[d] = txn[d] /\ sent'[d] = sent[d] /\ accepted'[d] = accepted[d]
          /\ phase'[d] = phase[d] /\ session'[d] = session[d] /\ next'[d] = next[d]
          /\ d \in linked' <=> d \in linked
      BY <1>1, <1>2
    <3>2. SessionOK(d)
      BY DEF IInv, SessionsOK
    <3> QED
      BY <3>1, <3>2 DEF SessionOK
  <2>3. SessionOK(c)'
    BY <1>1, <1>2 DEF SessionOK
  <2> QED
    BY <2>1, <2>2, <2>3 DEF SessionsOK
<1>6. /\ txn[c][1] \in Mail /\ txn[c] = <<txn[c][1], txn[c][2]>>
  BY <1>2, TxnType
\* After an answer nobody else is at the mail's last try.
<1>7. Answered(c) => /\ txn[c] = <<txn[c][1], tries[txn[c][1]]>>
                     /\ \A d \in linked \ {c} : txn[d] # NoTxn => txn[d][1] # txn[c][1]
  <2> SUFFICES ASSUME Answered(c)
               PROVE  /\ txn[c] = <<txn[c][1], tries[txn[c][1]]>>
                      /\ \A d \in linked \ {c} : txn[d] # NoTxn => txn[d][1] # txn[c][1]
    OBVIOUS
  <2>1. c \in linked /\ txn[c][2] = tries[txn[c][1]]
    BY <1>2 DEF Answered, IInv, TxnsOK
  <2>2. ASSUME NEW d \in linked \ {c}, txn[d] # NoTxn PROVE txn[d][1] # txn[c][1]
    <3>1. d \in Conn /\ txn[d][2] = tries[txn[d][1]]
      BY <2>2, Types DEF IInv, TxnsOK
    <3>2. txn[d] = <<txn[d][1], txn[d][2]>> /\ txn[d] # txn[c]
      BY <2>2, <3>1, TxnType DEF IInv, TxnsOK
    <3>3. CASE txn[d][1] = txn[c][1]
      <4>1. txn[d][2] = txn[c][2]
        BY <2>1, <3>1, <3>3
      <4> QED
        BY <1>6, <3>2, <3>3, <4>1
    <3> QED
      BY <3>3
  <2> QED
    BY <1>6, <2>1, <2>2
<1>8. TxnsOK'
  <2>1. \A d \in linked' : txn'[d] # NoTxn =>
          status'[txn'[d][1]] = "sending" /\ txn'[d][2] = tries[txn'[d][1]]
    <3> SUFFICES ASSUME NEW d \in linked', txn'[d] # NoTxn
                 PROVE  status'[txn'[d][1]] = "sending" /\ txn'[d][2] = tries[txn'[d][1]]
      BY <1>2
    <3>1. d \in linked \ {c} /\ d \in Conn /\ txn'[d] = txn[d]
      BY <1>1, <1>2, <1>3
    <3>2. txn[d][1] \in Mail /\ status[txn[d][1]] = "sending" /\ txn[d][2] = tries[txn[d][1]]
      BY <3>1, TxnType DEF IInv, TxnsOK
    <3> QED
      BY <1>3, <1>7, <3>1, <3>2
  <2>2. ASSUME NEW m \in Mail
        PROVE  /\ status'[m] = "queued" => tries[m] < MaxTries
               /\ status'[m] = "acked" => \A d \in Conn : txn'[d] # <<m, tries[m]>>
    <3>1. CASE Answered(c) /\ m = txn[c][1]
      <4>1. \A d \in Conn \ {c} : txn[d] # <<m, tries[m]>>
        <5> TAKE d \in Conn \ {c}
        <5>1. txn[d] # txn[c]
          BY <1>2 DEF IInv, TxnsOK
        <5> QED
          BY <1>7, <3>1, <5>1
      <4>2. NoTxn # <<m, tries[m]>>
        BY DEF NoTxn
      <4> QED
        BY <1>1, <3>1, <4>1, <4>2 DEF Answered
    <3>2. CASE ~(Answered(c) /\ m = txn[c][1])
      <4>1. status'[m] = status[m] /\ NoTxn # <<m, tries[m]>>
        BY <1>3, <3>2 DEF NoTxn
      <4>2. /\ status[m] = "queued" => tries[m] < MaxTries
            /\ status[m] = "acked" => \A d \in Conn : txn[d] # <<m, tries[m]>>
        BY DEF IInv, TxnsOK
      <4> QED
        BY <1>1, <4>1, <4>2
    <3> QED
      BY <3>1, <3>2
  <2>3. /\ \A d, e \in Conn : txn'[d] = txn'[e] /\ txn'[d] # NoTxn => d = e
        /\ \A d \in Conn : txn'[d] # NoTxn => txn'[d][2] <= tries[txn'[d][1]]
        /\ \A k \in DOMAIN table : origin[k][2] <= tries[origin[k][1]]
    <3>1. ASSUME NEW d \in Conn, NEW e \in Conn, txn'[d] = txn'[e], txn'[d] # NoTxn PROVE d = e
      <4>1. txn[d] = txn[e] /\ txn[d] # NoTxn
        BY <1>1, <3>1
      <4> QED
        BY <4>1 DEF IInv, TxnsOK
    <3>2. \A d \in Conn : txn'[d] # NoTxn => txn'[d][2] <= tries[txn'[d][1]]
      BY <1>1 DEF IInv, TxnsOK
    <3> QED
      BY <3>1, <3>2 DEF IInv, TxnsOK
  <2> QED
    BY <1>2, <2>1, <2>2, <2>3 DEF TxnsOK
<1>9. RowsOK'
  <2>1. ASSUME NEW m \in Mail, status'[m] = "acked"
        PROVE  Holds(table, origin, <<m, tries[m]>>, receipt'[m])
    <3>1. CASE Answered(c) /\ m = txn[c][1]
      BY <1>7, <2>1, <3>1 DEF Answered
    <3>2. CASE ~(Answered(c) /\ m = txn[c][1])
      <4>1. status'[m] = status[m] /\ receipt'[m] = receipt[m]
        BY <1>3, <3>2
      <4> QED
        BY <2>1, <4>1 DEF IInv, RowsOK, RowOK
    <3> QED
      BY <3>1, <3>2
  <2> QED
    BY <1>1, <1>2, <2>1 DEF IInv, RowsOK, RowOK
<1>10. Dense' /\ SenderIsKept'
  BY <1>2 DEF IInv, Dense, SenderIsKept
<1> QED
  BY <1>4, <1>5, <1>8, <1>9, <1>10 DEF IInv

LEMMA RepliedInv ==
    ASSUME IInv, NEW c \in Conn, NotAccepted(c) \/ Acknowledge(c) \/ Refuse(c) PROVE IInv'
<1>1. /\ txn[c] # NoTxn /\ c \in linked /\ EndTxn(c)
      /\ UNCHANGED <<table, next, linked, tries, origin, netFaults>>
      /\ phase' = [phase EXCEPT ![c] = "ready"] /\ session' = [session EXCEPT ![c] = NewSession]
  BY DEF NotAccepted, Acknowledge, Refuse, Offered, Done, Reset, Goto, NewSession, IInv, SessionsOK, SessionOK
<1>2. /\ phase' \in [Conn -> Phase] /\ phase'[c] = "ready"
      /\ session' \in [Conn -> Session] /\ session'[c] = NewSession
      /\ \A d \in Conn \ {c} : phase'[d] = phase[d] /\ session'[d] = session[d]
  BY <1>1, Types, NewSessionType DEF Phase
<1>3. txn[c][1] \in Mail /\ accepted[c] \in Seq(Addr)
  BY <1>1, TxnType, Types
<1>4. /\ status' \in [Mail -> Status] /\ receipt' \in [Mail -> Seq(Addr)]
      /\ \A m \in Mail \ {txn[c][1]} : status'[m] = status[m] /\ receipt'[m] = receipt[m]
      /\ Answered(c)
  <2>1. CASE NotAccepted(c)
    BY <1>1, <1>3, <2>1, Types DEF NotAccepted, Answered, Status
  <2>2. CASE Acknowledge(c)
    <3>1. Holds(table, origin, txn[c], SubSeq(accepted[c], 1, next[c] - 1))
          /\ next[c] - 1 = Len(accepted[c])
      BY <1>1, <1>3, <2>2, Types DEF Acknowledge, Done, IInv, SessionsOK, SessionOK, RowsOK, RowOK
    <3>2. Holds(table, origin, txn[c], accepted[c])
      BY <1>3, <3>1, SubSeqFull
    <3>3. status' = [status EXCEPT ![txn[c][1]] = "acked"]
          /\ receipt' = [receipt EXCEPT ![txn[c][1]] = accepted[c]]
      BY <2>2 DEF Acknowledge
    <3>4. status'[txn[c][1]] = "acked" /\ receipt'[txn[c][1]] = accepted[c]
      BY <1>3, <3>3, Types
    <3> QED
      BY <1>1, <1>3, <3>2, <3>3, <3>4, Types DEF Answered, Status
  <2>3. CASE Refuse(c)
    BY <1>1, <1>3, <2>3, Types DEF Refuse, Retry, Answered, Status
  <2> QED
    BY <2>1, <2>2, <2>3
<1>5. netFaults' \in 0 .. MaxFaults /\ linked' \subseteq Conn
  BY <1>1, Types DEF IInv, TypeOK
<1> QED
  BY <1>1, <1>2, <1>4, <1>5, EndInv DEF Ends

LEMMA HangUpInv ==
    ASSUME IInv, NEW c \in Conn, HangUp(c) PROVE IInv'
<1>1. /\ txn[c] # NoTxn /\ c \notin linked /\ EndTxn(c)
      /\ UNCHANGED <<table, session, next, linked, status, tries, receipt, origin, netFaults>>
      /\ phase' = [phase EXCEPT ![c] = "closed"]
  BY DEF HangUp, Done, Goto, mails, IInv, SessionsOK, SessionOK
<1>2. /\ phase' \in [Conn -> Phase] /\ phase'[c] = "closed"
      /\ \A d \in Conn \ {c} : phase'[d] = phase[d]
  BY <1>1, Types DEF Phase
<1>3. netFaults' \in 0 .. MaxFaults
  BY <1>1 DEF IInv, TypeOK
<1>4. Ends(c)
  BY <1>1, <1>2, <1>3, Types DEF Ends
<1> QED
  BY <1>4, EndInv

\* A client gone before DATA: the server drops the transaction.
LEMMA LostEarlyInv ==
    ASSUME IInv, NEW c \in Conn, Lost(c), phase[c] = "envelope" PROVE IInv'
<1>1. /\ txn[c] # NoTxn /\ c \in linked /\ EndTxn(c) /\ Retry(txn[c][1]) /\ Fault
      /\ UNCHANGED <<table, session, next, tries, receipt, origin>>
      /\ linked' = linked \ {c} /\ phase' = [phase EXCEPT ![c] = "closed"]
  BY DEF Lost, Goto
<1>2. /\ phase' \in [Conn -> Phase] /\ phase'[c] = "closed"
      /\ \A d \in Conn \ {c} : phase'[d] = phase[d] /\ (d \in linked' <=> d \in linked)
  BY <1>1, Types DEF Phase
<1>3. netFaults' \in 0 .. MaxFaults
  BY <1>1, SmtpAssumption DEF Fault, IInv, TypeOK
<1>4. txn[c][1] \in Mail
  BY <1>1, TxnType
<1>5. /\ status' \in [Mail -> Status] /\ Answered(c)
      /\ \A m \in Mail \ {txn[c][1]} : status'[m] = status[m]
  BY <1>1, <1>4, Types DEF Retry, Answered, Status
<1>6. Ends(c)
  BY <1>1, <1>2, <1>3, <1>5, Types DEF Ends
<1> QED
  BY <1>6, EndInv

\* A client gone during or after DATA: the handler goes on without it.
LEMMA LostLateInv ==
    ASSUME IInv, NEW c \in Conn, Lost(c), phase[c] # "envelope" PROVE IInv'
<1>1. /\ txn[c] # NoTxn /\ c \in linked /\ Retry(txn[c][1]) /\ Fault
      /\ UNCHANGED <<table, phase, session, next, txn, sent, accepted, tries, receipt, origin>>
      /\ linked' = linked \ {c}
  BY DEF Lost
<1>2. txn[c][1] \in Mail /\ txn[c] = <<txn[c][1], txn[c][2]>>
  BY <1>1, TxnType
<1>3. /\ status' \in [Mail -> Status] /\ status'[txn[c][1]] \in {"queued", "bounced"}
      /\ status'[txn[c][1]] = "queued" => tries[txn[c][1]] < MaxTries
      /\ \A m \in Mail \ {txn[c][1]} : status'[m] = status[m]
  BY <1>1, <1>2, Types DEF Retry, Status
<1>4. netFaults' \in 0 .. MaxFaults
  BY <1>1, SmtpAssumption DEF Fault, IInv, TypeOK
<1>5. TypeOK'
  BY <1>1, <1>3, <1>4, Types DEF IInv, TypeOK, Status
<1>6. phase[c] \in {"store", "failed"}
  <2>1. SessionOK(c) /\ phase[c] \in Phase
    BY Types DEF IInv, SessionsOK
  <2> QED
    BY <1>1, <2>1 DEF SessionOK, Phase, Lost
<1>7. SessionsOK'
  <2>1. ASSUME NEW d \in Conn PROVE SessionOK(d)'
    <3>1. SessionOK(d) /\ (d # c => (d \in linked' <=> d \in linked))
      BY <1>1 DEF IInv, SessionsOK
    <3> QED
      BY <1>1, <1>6, <3>1 DEF SessionOK
  <2> QED
    BY <1>1, <2>1, Types DEF SessionsOK
<1>8. TxnsOK'
  <2>1. ASSUME NEW d \in linked', txn[d] # NoTxn
        PROVE  status'[txn[d][1]] = "sending" /\ txn[d][2] = tries[txn[d][1]]
    <3>1. d \in linked /\ d \in Conn /\ d # c
      BY <1>1, <2>1, Types
    <3>2. status[txn[d][1]] = "sending" /\ txn[d][2] = tries[txn[d][1]] /\ txn[d][1] \in Mail
          /\ txn[d] = <<txn[d][1], txn[d][2]>> /\ txn[d] # txn[c]
      BY <2>1, <3>1, TxnType DEF IInv, TxnsOK
    <3>3. txn[c][2] = tries[txn[c][1]]
      BY <1>1 DEF IInv, TxnsOK
    <3>4. txn[d][1] # txn[c][1]
      BY <1>2, <3>2, <3>3
    <3> QED
      BY <1>3, <3>2, <3>4
  <2>2. ASSUME NEW m \in Mail
        PROVE  /\ status'[m] = "queued" => tries[m] < MaxTries
               /\ status'[m] = "acked" => \A d \in Conn : txn[d] # <<m, tries[m]>>
    <3>1. CASE m = txn[c][1]
      BY <1>3, <3>1
    <3>2. CASE m # txn[c][1]
      <4>1. status'[m] = status[m]
        BY <1>3, <3>2
      <4> QED
        BY <4>1 DEF IInv, TxnsOK
    <3> QED
      BY <3>1, <3>2
  <2>3. /\ \A d, e \in Conn : txn[d] = txn[e] /\ txn[d] # NoTxn => d = e
        /\ \A d \in Conn : txn[d] # NoTxn => txn[d][2] <= tries[txn[d][1]]
        /\ \A k \in DOMAIN table : origin[k][2] <= tries[origin[k][1]]
    BY DEF IInv, TxnsOK
  <2> QED
    BY <1>1, <2>1, <2>2, <2>3 DEF TxnsOK
<1>9. RowsOK'
  <2>1. \A m \in Mail : status'[m] = "acked" => status[m] = "acked"
    BY <1>3
  <2> QED
    BY <1>1, <2>1 DEF IInv, RowsOK, RowOK
<1>10. Dense' /\ SenderIsKept'
  BY <1>1 DEF IInv, Dense, SenderIsKept
<1> QED
  BY <1>5, <1>7, <1>8, <1>9, <1>10 DEF IInv

LEMMA CrashInv ==
    ASSUME IInv, Crash PROVE IInv'
<1>1. /\ UNCHANGED <<table, session, next, tries, receipt, origin>> /\ Fault
      /\ phase' = [c \in Conn |-> "closed"] /\ txn' = [c \in Conn |-> NoTxn]
      /\ sent' = [c \in Conn |-> 0] /\ accepted' = [c \in Conn |-> << >>] /\ linked' = {}
  BY DEF Crash
<1>2. /\ status' \in [Mail -> Status]
      /\ \A m \in Mail : /\ status'[m] = "acked" => status[m] = "acked"
                         /\ status'[m] = "queued" => tries[m] < MaxTries
  <2>1. \A m \in Mail : (IF status[m] # "sending" THEN status[m]
                         ELSE IF tries[m] < MaxTries THEN "queued" ELSE "bounced") \in Status
    BY Types DEF Status
  <2>2. \A m \in Mail : status[m] = "queued" => tries[m] < MaxTries
    BY DEF IInv, TxnsOK
  <2> QED
    BY <2>1, <2>2, Types DEF Crash
<1>3. netFaults' \in 0 .. MaxFaults
  BY <1>1, SmtpAssumption DEF Fault, IInv, TypeOK
<1>4. 0 \in Nat /\ << >> \in Seq(Addr)
  OBVIOUS
<1>5. TypeOK'
  <2>1. /\ txn' \in [Conn -> Txn \union {NoTxn}] /\ sent' \in [Conn -> Nat]
        /\ accepted' \in [Conn -> Seq(Addr)] /\ phase' \in [Conn -> Phase] /\ linked' \subseteq Conn
    BY <1>1, <1>4 DEF Phase
  <2> QED
    BY <1>1, <1>2, <1>3, <2>1, Types DEF IInv, TypeOK, Phase, Status
<1>6. SessionsOK'
  BY <1>1, Types DEF SessionsOK, SessionOK
<1>7. TxnsOK'
  <2>1. \A m \in Mail : NoTxn # <<m, tries[m]>>
    BY DEF NoTxn
  <2> QED
    BY <1>1, <1>2, <2>1 DEF IInv, TxnsOK
<1>8. RowsOK' /\ Dense' /\ SenderIsKept'
  BY <1>1, <1>2 DEF IInv, RowsOK, RowOK, Dense, SenderIsKept
<1> QED
  BY <1>5, <1>6, <1>7, <1>8 DEF IInv

-----------------------------------------------------------------------------
(***************************************************************************)
(* The loop of Session.Data.                                               *)
(***************************************************************************)
LEMMA CreateStep ==
    ASSUME IInv, NEW c \in Conn, phase[c] = "store", next[c] <= Len(session[c].to), Create(c)
    PROVE  /\ next[c] \in 1 .. Len(accepted[c])
           /\ DOMAIN table' \subseteq Msg /\ table' \in [DOMAIN table' -> Message]
           /\ origin' \in [DOMAIN table' -> Txn]
           /\ \A k \in DOMAIN table' : origin'[k][2] <= tries[origin'[k][1]]
           /\ Dense' /\ SenderIsKept'
           /\ \A u, s : u # txn[c] /\ Holds(table, origin, u, s) => Holds(table', origin', u, s)
           /\ Holds(table', origin', txn[c], SubSeq(accepted[c], 1, next[c]))
<1>1. /\ txn[c] # NoTxn /\ session[c].from = From[txn[c][1]] /\ session[c].to = accepted[c]
      /\ next[c] \in 1 .. Len(accepted[c])
  BY Types DEF IInv, SessionsOK, SessionOK
<1>2. /\ txn[c] \in Txn /\ txn[c][1] \in Mail /\ txn[c][2] <= tries[txn[c][1]]
      /\ From[txn[c][1]] \in Sender
  BY <1>1, TxnType, Types, SmtpAssumption DEF IInv, TxnsOK
<1>3. PICK m \in FreeId :
        /\ table' = Insert(table, m, Row(c))
        /\ origin' = Mark(origin, m, txn[c])
  BY DEF Create, Mark
<1>4. m \in Msg /\ m \in Nat /\ m \notin DOMAIN table /\ DOMAIN table \subseteq Msg
      /\ DOMAIN table \subseteq Nat /\ \A k \in Msg \ DOMAIN table : m <= k
  BY SmtpAssumption DEF FreeId, IInv, TypeOK
<1>5. \A k \in DOMAIN table : k < m
  BY <1>4 DEF IInv, Dense
<1>6. /\ Row(c) \in Message /\ Row(c).from = From[txn[c][1]]
      /\ Row(c).to = accepted[c][next[c]] /\ Row(c).to \in Addr
  <2>1. accepted[c][next[c]] \in Addr
    BY <1>1, Types
  <2> QED
    BY <1>1, <1>2, <2>1 DEF Row, Message
<1>7. DOMAIN origin = DOMAIN table /\ table \in [DOMAIN table -> Message]
  BY DEF IInv, TypeOK
<1>8. /\ DOMAIN table' = DOMAIN table \union {m} /\ table'[m] = Row(c) /\ origin'[m] = txn[c]
      /\ \A k \in DOMAIN table : table'[k] = table[k] /\ origin'[k] = origin[k]
      /\ table' \in [DOMAIN table' -> Message]
      /\ origin' \in [DOMAIN table' -> Txn]
  BY <1>2, <1>3, <1>4, <1>6, <1>7, Types DEF Insert, Mark
<1>9. \A k \in DOMAIN table' : origin'[k][2] <= tries[origin'[k][1]]
  BY <1>2, <1>8 DEF IInv, TxnsOK
<1>10. Dense'
  <2> SUFFICES ASSUME NEW k \in DOMAIN table', NEW j \in Msg, j < k PROVE j \in DOMAIN table'
    BY DEF Dense
  <2>1. CASE k = m
    <3>1. j \in Nat /\ (j \notin DOMAIN table => m <= j)
      BY <1>4, SmtpAssumption
    <3> QED
      BY <1>4, <1>8, <2>1, <3>1
  <2>2. CASE k # m
    BY <1>8, <2>2 DEF IInv, Dense
  <2> QED
    BY <2>1, <2>2
<1>11. SenderIsKept'
  BY <1>6, <1>8 DEF IInv, SenderIsKept
<1>12. ASSUME NEW u, NEW s, u # txn[c], Holds(table, origin, u, s)
       PROVE  Holds(table', origin', u, s)
  BY <1>3, <1>4, <1>7, <1>12, HoldsOther
<1>13. Holds(table', origin', txn[c], SubSeq(accepted[c], 1, next[c]))
  <2> DEFINE s == SubSeq(accepted[c], 1, next[c] - 1)
  <2>1. Holds(table, origin, txn[c], s)
    BY DEF IInv, RowsOK, RowOK
  <2>2. accepted[c] \in Seq(Addr)
    BY Types
  <2>3. s \in Seq(Addr) /\ SubSeq(accepted[c], 1, next[c]) = Append(s, accepted[c][next[c]])
    BY <1>1, <2>2, SubSeqAppend
  <2> HIDE DEF s
  <2>4. Holds(Insert(table, m, Row(c)), Mark(origin, m, txn[c]), txn[c], Append(s, Row(c).to))
    BY <1>4, <1>5, <1>6, <1>7, <2>1, <2>3, HoldsAppend
  <2> QED
    BY <1>3, <1>6, <2>3, <2>4
<1> QED
  BY <1>1, <1>4, <1>8, <1>9, <1>10, <1>11, <1>12, <1>13

\* The rows of the others, whatever becomes of c.
LEMMA OthersInv ==
    ASSUME IInv, NEW c \in Conn, txn[c] # NoTxn,
           UNCHANGED <<txn, accepted, status, tries, receipt>>, RowOK(c)',
           \A d \in Conn \ {c} : phase'[d] = phase[d] /\ next'[d] = next[d],
           \A u, s : u # txn[c] /\ Holds(table, origin, u, s) => Holds(table', origin', u, s),
           \A m \in Mail : status[m] = "acked" => txn[c] # <<m, tries[m]>>
    PROVE  RowsOK'
<1>1. ASSUME NEW d \in Conn \ {c} PROVE RowOK(d)'
  <2>1. RowOK(d) /\ SessionOK(d) /\ (txn[d] # NoTxn => txn[d] # txn[c])
    BY DEF IInv, RowsOK, SessionsOK, TxnsOK
  <2>2. phase[d] \in {"envelope", "store", "failed"} => txn[d] # NoTxn /\ txn[d] # txn[c]
    BY <2>1 DEF SessionOK
  <2>3. /\ phase'[d] = phase[d] /\ next'[d] = next[d]
        /\ txn'[d] = txn[d] /\ accepted'[d] = accepted[d]
    OBVIOUS
  <2> QED
    BY <2>1, <2>2, <2>3 DEF RowOK
<1>2. \A m \in Mail : status'[m] = "acked" => Holds(table', origin', <<m, tries'[m]>>, receipt'[m])
  BY DEF IInv, RowsOK
<1> QED
  BY <1>1, <1>2 DEF RowsOK

LEMMA StoreInv ==
    ASSUME IInv, NEW c \in Conn, Store(c) PROVE IInv'
<1>1. /\ phase[c] = "store" /\ next[c] <= Len(session[c].to) /\ Create(c)
      /\ UNCHANGED <<phase, session, txn, sent, accepted, linked, status, tries, receipt, netFaults>>
  BY DEF Store, client, mails
<1>2. /\ next' \in [Conn -> Nat] /\ next'[c] = next[c] + 1
      /\ \A d \in Conn \ {c} : next'[d] = next[d]
  BY Types DEF Store
<1>3. next[c] \in 1 .. Len(accepted[c]) /\ Len(accepted[c]) \in Nat
  BY <1>1, CreateStep, Types
<1>4. TypeOK'
  <2>1. /\ DOMAIN table' \subseteq Msg /\ table' \in [DOMAIN table' -> Message]
        /\ origin' \in [DOMAIN table' -> Txn]
    BY <1>1, CreateStep
  <2> QED
    BY <1>1, <1>2, <2>1 DEF IInv, TypeOK
<1>5. SessionsOK'
  <2>1. ASSUME NEW d \in Conn PROVE SessionOK(d)'
    <3>1. SessionOK(d) /\ (d # c => next'[d] = next[d]) /\ next'[c] \in 1 .. Len(accepted[c]) + 1
      BY <1>2, <1>3 DEF IInv, SessionsOK
    <3> QED
      BY <1>1, <3>1 DEF SessionOK
  <2> QED
    BY <1>1, <2>1, Types DEF SessionsOK
<1>6. TxnsOK'
  <2>1. \A k \in DOMAIN table' : origin'[k][2] <= tries[origin'[k][1]]
    BY <1>1, CreateStep
  <2> QED
    BY <1>1, <2>1 DEF IInv, TxnsOK
<1>7. RowsOK'
  <2>1. txn[c] # NoTxn /\ \A m \in Mail : status[m] = "acked" => txn[c] # <<m, tries[m]>>
    BY <1>1 DEF IInv, SessionsOK, SessionOK, TxnsOK
  <2>2. Holds(table', origin', txn[c], SubSeq(accepted[c], 1, next'[c] - 1))
    <3>1. next'[c] - 1 = next[c]
      BY <1>2, <1>3
    <3> QED
      BY <1>1, <3>1, CreateStep
  <2>3. RowOK(c)'
    BY <1>1, <2>2 DEF RowOK
  <2>4. \A u, s : u # txn[c] /\ Holds(table, origin, u, s) => Holds(table', origin', u, s)
    BY <1>1, CreateStep
  <2> QED
    BY <1>1, <1>2, <2>1, <2>3, <2>4, OthersInv
<1>8. Dense' /\ SenderIsKept'
  BY <1>1, CreateStep
<1> QED
  BY <1>4, <1>5, <1>6, <1>7, <1>8 DEF IInv

LEMMA StoreFailsInv ==
    ASSUME IInv, NEW c \in Conn, StoreFails(c) PROVE IInv'
<1>1. /\ phase[c] = "store" /\ next[c] <= Len(session[c].to) /\ Fault
      /\ Create(c) \/ UNCHANGED <<table, origin>>
      /\ UNCHANGED <<session, next, txn, sent, accepted, linked, status, tries, receipt>>
  BY DEF StoreFails, client, mails
<1>2. /\ phase' \in [Conn -> Phase] /\ phase'[c] = "failed"
      /\ \A d \in Conn \ {c} : phase'[d] = phase[d]
  BY Types DEF StoreFails, Goto, Phase
<1>3. netFaults' \in 0 .. MaxFaults
  BY <1>1, SmtpAssumption DEF Fault, IInv, TypeOK
<1>4. /\ txn[c] # NoTxn /\ accepted[c] \in Seq(Addr) /\ next[c] \in 1 .. Len(accepted[c])
      /\ \A m \in Mail : status[m] = "acked" => txn[c] # <<m, tries[m]>>
  <2>1. SessionOK(c) /\ accepted[c] \in Seq(Addr) /\ next[c] \in Nat
    BY Types DEF IInv, SessionsOK
  <2>2. txn[c] # NoTxn /\ next[c] \in 1 .. Len(accepted[c])
    BY <1>1, <2>1 DEF SessionOK
  <2> QED
    BY <2>1, <2>2 DEF IInv, TxnsOK
<1>5. /\ DOMAIN table' \subseteq Msg /\ table' \in [DOMAIN table' -> Message]
      /\ origin' \in [DOMAIN table' -> Txn]
      /\ \A k \in DOMAIN table' : origin'[k][2] <= tries[origin'[k][1]]
      /\ Dense' /\ SenderIsKept'
      /\ \A u, s : u # txn[c] /\ Holds(table, origin, u, s) => Holds(table', origin', u, s)
      /\ \E n \in 0 .. Len(accepted[c]) : Holds(table', origin', txn[c], SubSeq(accepted[c], 1, n))
  <2>1. CASE Create(c)
    <3>1. /\ DOMAIN table' \subseteq Msg /\ table' \in [DOMAIN table' -> Message]
          /\ origin' \in [DOMAIN table' -> Txn]
          /\ \A k \in DOMAIN table' : origin'[k][2] <= tries[origin'[k][1]]
          /\ Dense' /\ SenderIsKept'
          /\ \A u, s : u # txn[c] /\ Holds(table, origin, u, s) => Holds(table', origin', u, s)
          /\ Holds(table', origin', txn[c], SubSeq(accepted[c], 1, next[c]))
      BY <1>1, <2>1, CreateStep
    <3>2. next[c] \in 0 .. Len(accepted[c])
      BY <1>4
    <3> QED
      BY <3>1, <3>2
  <2>2. CASE UNCHANGED <<table, origin>>
    <3>1. Holds(table, origin, txn[c], SubSeq(accepted[c], 1, next[c] - 1))
          /\ next[c] - 1 \in 0 .. Len(accepted[c])
      BY <1>1, <1>4 DEF IInv, RowsOK, RowOK
    <3>2. /\ DOMAIN table \subseteq Msg /\ table \in [DOMAIN table -> Message]
          /\ origin \in [DOMAIN table -> Txn]
          /\ \A k \in DOMAIN table : origin[k][2] <= tries[origin[k][1]]
          /\ Dense /\ SenderIsKept
      BY DEF IInv, TypeOK, TxnsOK
    <3> QED
      BY <2>2, <3>1, <3>2 DEF Dense, SenderIsKept
  <2> QED
    BY <1>1, <2>1, <2>2
<1>6. TypeOK'
  BY <1>1, <1>2, <1>3, <1>5 DEF IInv, TypeOK, Phase
<1>7. SessionsOK'
  <2>1. ASSUME NEW d \in Conn PROVE SessionOK(d)'
    <3>1. SessionOK(d)
      BY DEF IInv, SessionsOK
    <3> QED
      BY <1>1, <1>2, <3>1 DEF SessionOK
  <2> QED
    BY <1>1, <2>1, Types DEF SessionsOK
<1>8. TxnsOK'
  BY <1>1, <1>5 DEF IInv, TxnsOK
<1>9. RowsOK'
  <2>1. RowOK(c)'
    BY <1>1, <1>2, <1>5 DEF RowOK
  <2>2. \A d \in Conn \ {c} : phase'[d] = phase[d] /\ next'[d] = next[d]
    BY <1>1, <1>2
  <2> QED
    BY <1>1, <1>4, <1>5, <2>1, <2>2, OthersInv
<1> QED
  BY <1>5, <1>6, <1>7, <1>8, <1>9 DEF IInv

-----------------------------------------------------------------------------
(***************************************************************************)
(* The invariant and what it is for.                                       *)
(***************************************************************************)
LEMMA NextInv == IInv /\ [Next]_vars => IInv'
<1> SUFFICES ASSUME IInv, [Next]_vars PROVE IInv'
  OBVIOUS
<1>1. CASE UNCHANGED vars
  BY <1>1 DEF vars, server, client, mails, IInv, TypeOK, SessionsOK, SessionOK, TxnsOK, Dense,
              RowsOK, RowOK, SenderIsKept
<1>2. CASE Crash
  BY <1>2, CrashInv
<1>3. ASSUME NEW c \in Conn, Connect(c) \/ Quit(c) PROVE IInv'
  BY <1>3, ConnectInv
<1>4. ASSUME NEW c \in Conn, NEW m \in Mail, MailCommand(c, m) PROVE IInv'
  BY <1>4, MailCommandInv
<1>5. ASSUME NEW c \in Conn, Rcpt(c) \/ Data(c) PROVE IInv'
  BY <1>5, RcptInv, DataInv
<1>6. ASSUME NEW c \in Conn, NotAccepted(c) \/ Acknowledge(c) \/ Refuse(c) \/ HangUp(c) PROVE IInv'
  BY <1>6, RepliedInv, HangUpInv
<1>7. ASSUME NEW c \in Conn, Store(c) \/ StoreFails(c) PROVE IInv'
  BY <1>7, StoreInv, StoreFailsInv
<1>8. ASSUME NEW c \in Conn, Lost(c) PROVE IInv'
  BY <1>8, LostEarlyInv, LostLateInv
<1> QED
  BY <1>1, <1>2, <1>3, <1>4, <1>5, <1>6, <1>7, <1>8 DEF Next

LEMMA Invariance == Spec => []IInv
BY InitInv, NextInv, PTL DEF Spec

\* The variables of the SMTP agent have their types in every reachable state.
THEOREM TypeCorrect == Spec => []TypeOK
<1>1. IInv => TypeOK
  BY DEF IInv
<1> QED
  BY <1>1, Invariance, PTL

\* A 250 after DATA means one stored row per accepted recipient, in order and
\* no other, for any mails, sessions, faults and crashes (server.go:84-114).
THEOREM AckedTheorem == Spec => []AckedIsStored
<1>1. IInv => AckedIsStored
  <2> SUFFICES ASSUME IInv, NEW m \in Mail, status[m] = "acked"
               PROVE  Stored(<<m, tries[m]>>) = receipt[m]
    BY DEF AckedIsStored
  <2>1. Holds(table, origin, <<m, tries[m]>>, receipt[m]) /\ receipt[m] \in Seq(Addr)
    BY Types DEF IInv, RowsOK
  <2> QED
    BY <2>1, StoredIs
<1> QED
  BY <1>1, Invariance, PTL

\* A running transaction holds some prefix of the recipients it accepted.
LEMMA PrefixHeld ==
    ASSUME IInv, NEW c \in Conn, txn[c] # NoTxn
    PROVE  \E n \in 0 .. Len(accepted[c]) :
              Holds(table, origin, txn[c], SubSeq(accepted[c], 1, n))
<1>0. accepted[c] \in Seq(Addr) /\ Len(accepted[c]) \in Nat
  BY Types
<1>1. SessionOK(c) /\ RowOK(c) /\ phase[c] \in Phase /\ next[c] \in Nat
  BY Types DEF IInv, SessionsOK, RowsOK
<1>2. phase[c] \in {"envelope", "store", "failed"}
  BY <1>1 DEF SessionOK, Phase
<1>3. CASE phase[c] = "envelope"
  <2>1. SubSeq(accepted[c], 1, 0) = << >>
    BY SubSeqEmpty
  <2>2. 0 \in 0 .. Len(accepted[c])
    BY <1>0
  <2>3. Holds(table, origin, txn[c], SubSeq(accepted[c], 1, 0))
    BY <1>1, <1>3, <2>1 DEF RowOK
  <2> QED
    BY <2>2, <2>3
<1>4. CASE phase[c] = "store"
  <2>1. next[c] - 1 \in 0 .. Len(accepted[c])
    BY <1>0, <1>1, <1>4 DEF SessionOK
  <2> QED
    BY <1>1, <1>4, <2>1 DEF RowOK
<1>5. CASE phase[c] = "failed"
  BY <1>1, <1>5 DEF RowOK
<1> QED
  BY <1>2, <1>3, <1>4, <1>5

\* A running transaction has stored a prefix of what it accepted, whatever
\* failed (server.go:96-111, 117-120).
THEOREM PrefixTheorem == Spec => []StoredIsPrefix
<1>1. IInv => StoredIsPrefix
  <2> SUFFICES ASSUME IInv, NEW c \in Conn, txn[c] # NoTxn
               PROVE  IsPrefix(Stored(txn[c]), accepted[c])
    BY DEF StoredIsPrefix
  <2>1. accepted[c] \in Seq(Addr) /\ Len(accepted[c]) \in Nat
    BY Types
  <2>2. PICK n \in 0 .. Len(accepted[c]) : Holds(table, origin, txn[c], SubSeq(accepted[c], 1, n))
    BY PrefixHeld
  <2> DEFINE s == SubSeq(accepted[c], 1, n)
  <2>3. s \in Seq(Addr) /\ Len(s) = n /\ n \in Nat
    BY <2>1, SubSeqProperties
  <2>4. Stored(txn[c]) = s
    BY <2>2, <2>3, StoredIs
  <2>5. SubSeq(s, 1, Len(s)) = s /\ s = SubSeq(accepted[c], 1, Len(s))
    BY <2>3, SubSeqFull
  <2> HIDE DEF s
  <2> QED
    BY <2>1, <2>3, <2>4, <2>5 DEF IsPrefix
<1> QED
  BY <1>1, Invariance, PTL

\* Every row carries the sender of the mail it was stored for
\* (server.go:57-60, 97-103).
THEOREM SenderTheorem == Spec => []SenderIsKept
<1>1. IInv => SenderIsKept
  BY DEF IInv
<1> QED
  BY <1>1, Invariance, PTL

=============================================================================
