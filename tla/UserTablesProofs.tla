-------------------------- MODULE UserTablesProofs --------------------------
(***************************************************************************)
(* Proofs about accounts, for any users, passwords, browsers and requests  *)
(* in flight and any number of password tokens, and about the list of      *)
(* jobs, for any page size, number of items, requests, jobs and faults.    *)
(***************************************************************************)
EXTENDS UserTables, FiniteSetTheorems, TLAPS

\* What a request in flight works with.
ArgsOK ==
    \A r \in Request :
        /\ stage[r] # "idle" => arg[r].user \in DOMAIN accounts
        /\ stage[r] = "login" => arg[r].browser \in Browser /\ accounts[arg[r].user].verified
        /\ stage[r] = "mail" => arg[r].token \in 1 .. issued
        /\ stage[r] = "update" => arg[r].password \in Password

Arg == [browser : Browser \union {NoUser}, user : User \union {NoUser},
        password : Password \union {NoUser}, token : Nat]

ArgsAreRecords == arg \in [Request -> Arg]

\* A token that was revoked has no row any more.
RevokedAreGone == revoked \intersect DOMAIN tokens = {}

IInv ==
    /\ TypeOK
    /\ ArgsOK
    /\ ArgsAreRecords
    /\ SessionsAreVerified
    /\ RevokedAreGone

LEMMA InitInv == Init => IInv
BY AccountsAssumption DEF Init, IInv, TypeOK, ArgsOK, ArgsAreRecords, SessionsAreVerified, Anonymous,
     RevokedAreGone, NoArg, NoUser, Arg

-----------------------------------------------------------------------------
(***************************************************************************)
(* Steps that leave the tables alone.                                      *)
(***************************************************************************)
LEMMA SameTables ==
    ASSUME IInv, UNCHANGED <<accounts, tokens, issued, owner, revoked>>,
           (outdated \union linked \union revoked)' \subseteq 1 .. issued,
           verifyMail' \union unsent' \subseteq DOMAIN accounts,
           cookie' \in [Browser -> User \union {NoUser}], SessionsAreVerified',
           stage' \in [Request -> {"idle", "login", "mail", "update", "delete"}],
           ArgsAreRecords', ArgsOK'
    PROVE  IInv'
BY DEF IInv, TypeOK, RevokedAreGone, ArgsOK

\* The requests of a step that begins, continues or ends one.
LEMMA BeginStep ==
    ASSUME IInv, NEW r \in Request, NEW s \in {"login", "mail", "update", "delete"}, NEW a, Begin(r, s, a)
    PROVE  /\ stage' \in [Request -> {"idle", "login", "mail", "update", "delete"}]
           /\ \A q \in Request : IF q = r THEN stage[q] = "idle" /\ stage'[q] = s /\ arg'[q] = a
                                 ELSE stage'[q] = stage[q] /\ arg'[q] = arg[q]
           /\ a \in Arg => ArgsAreRecords'
BY DEF IInv, TypeOK, ArgsAreRecords, Begin

LEMMA EndStep ==
    ASSUME IInv, NEW r \in Request, End(r)
    PROVE  /\ stage' \in [Request -> {"idle", "login", "mail", "update", "delete"}]
           /\ \A q \in Request : IF q = r THEN stage'[q] = "idle"
                                 ELSE stage'[q] = stage[q] /\ arg'[q] = arg[q]
           /\ ArgsAreRecords'
BY DEF IInv, TypeOK, ArgsAreRecords, End, NoArg, Arg

LEMMA RegisterInv ==
    ASSUME IInv, NEW b \in Browser, NEW u \in User, NEW pw \in Password, Register(b, u, pw)
    PROVE  IInv'
<1>1. /\ DOMAIN accounts' = DOMAIN accounts \union {u}
      /\ accounts'[u] = [password |-> pw, verified |-> FALSE]
      /\ \A v \in DOMAIN accounts : accounts'[v] = accounts[v]
  BY DEF Register
<1>2. accounts' \in [DOMAIN accounts' -> [password : Password, verified : BOOLEAN]]
  BY DEF Register, IInv, TypeOK
<1>3. TypeOK'
  BY <1>1, <1>2 DEF Register, requests, IInv, TypeOK
<1>4. ArgsOK' /\ ArgsAreRecords'
  BY <1>1 DEF Register, requests, IInv, ArgsOK, ArgsAreRecords
<1>5. SessionsAreVerified' /\ RevokedAreGone'
  BY <1>1 DEF Register, IInv, TypeOK, SessionsAreVerified, RevokedAreGone, Anonymous
<1> QED
  BY <1>3, <1>4, <1>5 DEF IInv

LEMMA MailInv ==
    ASSUME IInv, NEW u \in User,
           MailAfterRegister(u) \/ LinkExpires(u) \/ \E b \in Browser : LoginUnverified(b, u)
    PROVE  IInv'
<1>1. u \in DOMAIN accounts
  BY DEF MailAfterRegister, LinkExpires, LoginUnverified, IInv, TypeOK
<1>2. verifyMail' \union unsent' \subseteq DOMAIN accounts
  BY <1>1 DEF MailAfterRegister, LinkExpires, LoginUnverified, SendVerificationEmail, Send, IInv, TypeOK
<1>3. UNCHANGED <<accounts, tokens, issued, owner, outdated, linked, cookie, stage, arg, revoked>>
  BY DEF MailAfterRegister, LinkExpires, LoginUnverified, tables, requests
<1> QED
  BY <1>2, <1>3, SameTables DEF IInv, TypeOK, ArgsOK, ArgsAreRecords, SessionsAreVerified, Anonymous

LEMMA LoginInv ==
    ASSUME IInv, NEW r \in Request, NEW b \in Browser, NEW u \in User, NEW pw \in Password, Login(r, b, u, pw)
    PROVE  IInv'
<1> DEFINE a == [NoArg EXCEPT !.browser = b, !.user = u]
<1>1. a.browser = b /\ a.user = u
      /\ a \in Arg
  BY DEF NoArg, Arg
<1>2. Begin(r, "login", a)
  BY DEF Login
<1> HIDE DEF a
<1>3. UNCHANGED <<accounts, tokens, issued, owner, outdated, linked, verifyMail, unsent, cookie, revoked>>
  BY DEF Login, tables, mails
<1>4. ArgsOK'
  BY <1>1, <1>2, <1>3, BeginStep DEF Login, IInv, ArgsOK
<1> QED
  BY <1>1, <1>2, <1>3, <1>4, BeginStep, SameTables DEF IInv, TypeOK, SessionsAreVerified, Anonymous

LEMMA EndInv ==
    ASSUME IInv, NEW r \in Request, LoggedIn(r) \/ MailLink(r) \/ LoginFails(r) \/ ResetFails(r)
    PROVE  IInv'
<1>1. End(r)
  BY DEF LoggedIn, MailLink, LoginFails, ResetFails
<1>2. UNCHANGED <<accounts, tokens, issued, owner, outdated, verifyMail, unsent, revoked>>
  BY DEF LoggedIn, MailLink, LoginFails, ResetFails, tables, mails
<1>3. ArgsOK'
  BY <1>1, <1>2, EndStep DEF IInv, ArgsOK
<1>4. (outdated \union linked \union revoked)' \subseteq 1 .. issued
  BY <1>2 DEF LoggedIn, MailLink, LoginFails, ResetFails, Send, mails, IInv, TypeOK, ArgsOK
<1>5. cookie' \in [Browser -> User \union {NoUser}] /\ SessionsAreVerified'
  BY <1>2 DEF LoggedIn, MailLink, LoginFails, ResetFails, IInv, TypeOK, ArgsOK, SessionsAreVerified, Anonymous
<1> QED
  BY <1>1, <1>2, <1>3, <1>4, <1>5, EndStep, SameTables DEF IInv, TypeOK

LEMMA OutsideInv ==
    ASSUME IInv, (\E b \in Browser : Logout(b)) \/ \E id \in Id : TokenExpires(id)
    PROVE  IInv'
<1>1. UNCHANGED <<accounts, tokens, issued, owner, linked, verifyMail, unsent, stage, arg, revoked>>
  BY DEF Logout, TokenExpires, tables, mails, requests
<1>2. outdated' \subseteq 1 .. issued
  BY DEF Logout, TokenExpires, IInv, TypeOK
<1>3. cookie' \in [Browser -> User \union {NoUser}] /\ SessionsAreVerified'
  BY <1>1 DEF Logout, TokenExpires, IInv, TypeOK, SessionsAreVerified, Anonymous
<1> QED
  BY <1>1, <1>2, <1>3, SameTables DEF IInv, TypeOK, ArgsOK, ArgsAreRecords

LEMMA VerifyInv ==
    ASSUME IInv, NEW u \in User, VerifyEmail(u)
    PROVE  IInv'
<1>1. u \in DOMAIN accounts
  BY DEF VerifyEmail, IInv, TypeOK
<1>2. /\ accounts' \in [DOMAIN accounts -> [password : Password, verified : BOOLEAN]]
      /\ accounts'[u].verified
      /\ \A v \in DOMAIN accounts : accounts[v].verified => accounts'[v].verified
  BY <1>1 DEF VerifyEmail, IInv, TypeOK
<1>3. TypeOK'
  BY <1>1, <1>2 DEF VerifyEmail, mails, requests, IInv, TypeOK
<1>4. ArgsOK' /\ ArgsAreRecords'
  BY <1>2 DEF VerifyEmail, requests, IInv, ArgsOK, ArgsAreRecords
<1>5. SessionsAreVerified' /\ RevokedAreGone'
  BY <1>1, <1>2 DEF VerifyEmail, IInv, TypeOK, SessionsAreVerified, RevokedAreGone, Anonymous
<1> QED
  BY <1>3, <1>4, <1>5 DEF IInv

LEMMA ForgotInv ==
    ASSUME IInv, NEW r \in Request, NEW b \in Browser, NEW u \in User, ForgotPassword(r, b, u)
    PROVE  IInv'
<1> DEFINE a == [NoArg EXCEPT !.browser = b, !.user = u, !.token = issued + 1]
<1>0. issued \in Nat /\ issued' = issued + 1 /\ issued' \in 0 .. MaxTokens
  BY AccountsAssumption DEF ForgotPassword, IInv, TypeOK
<1>1. a.user = u /\ a.token = issued' /\ a \in Arg
  <2>1. issued + 1 \in Nat /\ issued' = issued + 1
    BY <1>0
  <2> DEFINE id == issued + 1
  <2>2. id \in Nat /\ a = [NoArg EXCEPT !.browser = b, !.user = u, !.token = id]
    BY <2>1
  <2> HIDE DEF id, a
  <2>3. a.user = u /\ a.token = id /\ a \in Arg
    BY <2>2 DEF NoArg, Arg
  <2> QED
    BY <2>1, <2>3 DEF id
<1>2. Begin(r, "mail", a)
  BY <1>0 DEF ForgotPassword
<1> HIDE DEF a
<1>3. 1 .. issued \subseteq 1 .. issued' /\ issued' \in 1 .. issued' /\ issued' \notin 1 .. issued
  BY <1>0
<1>4. /\ DOMAIN tokens' = DOMAIN tokens \union {issued'} /\ tokens'[issued'] = u
      /\ \A id \in DOMAIN tokens : id # issued' /\ tokens'[id] = tokens[id]
      /\ owner' \in [1 .. issued' -> DOMAIN accounts] /\ owner'[issued'] = u
      /\ \A id \in 1 .. issued : owner'[id] = owner[id]
  BY <1>0, <1>3 DEF ForgotPassword, IInv, TypeOK
<1>5. TypeOK'
  <2>1. /\ DOMAIN tokens' \subseteq 1 .. issued'
        /\ \A id \in DOMAIN tokens' : tokens'[id] = owner'[id]
    BY <1>3, <1>4 DEF IInv, TypeOK
  <2>2. \A q \in Request : stage'[q] # "idle" => arg'[q].user \in DOMAIN accounts
    BY <1>1, <1>2, BeginStep DEF ForgotPassword, IInv, TypeOK
  <2>3. stage' \in [Request -> {"idle", "login", "mail", "update", "delete"}]
    BY <1>2, BeginStep
  <2>4. (outdated \union linked \union revoked)' \subseteq 1 .. issued'
    BY <1>3 DEF ForgotPassword, mails, IInv, TypeOK
  <2> QED
    BY <1>0, <1>4, <2>1, <2>2, <2>3, <2>4 DEF ForgotPassword, mails, IInv, TypeOK
<1>6. ArgsOK' /\ ArgsAreRecords'
  BY <1>1, <1>2, <1>3, BeginStep DEF ForgotPassword, IInv, ArgsOK
<1>7. SessionsAreVerified' /\ RevokedAreGone'
  BY <1>3, <1>4 DEF ForgotPassword, IInv, TypeOK, SessionsAreVerified, RevokedAreGone, Anonymous
<1> QED
  BY <1>5, <1>6, <1>7 DEF IInv

LEMMA ResetInv ==
    ASSUME IInv, NEW r \in Request, NEW b \in Browser, NEW id \in Id, NEW pw \in Password, ResetPassword(r, b, id, pw)
    PROVE  IInv'
<1> DEFINE a == [browser |-> b, user |-> owner[id], password |-> pw, token |-> id]
<1>1. id \in 1 .. issued /\ owner[id] \in DOMAIN accounts /\ owner[id] \in User /\ id \in Nat
  BY DEF ResetPassword, IInv, TypeOK
<1>2. a.user = owner[id] /\ a.password = pw
      /\ a \in Arg
  BY <1>1 DEF Arg
<1>3. Begin(r, "update", a)
  BY DEF ResetPassword
<1> HIDE DEF a
<1>4. UNCHANGED <<accounts, tokens, issued, owner, outdated, linked, verifyMail, unsent, cookie, revoked>>
  BY DEF ResetPassword, tables, mails
<1>5. ArgsOK'
  BY <1>1, <1>2, <1>3, <1>4, BeginStep DEF IInv, ArgsOK
<1> QED
  BY <1>2, <1>3, <1>4, <1>5, BeginStep, SameTables DEF IInv, TypeOK, SessionsAreVerified, Anonymous

LEMMA UpdateInv ==
    ASSUME IInv, NEW r \in Request, UpdatePassword(r)
    PROVE  IInv'
<1>1. arg[r].user \in DOMAIN accounts /\ arg[r].password \in Password
  BY DEF UpdatePassword, IInv, ArgsOK
<1>2. /\ accounts' \in [DOMAIN accounts -> [password : Password, verified : BOOLEAN]]
      /\ \A v \in DOMAIN accounts : accounts[v].verified = accounts'[v].verified
  BY <1>1 DEF UpdatePassword, IInv, TypeOK
<1>3. TypeOK'
  BY <1>1, <1>2 DEF UpdatePassword, Goto, mails, IInv, TypeOK
<1>4. ArgsOK' /\ ArgsAreRecords'
  BY <1>2 DEF UpdatePassword, Goto, IInv, TypeOK, ArgsOK, ArgsAreRecords
<1>5. SessionsAreVerified' /\ RevokedAreGone'
  BY <1>2 DEF UpdatePassword, IInv, TypeOK, SessionsAreVerified, RevokedAreGone, Anonymous
<1> QED
  BY <1>3, <1>4, <1>5 DEF IInv

LEMMA DeleteInv ==
    ASSUME IInv, NEW r \in Request, DeletePasswordTokens(r)
    PROVE  IInv'
<1>1. DOMAIN tokens' = {i \in DOMAIN tokens : tokens[i] # arg[r].user}
      /\ \A i \in DOMAIN tokens' : tokens'[i] = tokens[i]
  BY DEF DeletePasswordTokens, Kept
<1>2. End(r) /\ UNCHANGED <<accounts, issued, owner, outdated, linked, verifyMail, unsent, cookie>>
  BY DEF DeletePasswordTokens, mails
<1>3. revoked' = revoked \union OfUser(arg[r].user)
  BY DEF DeletePasswordTokens
<1>4. TypeOK'
  BY <1>1, <1>2, <1>3, EndStep DEF OfUser, IInv, TypeOK
<1>5. ArgsOK' /\ ArgsAreRecords'
  BY <1>2, EndStep DEF IInv, ArgsOK
<1>6. RevokedAreGone'
  BY <1>1, <1>3 DEF OfUser, IInv, TypeOK, RevokedAreGone
<1>7. SessionsAreVerified'
  BY <1>2 DEF IInv, SessionsAreVerified, Anonymous
<1> QED
  BY <1>4, <1>5, <1>6, <1>7 DEF IInv

LEMMA NextInv == IInv /\ [Next]_vars => IInv'
<1> SUFFICES ASSUME IInv, [Next]_vars PROVE IInv'
  OBVIOUS
<1>1. CASE UNCHANGED vars
  BY <1>1 DEF vars, tables, mails, requests, IInv, TypeOK, ArgsOK, ArgsAreRecords, SessionsAreVerified,
              Anonymous, RevokedAreGone
<1> QED
  BY <1>1, RegisterInv, MailInv, LoginInv, EndInv, OutsideInv, VerifyInv, ForgotInv, ResetInv,
     UpdateInv, DeleteInv DEF Next

LEMMA Invariance == Spec => []IInv
<1>1. Init => IInv
  BY InitInv
<1>2. IInv /\ [Next]_vars => IInv'
  BY NextInv
<1> QED
  BY <1>1, <1>2, PTL DEF Spec

-----------------------------------------------------------------------------

(***************************************************************************)
(* The tables, mails, cookies and requests keep their types, and every     *)
(* token row belongs to the user it was issued to (auth.go, models.go).    *)
(***************************************************************************)
THEOREM TypeCorrect == Spec => []TypeOK
<1>1. IInv => TypeOK
  BY DEF IInv
<1> QED
  BY <1>1, Invariance, PTL

(***************************************************************************)
(* However requests overlap, a browser is logged in only to an account     *)
(* whose address has been verified (auth.go:221-236).                      *)
(***************************************************************************)
THEOREM SessionsTheorem == Spec => []SessionsAreVerified
<1>1. IInv => SessionsAreVerified
  BY DEF IInv
<1> QED
  BY <1>1, Invariance, PTL

(***************************************************************************)
(* No link given out before a reset of its user's password succeeded       *)
(* starts another one (services/auth.go:183-191).                          *)
(***************************************************************************)
THEOREM RevokedTheorem == Spec => RevokedLinksAreDead
<1> DEFINE Dead == \A r \in Request :
                      stage[r] = "idle" /\ stage'[r] = "update" => arg'[r].token \notin revoked
<1>1. IInv /\ [Next]_vars => [Dead]_vars
  <2> SUFFICES ASSUME IInv, Next, NEW r \in Request, stage[r] = "idle", stage'[r] = "update"
               PROVE  arg'[r].token \notin revoked
    OBVIOUS
  <2>1. PICK q \in Request, b \in Browser, id \in Id, pw \in Password : ResetPassword(q, b, id, pw)
    <3>1. stage \in [Request -> {"idle", "login", "mail", "update", "delete"}]
      BY DEF IInv, TypeOK
    <3> QED
      BY <3>1 DEF Next, Register, Login, LoginUnverified, VerifyEmail, ForgotPassword, Logout,
           MailAfterRegister, LinkExpires, LoggedIn, MailLink, UpdatePassword, DeletePasswordTokens,
           LoginFails, ResetFails, TokenExpires, Begin, Goto, End, requests
  <2>2. q = r /\ arg'[r].token = id
    BY <2>1 DEF ResetPassword, Begin, IInv, TypeOK, ArgsAreRecords
  <2> QED
    BY <2>1, <2>2 DEF ResetPassword, GetValidPasswordToken, IInv, RevokedAreGone
<1> QED
  BY <1>1, Invariance, PTL DEF Spec, RevokedLinksAreDead

-----------------------------------------------------------------------------
(***************************************************************************)
(* The list of jobs, for any page size, number of items and bounds.        *)
(***************************************************************************)
LEMMA ListAssumed == PerPage \in Nat /\ PerPage > 0 /\ Told \in Nat /\ MaxJobs \in Nat /\ MaxFaults \in Nat
BY ListAssumption DEF List!ListingAssumption

\* The pager's number of pages.
Pages == (Told + PerPage - 1) \div PerPage

LEMMA PagesFit ==
    /\ Pages \in Nat /\ Pages <= Told \div PerPage + 1 /\ Told \div PerPage \in Nat
    /\ Told <= Pages * PerPage
    /\ (Pages = 0 <=> Told = 0)
<1>1. \A a \in Nat : a \div PerPage \in Nat /\ (a \div PerPage) * PerPage <= a /\ a < (a \div PerPage) * PerPage + PerPage
  BY ListAssumed
<1> QED
  BY <1>1, ListAssumed DEF Pages

\* Pages do not overlap.
LEMMA PageWidth ==
    /\ \A i \in Nat : i * PerPage \in Nat /\ (i + 1) * PerPage = i * PerPage + PerPage
    /\ \A i, k \in Nat : i < k => i * PerPage + PerPage <= k * PerPage
<1>1. \A i \in Nat : i * PerPage \in Nat /\ (i + 1) * PerPage = i * PerPage + PerPage
  BY ListAssumed
<1>2. \A i, k \in Nat : i < k => i * PerPage + PerPage <= k * PerPage
  BY ListAssumed
<1> QED
  BY <1>1, <1>2

\* The page Home shows, and where its query starts.
LEMMA HomePage ==
    ASSUME NEW n \in Nat
    PROVE  LET p == List!HomePager(n)
               page == IF n = 0 THEN 1 ELSE n
           IN  /\ p.Page = IF page > Pages THEN Pages ELSE page
               /\ p.Pages = Pages /\ p.ItemsPerPage = PerPage
               /\ p.Page \in Nat /\ p.Page \in List!Params
               /\ List!GetOffset(p) = ((IF p.Page = 0 THEN 1 ELSE p.Page) - 1) * PerPage
               /\ List!IsEnd(p) <=> p.Page >= Pages
<1> DEFINE p == List!HomePager(n)
           page == IF n = 0 THEN 1 ELSE n
<1>1. /\ p.Page = (IF page > Pages THEN Pages ELSE page)
      /\ p.Pages = Pages /\ p.ItemsPerPage = PerPage
  BY DEF List!HomePager, List!SetItems, List!NewPager, Pages
<1>2. p.Page \in Nat /\ p.Page <= Pages
  BY <1>1, PagesFit
<1>3. p.Page \in List!Params
  BY <1>2, PagesFit DEF List!Params
<1> QED
  BY <1>1, <1>2, <1>3 DEF List!GetOffset, List!IsEnd

-----------------------------------------------------------------------------
(***************************************************************************)
(* Where a row stands.                                                     *)
(***************************************************************************)
LEMMA SameCount == \A S : List!Cardinality(S) = Cardinality(S)
BY DEF List!Cardinality, Cardinality

LEMMA NewerCounts == \A S, j : List!Newer(S, j) = Cardinality({k \in S : k > j})
BY SameCount DEF List!Newer

LEMMA NewerIsNat ==
    ASSUME NEW S, IsFiniteSet(S), NEW j
    PROVE  List!Newer(S, j) \in Nat /\ List!Newer(S, j) <= Cardinality(S)
<1>1. {k \in S : k > j} \in SUBSET S
  OBVIOUS
<1> QED
  BY <1>1, FS_Subset, FS_CardinalityType, NewerCounts

\* An older row stands further back.
LEMMA NewerFalls ==
    ASSUME NEW S \in SUBSET Nat, IsFiniteSet(S), NEW j \in Nat, NEW k \in S, j < k
    PROVE  List!Newer(S, k) < List!Newer(S, j)
<1> DEFINE A == {i \in S : i > k}
           B == {i \in S : i > j}
<1>1. IsFiniteSet(A) /\ IsFiniteSet(B)
  BY FS_Subset
<1>2. k \notin A /\ A \union {k} \in SUBSET B
  <2>1. k \in Nat /\ \A i \in S : i \in Nat
    OBVIOUS
  <2>2. \A i \in A : i \in B
    BY <2>1
  <2>3. k \notin A /\ k \in B
    BY <2>1
  <2> HIDE DEF A, B
  <2> QED
    BY <2>2, <2>3
<1>3. Cardinality(A \union {k}) = Cardinality(A) + 1 /\ IsFiniteSet(A \union {k})
  BY <1>1, <1>2, FS_AddElement
<1>4. Cardinality(A \union {k}) <= Cardinality(B)
  BY <1>1, <1>2, FS_Subset
<1>5. Cardinality(A) \in Nat /\ Cardinality(B) \in Nat
  BY <1>1, FS_CardinalityType
<1>6. List!Newer(S, k) = Cardinality(A) /\ List!Newer(S, j) = Cardinality(B)
  BY NewerCounts
<1> QED
  BY <1>3, <1>4, <1>5, <1>6

\* No two rows stand in the same place.
LEMMA NewerDiffers ==
    ASSUME NEW S \in SUBSET Nat, IsFiniteSet(S), NEW j \in S, NEW k \in S,
           List!Newer(S, j) = List!Newer(S, k)
    PROVE  j = k
<1>1. CASE j < k
  BY <1>1, NewerFalls, NewerIsNat
<1>2. CASE k < j
  BY <1>2, NewerFalls, NewerIsNat
<1> QED
  BY <1>1, <1>2

\* A new row moves the older ones back by one.
LEMMA NewerAdded ==
    ASSUME NEW S \in SUBSET Nat, IsFiniteSet(S), NEW x \in Nat, x \notin S, NEW j \in Nat
    PROVE  List!Newer(S \union {x}, j) = List!Newer(S, j) + (IF x > j THEN 1 ELSE 0)
<1> DEFINE A == {i \in S : i > j}
<1>1. IsFiniteSet(A) /\ x \notin A
  BY FS_Subset
<1>2. Cardinality(A) \in Nat
  BY <1>1, FS_CardinalityType
<1>3. CASE x > j
  <2>1. {i \in S \union {x} : i > j} = A \union {x}
    BY <1>3
  <2>2. Cardinality(A \union {x}) = Cardinality(A) + 1
    BY <1>1, FS_AddElement
  <2> QED
    BY <1>2, <1>3, <2>1, <2>2, NewerCounts
<1>4. CASE ~(x > j)
  <2>1. {i \in S \union {x} : i > j} = A
    BY <1>4
  <2> QED
    BY <1>2, <1>4, <2>1, NewerCounts
<1> QED
  BY <1>3, <1>4

\* At most one row stands in any one place, and at most n in n places.
LEMMA OneStands ==
    ASSUME NEW S \in SUBSET Nat, IsFiniteSet(S), NEW n, NEW R \in SUBSET S,
           \A j \in R : List!Newer(S, j) = n
    PROVE  IsFiniteSet(R) /\ Cardinality(R) <= 1
<1>1. IsFiniteSet(R)
  BY FS_Subset
<1>2. CASE R = {}
  BY <1>2, FS_EmptySet
<1>3. CASE R # {}
  <2>1. PICK j \in R : TRUE
    BY <1>3
  <2>2. \A k \in R : k = j
    BY <2>1, NewerDiffers
  <2>3. R = {j}
    BY <2>2
  <2> QED
    BY <1>1, <2>3, FS_Singleton
<1> QED
  BY <1>1, <1>2, <1>3

LEMMA WindowHolds ==
    ASSUME NEW S \in SUBSET Nat, IsFiniteSet(S), NEW n \in Nat, NEW R \in SUBSET S,
           \A j \in R : n <= List!Newer(S, j) /\ List!Newer(S, j) < n + PerPage
    PROVE  IsFiniteSet(R) /\ Cardinality(R) <= PerPage
<1> DEFINE T == n .. n + PerPage - 1
           f == [j \in R |-> List!Newer(S, j)]
<1>1. IsFiniteSet(T) /\ Cardinality(T) = PerPage
  BY ListAssumed, FS_Interval
<1>2. \A j \in R : List!Newer(S, j) \in T
  BY ListAssumed, NewerIsNat
<1>3. f \in [R -> T]
  BY <1>2
<1>4. \A j, k \in R : f[j] = f[k] => j = k
  BY NewerDiffers
<1>5. f \in Injection(R, T)
  BY <1>3, <1>4 DEF Injection, IsInjective
<1> HIDE DEF f, T
<1> QED
  BY <1>1, <1>5, FS_Injection

LEMMA UnionBound ==
    ASSUME NEW S, NEW T, IsFiniteSet(S), IsFiniteSet(T)
    PROVE  IsFiniteSet(S \union T) /\ Cardinality(S \union T) <= Cardinality(S) + Cardinality(T)
<1>1. IsFiniteSet(S \intersect T)
  BY FS_Subset
<1>2. Cardinality(S) \in Nat /\ Cardinality(T) \in Nat /\ Cardinality(S \intersect T) \in Nat
  BY <1>1, FS_CardinalityType
<1>3. /\ IsFiniteSet(S \union T)
      /\ Cardinality(S \union T) = Cardinality(S) + Cardinality(T) - Cardinality(S \intersect T)
  BY FS_Union
<1> QED
  BY <1>2, <1>3

-----------------------------------------------------------------------------

\* A job is asked for by one request only, and stored by no other.
AddsOK ==
    /\ \A r \in Request : step[r] = "insert" =>
          asked[r].kind = "add" /\ asked[r].job \notin jobs \union gone
    /\ \A r \in Request : asked[r].kind = "add" => asked[r].job \in 1 .. clock
    /\ \A r, q \in Request :
          asked[r].kind = "add" /\ asked[q].kind = "add" /\ asked[r].job = asked[q].job => r = q

\* The reader knows nothing that is not, or was not, in the table.
WalkKnown ==
    /\ walk.gone \subseteq gone /\ walk.from \union walk.seen \subseteq jobs \union gone
    /\ walk.failed <= faults

\* How many rows the pages read so far have room for.
Covered == (IF walk.page = 0 THEN 1 ELSE walk.page) * PerPage

\* Jobs the reader will not meet on a later page, were nothing to change.
PassedOver ==
    {j \in (walk.from \intersect jobs) \ walk.seen :
        List!Newer(jobs, j) < Covered \/ \E k \in walk.seen : k < j}

\* Jobs seen that the reader will meet again on a later page.
Ahead == {j \in jobs \intersect walk.seen : List!Newer(jobs, j) >= Covered}

FewPassedOver == Cardinality(PassedOver) <= Cardinality(gone \ walk.gone) + PerPage * walk.failed

FewAgain == walk.repeats + Cardinality(Ahead) <= Cardinality(jobs \union gone) - walk.top

WalkOK == WalkKnown /\ FewPassedOver /\ FewAgain

ListInv == List!TypeOK /\ AddsOK /\ FreshJobIsListed /\ WalkOK

\* Rows are finitely many.
LEMMA RowsFinite ==
    ASSUME List!TypeOK
    PROVE  /\ clock \in Nat /\ clock <= MaxJobs /\ jobs \in SUBSET Nat /\ gone \in SUBSET Nat
           /\ jobs \union gone \subseteq 1 .. clock /\ jobs \intersect gone = {}
           /\ IsFiniteSet(jobs) /\ IsFiniteSet(gone) /\ IsFiniteSet(jobs \union gone)
           /\ Cardinality(jobs \union gone) \in Nat /\ Cardinality(jobs \union gone) <= clock
<1>1. /\ clock \in Nat /\ clock <= MaxJobs /\ jobs \in SUBSET Nat /\ gone \in SUBSET Nat
      /\ jobs \union gone \subseteq 1 .. clock /\ jobs \intersect gone = {}
  BY ListAssumed DEF List!TypeOK
<1>2. IsFiniteSet(1 .. clock) /\ Cardinality(1 .. clock) = clock
  BY <1>1, FS_Interval
<1>3. jobs \in SUBSET (1 .. clock) /\ gone \in SUBSET (1 .. clock) /\ jobs \union gone \in SUBSET (1 .. clock)
  BY <1>1
<1>4. /\ IsFiniteSet(jobs) /\ IsFiniteSet(gone) /\ IsFiniteSet(jobs \union gone)
      /\ Cardinality(jobs \union gone) <= clock
  BY <1>2, <1>3, FS_Subset
<1> QED
  BY <1>1, <1>4, FS_CardinalityType

LEMMA WalkTypes ==
    ASSUME List!TypeOK
    PROVE  /\ walk.page \in Nat /\ walk.from \subseteq List!Job /\ walk.gone \subseteq List!Job
           /\ walk.seen \subseteq List!Job /\ walk.top \in Nat /\ walk.repeats \in Nat
           /\ walk.failed \in Nat /\ Covered \in Nat
<1>1. /\ walk.page \in Nat /\ walk.from \subseteq List!Job /\ walk.gone \subseteq List!Job
      /\ walk.seen \subseteq List!Job /\ walk.top \in Nat /\ walk.repeats \in Nat
      /\ walk.failed \in Nat
  BY DEF List!TypeOK, List!Params
<1> QED
  BY <1>1, PageWidth DEF Covered

\* The two sets and what they are compared with are finite.
LEMMA WalkFinite ==
    ASSUME List!TypeOK
    PROVE  /\ PassedOver \in SUBSET jobs /\ Ahead \in SUBSET jobs /\ gone \ walk.gone \in SUBSET gone
           /\ IsFiniteSet(PassedOver) /\ IsFiniteSet(Ahead) /\ IsFiniteSet(gone \ walk.gone)
           /\ Cardinality(PassedOver) \in Nat /\ Cardinality(Ahead) \in Nat
           /\ Cardinality(gone \ walk.gone) \in Nat /\ PerPage * walk.failed \in Nat
<1>1. PassedOver \in SUBSET jobs /\ Ahead \in SUBSET jobs /\ gone \ walk.gone \in SUBSET gone
  BY DEF PassedOver, Ahead
<1>2. IsFiniteSet(PassedOver) /\ IsFiniteSet(Ahead) /\ IsFiniteSet(gone \ walk.gone)
  BY <1>1, RowsFinite, FS_Subset
<1>3. PerPage * walk.failed \in Nat
  BY ListAssumed, WalkTypes
<1> QED
  BY <1>1, <1>2, <1>3, FS_CardinalityType

LEMMA ListInit == List!Init => ListInv
<1> SUFFICES ASSUME List!Init PROVE ListInv
  OBVIOUS
<1> USE DEF List!Init
<1>1. walk = [page |-> 0, from |-> {}, gone |-> {}, top |-> 0, seen |-> {}, repeats |-> 0, failed |-> 0]
  BY DEF List!NoWalk
<1>2. walk \in [page : List!Params, from : SUBSET List!Job, gone : SUBSET List!Job, top : 0 .. MaxJobs,
                 seen : SUBSET List!Job, repeats : 0 .. MaxJobs * MaxJobs, failed : 0 .. MaxFaults]
  <2>1. 0 \in List!Params
    BY PagesFit DEF List!Params
  <2>2. 0 \in 0 .. MaxJobs /\ 0 \in 0 .. MaxFaults /\ 0 \in 0 .. MaxJobs * MaxJobs
    BY ListAssumed
  <2> QED
    BY <1>1, <2>1, <2>2
<1>3. List!TypeOK
  <2>1. list \in [Request -> [page : List!Params, rows : SUBSET List!Job, failed : BOOLEAN]]
    BY PagesFit DEF List!NoView, List!Params
  <2>2. asked \in [Request -> [kind : {"none", "home", "add", "delete"}, job : 0 .. MaxJobs]]
    BY ListAssumed DEF List!NoReq
  <2> QED
    BY <1>2, <2>1, <2>2, ListAssumed DEF List!TypeOK
<1>4. AddsOK /\ FreshJobIsListed
  BY DEF AddsOK, FreshJobIsListed, List!FreshJobIsListed, List!NoReq
<1>5. WalkKnown
  BY <1>1, ListAssumed DEF WalkKnown
<1>6. PassedOver = {} /\ Ahead = {}
  BY <1>1 DEF PassedOver, Ahead
<1>7. Cardinality(PassedOver) = 0 /\ Cardinality(Ahead) = 0
  BY <1>6, FS_EmptySet
<1>8. Cardinality(gone \ walk.gone) \in Nat /\ Cardinality(jobs \union gone) \in Nat
  BY <1>3, RowsFinite, WalkFinite
<1>9. FewPassedOver /\ FewAgain
  BY <1>1, <1>7, <1>8, ListAssumed DEF FewPassedOver, FewAgain
<1> QED
  BY <1>3, <1>4, <1>5, <1>9 DEF ListInv, WalkOK

LEMMA PagesFollow == List!TypeOK => PagesPartition
<1> SUFFICES ASSUME List!TypeOK PROVE PagesPartition
  OBVIOUS
<1> DEFINE On(j) == {k \in 1 .. Pages : (k - 1) * PerPage <= List!Newer(jobs, j)
                                       /\ List!Newer(jobs, j) < k * PerPage}
<1>1. \A k \in 1 .. Pages : \A j \in jobs :
        j \in List!Select(jobs, List!HomePager(k)) <=> k \in On(j)
  <2> SUFFICES ASSUME NEW k \in 1 .. Pages, NEW j \in jobs
               PROVE  j \in List!Select(jobs, List!HomePager(k)) <=> k \in On(j)
    OBVIOUS
  <2>1. k \in Nat /\ k > 0 /\ ~(k > Pages)
    BY PagesFit
  <2>2. /\ List!HomePager(k).Page = k /\ List!HomePager(k).ItemsPerPage = PerPage
        /\ List!GetOffset(List!HomePager(k)) = (k - 1) * PerPage
    BY <2>1, HomePage
  <2>3. (k - 1) * PerPage + PerPage = k * PerPage
    BY <2>1, PageWidth, ListAssumed
  <2> QED
    BY <2>2, <2>3 DEF List!Select
<1>2. ASSUME NEW j \in jobs, NEW k \in On(j), NEW l \in On(j) PROVE k = l
  <2>1. /\ k \in Nat /\ l \in Nat /\ k - 1 \in Nat /\ l - 1 \in Nat /\ List!Newer(jobs, j) \in Nat
        /\ (k - 1) * PerPage <= List!Newer(jobs, j) /\ List!Newer(jobs, j) < k * PerPage
        /\ (l - 1) * PerPage <= List!Newer(jobs, j) /\ List!Newer(jobs, j) < l * PerPage
    BY <1>2, PagesFit, RowsFinite, NewerIsNat
  <2>2. /\ (k - 1) * PerPage \in Nat /\ (l - 1) * PerPage \in Nat /\ k * PerPage \in Nat /\ l * PerPage \in Nat
        /\ k < l => k * PerPage <= (l - 1) * PerPage
        /\ l < k => l * PerPage <= (k - 1) * PerPage
    <3>1. /\ (k - 1) * PerPage \in Nat /\ (l - 1) * PerPage \in Nat /\ k * PerPage \in Nat /\ l * PerPage \in Nat
      BY <2>1, PageWidth
    <3>2. k < l => k * PerPage <= (l - 1) * PerPage
      <4> SUFFICES ASSUME k < l PROVE k * PerPage <= (l - 1) * PerPage
        OBVIOUS
      <4>1. CASE k = l - 1
        BY <3>1, <4>1
      <4>2. CASE k < l - 1
        BY <2>1, <3>1, <4>2, PageWidth, ListAssumed
      <4> QED
        BY <2>1, <4>1, <4>2
    <3>3. l < k => l * PerPage <= (k - 1) * PerPage
      <4> SUFFICES ASSUME l < k PROVE l * PerPage <= (k - 1) * PerPage
        OBVIOUS
      <4>1. CASE l = k - 1
        BY <3>1, <4>1
      <4>2. CASE l < k - 1
        BY <2>1, <3>1, <4>2, PageWidth, ListAssumed
      <4> QED
        BY <2>1, <4>1, <4>2
    <3> QED
      BY <3>1, <3>2, <3>3
  <2>3. CASE k < l
    BY <2>1, <2>2, <2>3
  <2>4. CASE l < k
    BY <2>1, <2>2, <2>4
  <2> QED
    BY <2>1, <2>3, <2>4
<1>3. ASSUME NEW j \in jobs, List!Newer(jobs, j) < Told PROVE On(j) # {}
  <2> DEFINE n == List!Newer(jobs, j)
             i == n \div PerPage
  <2>1. n \in Nat
    BY RowsFinite, NewerIsNat
  <2>2. i \in Nat /\ i * PerPage <= n /\ n < i * PerPage + PerPage
    BY <2>1, ListAssumed
  <2> HIDE DEF n, i
  <2>3. (i + 1) * PerPage = i * PerPage + PerPage /\ i * PerPage \in Nat
    BY <2>2, PageWidth
  <2>4. i < Pages
    <3> SUFFICES ASSUME Pages <= i PROVE FALSE
      BY <2>2, PagesFit
    <3>1. Pages * PerPage <= i * PerPage
      <4>1. CASE Pages = i
        BY <2>3, <4>1
      <4>2. CASE Pages < i
        BY <2>2, <2>3, <4>2, PagesFit, PageWidth, ListAssumed
      <4> QED
        BY <2>2, <4>1, <4>2, PagesFit
    <3>2. Pages * PerPage \in Nat /\ Told <= Pages * PerPage /\ n < Told
      BY <1>3, PagesFit, PageWidth DEF n
    <3> QED
      BY <2>1, <2>2, <2>3, <3>1, <3>2, ListAssumed
  <2>5. i + 1 \in 1 .. Pages /\ (i + 1) - 1 = i
    BY <2>2, <2>4, PagesFit
  <2>6. i + 1 \in On(j)
    BY <2>2, <2>3, <2>5 DEF n
  <2> QED
    BY <2>6
<1>4. List!SetItems(List!NewPager(1, PerPage), Told).Pages = Pages
  BY HomePage DEF List!HomePager
<1> HIDE DEF On
<1>5. ASSUME NEW j \in jobs
      PROVE  {k \in 1 .. Pages : j \in List!Select(jobs, List!HomePager(k))} = On(j)
  BY <1>1 DEF On
<1>6. \A j \in jobs : List!Cardinality({k \in jobs : k > j}) = List!Newer(jobs, j)
  BY DEF List!Newer
<1> QED
  BY <1>2, <1>3, <1>4, <1>5, <1>6 DEF PagesPartition, List!PagesPartition, List!HomePager

-----------------------------------------------------------------------------
(***************************************************************************)
(* Steps of requests.                                                      *)
(***************************************************************************)
LEMMA SameWalk ==
    ASSUME ListInv, UNCHANGED <<jobs, gone, walk>>, faults' >= faults, faults' \in Nat
    PROVE  WalkOK'
<1>1. walk.failed \in Nat /\ faults \in Nat
  BY ListAssumed, WalkTypes DEF ListInv, List!TypeOK
<1>2. WalkKnown'
  BY <1>1 DEF ListInv, WalkOK, WalkKnown
<1>3. FewPassedOver' /\ FewAgain'
  BY DEF ListInv, WalkOK, FewPassedOver, FewAgain, PassedOver, Ahead, Covered, List!Newer
<1> QED
  BY <1>2, <1>3 DEF WalkOK

\* Lists shown stay as good as they were while no request stores their job.
LEMMA SameLists ==
    ASSUME ListInv, jobs \union gone \subseteq jobs' \union gone',
           IsFiniteSet(jobs' \union gone'),
           \A q \in Request : step'[q] = "shown" /\ asked'[q].kind = "add" =>
               /\ step[q] = "shown" /\ asked'[q] = asked[q] /\ list'[q] = list[q]
               /\ asked[q].job \in jobs' => asked[q].job \in jobs
    PROVE  FreshJobIsListed'
<1> SUFFICES ASSUME NEW q \in Request, step'[q] = "shown", asked'[q].kind = "add", list'[q].page = 1, ~list'[q].failed
             PROVE  \/ asked'[q].job \notin jobs'
                    \/ asked'[q].job \in list'[q].rows
                    \/ Cardinality({k \in jobs' \union gone' : k > asked'[q].job}) >= PerPage
  BY SameCount DEF FreshJobIsListed, List!FreshJobIsListed
<1>1. /\ step[q] = "shown" /\ asked'[q] = asked[q] /\ list'[q] = list[q]
      /\ asked[q].job \in jobs' => asked[q].job \in jobs
  OBVIOUS
<1> DEFINE j == asked[q].job
           A == {k \in jobs \union gone : k > j}
           B == {k \in jobs' \union gone' : k > j}
<1>2. j \notin jobs \/ j \in list[q].rows \/ Cardinality(A) >= PerPage
  BY <1>1, SameCount DEF ListInv, FreshJobIsListed, List!FreshJobIsListed
<1>3. A \in SUBSET B /\ B \in SUBSET (jobs' \union gone')
  OBVIOUS
<1>4. /\ Cardinality(A) <= Cardinality(B) /\ Cardinality(A) \in Nat /\ Cardinality(B) \in Nat
  <2> HIDE DEF A, B
  <2>1. IsFiniteSet(B)
    BY <1>3, FS_Subset
  <2>2. IsFiniteSet(A) /\ Cardinality(A) <= Cardinality(B)
    BY <1>3, <2>1, FS_Subset
  <2> QED
    BY <2>1, <2>2, FS_CardinalityType
<1> QED
  BY <1>1, <1>2, <1>4, ListAssumed

\* A request begins, or a response has been read.
LEMMA RequestTypes ==
    ASSUME List!TypeOK, NEW r \in Request, NEW s \in {"idle", "insert", "delete", "list", "shown"},
           step' = [step EXCEPT ![r] = s]
    PROVE  /\ step' \in [Request -> {"idle", "insert", "delete", "list", "shown"}] /\ step'[r] = s
           /\ \A q \in Request \ {r} : step'[q] = step[q]
BY DEF List!TypeOK

LEMMA BeginInv ==
    ASSUME ListInv, NEW r \in Request, NEW s \in {"insert", "delete", "list"}, NEW q, List!Begin(r, s, q),
           q \in [kind : {"none", "home", "add", "delete"}, job : 0 .. MaxJobs],
           clock' \in clock .. MaxJobs,
           s = "insert" => q.kind = "add",
           q.kind = "add" => clock' = clock + 1 /\ q.job = clock + 1
    PROVE  ListInv'
<1>1. /\ List!TypeOK /\ AddsOK /\ step[r] = "idle" /\ step' = [step EXCEPT ![r] = s]
      /\ asked' = [asked EXCEPT ![r] = q] /\ UNCHANGED <<jobs, gone, faults, list, walk>>
  BY DEF ListInv, List!Begin
<1>2. /\ step' \in [Request -> {"idle", "insert", "delete", "list", "shown"}] /\ step'[r] = s
      /\ \A u \in Request \ {r} : step'[u] = step[u] /\ asked'[u] = asked[u]
      /\ asked' \in [Request -> [kind : {"none", "home", "add", "delete"}, job : 0 .. MaxJobs]] /\ asked'[r] = q
  BY <1>1, RequestTypes DEF List!TypeOK
<1>3. clock \in Nat /\ clock' \in 0 .. MaxJobs /\ clock <= clock'
  BY <1>1, RowsFinite
<1>4. List!TypeOK'
  <2>1. jobs' \subseteq 1 .. clock' /\ gone' \subseteq (1 .. clock') \ jobs'
    BY <1>1, <1>3, RowsFinite
  <2> QED
    BY <1>1, <1>2, <1>3, <2>1 DEF List!TypeOK
<1>5. AddsOK'
  <2>1. \A u \in Request \ {r} : asked[u].kind = "add" => asked'[u].job \in 1 .. clock /\ asked'[u].job # clock + 1
    BY <1>1, <1>2, <1>3 DEF AddsOK
  <2>2. q.kind = "add" => q.job \in 1 .. clock' /\ q.job \notin jobs \union gone
    BY <1>1, <1>3, RowsFinite
  <2>3. \A u \in Request : step'[u] = "insert" => asked'[u].kind = "add" /\ asked'[u].job \notin jobs' \union gone'
    BY <1>1, <1>2, <2>2 DEF AddsOK
  <2>4. \A u \in Request : asked'[u].kind = "add" => asked'[u].job \in 1 .. clock'
    BY <1>2, <1>3, <2>1, <2>2
  <2>5. \A u, v \in Request :
            asked'[u].kind = "add" /\ asked'[v].kind = "add" /\ asked'[u].job = asked'[v].job => u = v
    BY <1>1, <1>2, <2>1 DEF AddsOK
  <2> QED
    BY <2>3, <2>4, <2>5 DEF AddsOK
<1>6. FreshJobIsListed'
  BY <1>1, <1>2, RowsFinite, SameLists
<1>7. WalkOK'
  BY <1>1, SameWalk, ListAssumed DEF List!TypeOK
<1> QED
  BY <1>4, <1>5, <1>6, <1>7 DEF ListInv

LEMMA ReadInv ==
    ASSUME ListInv, NEW r \in Request, List!Read(r) PROVE ListInv'
<1>1. /\ List!TypeOK /\ AddsOK /\ step' = [step EXCEPT ![r] = "idle"]
      /\ asked' = [asked EXCEPT ![r] = List!NoReq] /\ list' = [list EXCEPT ![r] = List!NoView]
      /\ UNCHANGED <<jobs, clock, gone, faults, walk>>
  BY DEF ListInv, List!Read
<1>2. /\ List!NoReq \in [kind : {"none", "home", "add", "delete"}, job : 0 .. MaxJobs] /\ List!NoReq.kind = "none"
      /\ List!NoView \in [page : List!Params, rows : SUBSET List!Job, failed : BOOLEAN]
  BY ListAssumed, PagesFit DEF List!NoReq, List!NoView, List!Params
<1>3. /\ step' \in [Request -> {"idle", "insert", "delete", "list", "shown"}] /\ step'[r] = "idle"
      /\ \A q \in Request \ {r} : step'[q] = step[q] /\ asked'[q] = asked[q] /\ list'[q] = list[q]
      /\ asked'[r].kind = "none"
      /\ asked' \in [Request -> [kind : {"none", "home", "add", "delete"}, job : 0 .. MaxJobs]]
      /\ list' \in [Request -> [page : List!Params, rows : SUBSET List!Job, failed : BOOLEAN]]
  BY <1>1, <1>2, RequestTypes DEF List!TypeOK
<1>4. List!TypeOK'
  BY <1>1, <1>3 DEF List!TypeOK
<1>5. AddsOK'
  BY <1>1, <1>3 DEF AddsOK
<1>6. FreshJobIsListed'
  BY <1>1, <1>3, RowsFinite, SameLists
<1>7. WalkOK'
  BY <1>1, SameWalk, ListAssumed DEF List!TypeOK
<1> QED
  BY <1>4, <1>5, <1>6, <1>7 DEF ListInv

LEMMA WriteFailsInv ==
    ASSUME ListInv, NEW r \in Request, List!WriteFails(r) PROVE ListInv'
<1>1. /\ List!TypeOK /\ AddsOK /\ step' = [step EXCEPT ![r] = "list"] /\ faults < MaxFaults /\ faults' = faults + 1
      /\ UNCHANGED <<jobs, clock, gone, asked, list, walk>>
  BY DEF ListInv, List!WriteFails
<1>2. /\ step' \in [Request -> {"idle", "insert", "delete", "list", "shown"}] /\ step'[r] = "list"
      /\ \A q \in Request \ {r} : step'[q] = step[q]
  BY <1>1, RequestTypes
<1>3. faults' \in 0 .. MaxFaults /\ faults \in Nat
  BY <1>1, ListAssumed DEF List!TypeOK
<1>4. List!TypeOK'
  BY <1>1, <1>2, <1>3 DEF List!TypeOK
<1>5. AddsOK'
  BY <1>1, <1>2 DEF AddsOK
<1>6. FreshJobIsListed'
  BY <1>1, <1>2, RowsFinite, SameLists
<1>7. WalkOK'
  BY <1>1, <1>3, SameWalk
<1> QED
  BY <1>4, <1>5, <1>6, <1>7 DEF ListInv

\* What Home's query returns, on the first page: the newest rows.
LEMMA SelectType == ASSUME NEW S \in SUBSET List!Job, NEW p PROVE List!Select(S, p) \in SUBSET List!Job
BY DEF List!Select

LEMMA FetchedView ==
    ASSUME List!TypeOK, NEW n \in Nat, NEW v \in {List!Fetched(n), List!NotFetched(n)}
    PROVE  /\ v \in [page : List!Params, rows : SUBSET List!Job, failed : BOOLEAN]
           /\ v.page = List!HomePager(n).Page /\ v.page \in Nat
           /\ v.failed => v.rows = {}
           /\ ~v.failed => v.rows = List!Select(jobs, List!HomePager(n))
           /\ v.failed <=> v = List!NotFetched(n)
           /\ \/ v.failed /\ v.rows = {}
              \/ ~v.failed /\ v.rows = List!Select(jobs, List!HomePager(n))
<1>1. jobs \in SUBSET List!Job
  BY ListAssumed DEF List!TypeOK, List!Job
<1>2. List!Select(jobs, List!HomePager(n)) \in SUBSET List!Job
  BY <1>1, SelectType
<1>3. List!HomePager(n).Page \in List!Params /\ List!HomePager(n).Page \in Nat
  BY HomePage
<1>4. CASE v = List!Fetched(n)
  <2>1. v = [page |-> List!HomePager(n).Page, rows |-> List!Select(jobs, List!HomePager(n)), failed |-> FALSE]
    BY <1>4 DEF List!Fetched
  <2> QED
    BY <1>2, <1>3, <2>1 DEF List!NotFetched
<1>5. CASE v = List!NotFetched(n)
  <2>1. v = [page |-> List!HomePager(n).Page, rows |-> {}, failed |-> TRUE]
    BY <1>5 DEF List!NotFetched
  <2> QED
    BY <1>3, <1>5, <2>1
<1> QED
  BY <1>4, <1>5

\* What the query returns is the window of rows at the pager's offset.
LEMMA SelectWindow ==
    ASSUME NEW n \in Nat
    PROVE  LET off == ((IF List!HomePager(n).Page = 0 THEN 1 ELSE List!HomePager(n).Page) - 1) * PerPage
           IN  List!Select(jobs, List!HomePager(n))
                 = {j \in jobs : off <= List!Newer(jobs, j) /\ List!Newer(jobs, j) < off + PerPage}
BY HomePage DEF List!Select

LEMMA FetchInv ==
    ASSUME ListInv, NEW r \in Request, List!FetchPosts(r) \/ List!FetchFails(r) PROVE ListInv'
<1>1. PICK v \in {List!Fetched(0), List!NotFetched(0)} : List!Respond(r, v)
  BY DEF List!FetchPosts, List!FetchFails
<1>2. /\ List!TypeOK /\ AddsOK /\ step[r] = "list" /\ step' = [step EXCEPT ![r] = "shown"]
      /\ list' = [list EXCEPT ![r] = v]
      /\ UNCHANGED <<jobs, clock, gone, asked, walk>>
  BY <1>1 DEF ListInv, List!Respond
<1>3. /\ step' \in [Request -> {"idle", "insert", "delete", "list", "shown"}] /\ step'[r] = "shown"
      /\ \A q \in Request \ {r} : step'[q] = step[q] /\ list'[q] = list[q]
      /\ list' \in [Request -> [page : List!Params, rows : SUBSET List!Job, failed : BOOLEAN]] /\ list'[r] = v
  <2>1. v \in [page : List!Params, rows : SUBSET List!Job, failed : BOOLEAN]
    BY <1>1, <1>2, FetchedView
  <2>2. list' \in [Request -> [page : List!Params, rows : SUBSET List!Job, failed : BOOLEAN]] /\ list'[r] = v
    BY <1>2, <2>1 DEF List!TypeOK
  <2>3. \A q \in Request \ {r} : list'[q] = list[q]
    BY <1>2 DEF List!TypeOK
  <2> QED
    BY <1>2, <2>2, <2>3, RequestTypes
<1>4. faults' \in 0 .. MaxFaults /\ faults' >= faults /\ faults' \in Nat
  BY <1>2, ListAssumed DEF List!FetchPosts, List!FetchFails, List!TypeOK
<1>5. List!TypeOK'
  BY <1>2, <1>3, <1>4 DEF List!TypeOK
<1>6. AddsOK'
  BY <1>2, <1>3 DEF AddsOK
<1>7. FreshJobIsListed'
  <2> SUFFICES ASSUME NEW q \in Request, step'[q] = "shown", asked[q].kind = "add", list'[q].page = 1, ~list'[q].failed
               PROVE  \/ asked[q].job \notin jobs
                      \/ asked[q].job \in list'[q].rows
                      \/ Cardinality({k \in jobs \union gone : k > asked[q].job}) >= PerPage
    BY <1>2, SameCount DEF FreshJobIsListed, List!FreshJobIsListed
  <2>1. CASE q # r
    BY <1>3, <2>1, SameCount DEF ListInv, FreshJobIsListed, List!FreshJobIsListed
  <2>2. CASE q = r
    <3> DEFINE j == asked[r].job
    <3>1. v.page = 1 /\ ~v.failed
      BY <1>3, <2>2
    <3>2. v.rows = List!Select(jobs, List!HomePager(0)) /\ List!HomePager(0).Page = 1
      BY <1>1, <1>2, <3>1, FetchedView
    <3>3. (1 - 1) * PerPage = 0 /\ 0 + PerPage = PerPage
      BY ListAssumed
    <3>4. v.rows = {i \in jobs : 0 <= List!Newer(jobs, i) /\ List!Newer(jobs, i) < PerPage}
      BY <3>2, <3>3, SelectWindow
    <3>5. CASE j \in jobs /\ j \notin v.rows
      <4>1. List!Newer(jobs, j) \in Nat /\ List!Newer(jobs, j) >= PerPage
        BY <1>2, <3>4, <3>5, RowsFinite, NewerIsNat, ListAssumed
      <4>2. {k \in jobs : k > j} \in SUBSET {k \in jobs \union gone : k > j}
        OBVIOUS
      <4>3. IsFiniteSet({k \in jobs \union gone : k > j})
        <5>1. {k \in jobs \union gone : k > j} \in SUBSET (jobs \union gone)
          OBVIOUS
        <5> QED
          BY <1>2, <5>1, RowsFinite, FS_Subset
      <4>4. Cardinality({k \in jobs : k > j}) <= Cardinality({k \in jobs \union gone : k > j})
        BY <4>2, <4>3, FS_Subset
      <4>5. Cardinality({k \in jobs \union gone : k > j}) \in Nat
        BY <4>3, FS_CardinalityType
      <4>6. Cardinality({k \in jobs \union gone : k > j}) >= PerPage
        BY <4>1, <4>4, <4>5, NewerCounts, ListAssumed
      <4> QED
        BY <2>2, <4>6
    <3> QED
      BY <1>3, <2>2, <3>5
  <2> QED
    BY <2>1, <2>2
<1>8. WalkOK'
  BY <1>2, <1>4, SameWalk
<1> QED
  BY <1>5, <1>6, <1>7, <1>8 DEF ListInv

-----------------------------------------------------------------------------
(***************************************************************************)
(* A row comes or goes: the reader's debts grow by one at most.            *)
(***************************************************************************)
LEMMA InsertWalk ==
    ASSUME List!TypeOK, List!TypeOK', WalkOK, NEW x, x \notin jobs \union gone, jobs' = jobs \union {x},
           UNCHANGED <<gone, faults, walk>>
    PROVE  WalkOK'
<1>1. x \in Nat /\ x \notin walk.from /\ x \notin walk.seen /\ Covered' = Covered /\ Covered \in Nat
  BY RowsFinite, WalkTypes DEF WalkOK, WalkKnown, Covered, List!TypeOK
<1>2. \A j \in jobs : /\ List!Newer(jobs', j) = List!Newer(jobs, j) + (IF x > j THEN 1 ELSE 0)
                      /\ List!Newer(jobs, j) \in Nat
  BY <1>1, RowsFinite, NewerAdded, NewerIsNat
<1>3. WalkKnown'
  BY DEF WalkOK, WalkKnown
<1>4. FewPassedOver'
  <2>1. PassedOver' \in SUBSET PassedOver
    <3> SUFFICES ASSUME NEW j \in PassedOver' PROVE j \in PassedOver
      OBVIOUS
    <3>1. /\ j \in walk.from /\ j \in jobs /\ j \notin walk.seen
          /\ List!Newer(jobs', j) < Covered \/ \E k \in walk.seen : k < j
      BY <1>1 DEF PassedOver
    <3>2. List!Newer(jobs', j) < Covered => List!Newer(jobs, j) < Covered
      BY <1>1, <1>2, <3>1
    <3> QED
      BY <3>1, <3>2 DEF PassedOver
  <2>2. Cardinality(PassedOver') <= Cardinality(PassedOver) /\ Cardinality(PassedOver') \in Nat
    BY <2>1, WalkFinite, FS_Subset, FS_CardinalityType
  <2> QED
    BY <2>2, WalkFinite DEF WalkOK, FewPassedOver
<1>5. FewAgain'
  <2> DEFINE N == {j \in jobs \intersect walk.seen : List!Newer(jobs, j) = Covered - 1}
  <2>1. N \in SUBSET jobs /\ IsFiniteSet(N) /\ Cardinality(N) <= 1
    <3>1. N \in SUBSET jobs /\ \A j \in N : List!Newer(jobs, j) = Covered - 1
      OBVIOUS
    <3> HIDE DEF N
    <3> QED
      BY <3>1, RowsFinite, OneStands
  <2>2. Ahead' \in SUBSET (Ahead \union N)
    <3> SUFFICES ASSUME NEW j \in Ahead' PROVE j \in Ahead \/ j \in N
      OBVIOUS
    <3>1. j \in jobs /\ j \in walk.seen /\ List!Newer(jobs', j) >= Covered
      BY <1>1 DEF Ahead
    <3>2. List!Newer(jobs, j) >= Covered \/ List!Newer(jobs, j) = Covered - 1
      BY <1>1, <1>2, <3>1
    <3> QED
      BY <3>1, <3>2 DEF Ahead
  <2> HIDE DEF N
  <2>3. /\ IsFiniteSet(Ahead \union N) /\ Cardinality(Ahead \union N) \in Nat /\ Cardinality(N) \in Nat
        /\ Cardinality(Ahead \union N) <= Cardinality(Ahead) + Cardinality(N)
    BY <2>1, WalkFinite, UnionBound, FS_CardinalityType
  <2>4. Cardinality(Ahead') <= Cardinality(Ahead \union N) /\ Cardinality(Ahead') \in Nat
    BY <2>2, <2>3, FS_Subset, FS_CardinalityType
  <2>5. /\ Cardinality(jobs' \union gone') = Cardinality(jobs \union gone) + 1
        /\ Cardinality(jobs \union gone) \in Nat
    <3>1. jobs' \union gone' = (jobs \union gone) \union {x}
      OBVIOUS
    <3> QED
      BY <3>1, RowsFinite, FS_AddElement
  <2>6. Cardinality(Ahead) \in Nat
    BY WalkFinite
  <2>7. walk.repeats \in Nat /\ walk.top \in Nat
    BY WalkTypes
  <2>8. walk.repeats + Cardinality(Ahead) <= Cardinality(jobs \union gone) - walk.top
    BY DEF WalkOK, FewAgain
  <2>9. walk.repeats + Cardinality(Ahead') <= Cardinality(jobs' \union gone') - walk.top
    BY <2>1, <2>3, <2>4, <2>5, <2>6, <2>7, <2>8
  <2> QED
    BY <2>9 DEF FewAgain
<1> QED
  BY <1>3, <1>4, <1>5 DEF WalkOK

LEMMA DeleteWalk ==
    ASSUME List!TypeOK, List!TypeOK', WalkOK, NEW x, x \in jobs, jobs' = jobs \ {x}, gone' = gone \union {x},
           UNCHANGED <<faults, walk>>
    PROVE  WalkOK'
<1>1. x \in Nat /\ x \notin gone /\ x \notin walk.gone /\ Covered' = Covered /\ Covered \in Nat
  BY RowsFinite, WalkTypes DEF WalkOK, WalkKnown, Covered
<1>2. \A j \in jobs' : /\ List!Newer(jobs, j) = List!Newer(jobs', j) + (IF x > j THEN 1 ELSE 0)
                       /\ List!Newer(jobs', j) \in Nat
  <2>1. jobs' \in SUBSET Nat /\ IsFiniteSet(jobs') /\ x \notin jobs' /\ jobs = jobs' \union {x}
    BY RowsFinite, FS_Subset
  <2> QED
    BY <1>1, <2>1, NewerAdded, NewerIsNat
<1>3. WalkKnown'
  BY DEF WalkOK, WalkKnown
<1>4. FewPassedOver'
  <2> DEFINE N == {j \in jobs : List!Newer(jobs, j) = Covered}
  <2>1. N \in SUBSET jobs /\ IsFiniteSet(N) /\ Cardinality(N) <= 1
    <3>1. N \in SUBSET jobs /\ \A j \in N : List!Newer(jobs, j) = Covered
      OBVIOUS
    <3> HIDE DEF N
    <3> QED
      BY <3>1, RowsFinite, OneStands
  <2>2. PassedOver' \in SUBSET (PassedOver \union N)
    <3> SUFFICES ASSUME NEW j \in PassedOver' PROVE j \in PassedOver \/ j \in N
      OBVIOUS
    <3>1. /\ j \in walk.from /\ j \in jobs /\ j \in jobs' /\ j \notin walk.seen
          /\ List!Newer(jobs', j) < Covered \/ \E k \in walk.seen : k < j
      BY <1>1 DEF PassedOver
    <3>2. List!Newer(jobs', j) < Covered => List!Newer(jobs, j) < Covered \/ List!Newer(jobs, j) = Covered
      BY <1>1, <1>2, <3>1
    <3> QED
      BY <3>1, <3>2 DEF PassedOver
  <2> HIDE DEF N
  <2>3. /\ IsFiniteSet(PassedOver \union N) /\ Cardinality(PassedOver \union N) \in Nat /\ Cardinality(N) \in Nat
        /\ Cardinality(PassedOver \union N) <= Cardinality(PassedOver) + Cardinality(N)
    BY <2>1, WalkFinite, UnionBound, FS_CardinalityType
  <2>4. Cardinality(PassedOver') <= Cardinality(PassedOver \union N) /\ Cardinality(PassedOver') \in Nat
    BY <2>2, <2>3, FS_Subset, FS_CardinalityType
  <2>5. Cardinality(gone' \ walk'.gone) = Cardinality(gone \ walk.gone) + 1
    <3>1. gone' \ walk'.gone = (gone \ walk.gone) \union {x} /\ x \notin gone \ walk.gone
      BY <1>1
    <3> QED
      BY <3>1, WalkFinite, FS_AddElement
  <2>6. /\ Cardinality(PassedOver) \in Nat /\ Cardinality(gone \ walk.gone) \in Nat /\ PerPage * walk.failed \in Nat
        /\ Cardinality(PassedOver) <= Cardinality(gone \ walk.gone) + PerPage * walk.failed
    BY WalkFinite DEF WalkOK, FewPassedOver
  <2>7. Cardinality(PassedOver') <= Cardinality(gone' \ walk'.gone) + PerPage * walk'.failed
    <3> HIDE DEF N
    <3> QED
      BY <2>1, <2>3, <2>4, <2>5, <2>6
  <2> QED
    BY <2>7 DEF FewPassedOver
<1>5. FewAgain'
  <2>1. Ahead' \in SUBSET Ahead
    <3> SUFFICES ASSUME NEW j \in Ahead' PROVE j \in Ahead
      OBVIOUS
    <3>1. j \in jobs /\ j \in jobs' /\ j \in walk.seen /\ List!Newer(jobs', j) >= Covered
      BY <1>1 DEF Ahead
    <3>2. List!Newer(jobs, j) >= Covered
      BY <1>1, <1>2, <3>1
    <3> QED
      BY <3>1, <3>2 DEF Ahead
  <2>2. Cardinality(Ahead') <= Cardinality(Ahead) /\ Cardinality(Ahead') \in Nat
    BY <2>1, WalkFinite, FS_Subset, FS_CardinalityType
  <2>3. jobs' \union gone' = jobs \union gone
    OBVIOUS
  <2>4. /\ walk.repeats + Cardinality(Ahead) <= Cardinality(jobs \union gone) - walk.top
        /\ walk.repeats \in Nat /\ walk.top \in Nat /\ Cardinality(jobs \union gone) \in Nat
    BY WalkTypes, RowsFinite DEF WalkOK, FewAgain
  <2>5. walk.repeats + Cardinality(Ahead') <= Cardinality(jobs \union gone) - walk.top
    BY <2>2, <2>4, WalkFinite
  <2> QED
    BY <2>3, <2>5 DEF FewAgain
<1> QED
  BY <1>3, <1>4, <1>5 DEF WalkOK

LEMMA WriteInv ==
    ASSUME ListInv, NEW r \in Request, List!Write(r) PROVE ListInv'
<1> DEFINE x == asked[r].job
<1>1. /\ List!TypeOK /\ AddsOK /\ WalkOK /\ step' = [step EXCEPT ![r] = "list"]
      /\ UNCHANGED <<clock, faults, asked, list, walk>>
  BY DEF ListInv, List!Write
<1>2. /\ step' \in [Request -> {"idle", "insert", "delete", "list", "shown"}] /\ step'[r] = "list"
      /\ \A q \in Request \ {r} : step'[q] = step[q]
  BY <1>1, RequestTypes
<1>3. CASE step[r] = "insert" /\ jobs' = jobs \union {x} /\ UNCHANGED gone
  <2>1. /\ asked[r].kind = "add" /\ x \notin jobs \union gone /\ x \in 1 .. clock
        /\ \A q \in Request \ {r} : asked[q].kind = "add" => asked[q].job # x
    BY <1>1, <1>3 DEF AddsOK
  <2>2. List!TypeOK'
    BY <1>1, <1>2, <1>3, <2>1 DEF List!TypeOK
  <2>3. AddsOK'
    BY <1>1, <1>2, <1>3, <2>1 DEF AddsOK
  <2>4. FreshJobIsListed'
    <3>1. IsFiniteSet((jobs \union gone) \union {x}) /\ jobs' \union gone' = (jobs \union gone) \union {x}
      BY <1>1, <1>3, RowsFinite, FS_AddElement
    <3> QED
      BY <1>1, <1>2, <1>3, <2>1, <3>1, SameLists
  <2>5. WalkOK'
    BY <1>1, <1>3, <2>1, <2>2, InsertWalk
  <2> QED
    BY <2>2, <2>3, <2>4, <2>5 DEF ListInv
<1>4. CASE step[r] = "delete" /\ jobs' = jobs \ {x} /\ gone' = gone \union ({x} \intersect jobs)
  <2>1. jobs' \union gone' = jobs \union gone /\ jobs' \subseteq jobs
    BY <1>4
  <2>2. List!TypeOK'
    <3>1. jobs' \subseteq 1 .. clock /\ gone' \subseteq (1 .. clock) \ jobs'
      BY <1>1, <1>4 DEF List!TypeOK
    <3> QED
      BY <1>1, <1>2, <3>1 DEF List!TypeOK
  <2>3. AddsOK'
    BY <1>1, <1>2, <2>1 DEF AddsOK
  <2>4. FreshJobIsListed'
    BY <1>1, <1>2, <2>1, RowsFinite, SameLists
  <2>5. WalkOK'
    <3>1. CASE x \in jobs
      <4>1. gone' = gone \union {x}
        BY <1>4, <3>1
      <4> QED
        BY <1>1, <1>4, <2>2, <3>1, <4>1, DeleteWalk
    <3>2. CASE x \notin jobs
      <4>1. UNCHANGED <<jobs, gone>>
        BY <1>4, <3>2
      <4> QED
        BY <1>1, <4>1, SameWalk, ListAssumed DEF List!TypeOK
    <3> QED
      BY <3>1, <3>2
  <2> QED
    BY <2>2, <2>3, <2>4, <2>5 DEF ListInv
<1> QED
  BY <1>3, <1>4 DEF List!Write

-----------------------------------------------------------------------------
(***************************************************************************)
(* The reader turns the page.                                              *)
(***************************************************************************)
LEMMA TurnStep ==
    ASSUME List!TypeOK, NEW n \in Nat, n > 0, List!Turn(n)
    PROVE  \E v \in {List!Fetched(n), List!NotFetched(n)} :
              /\ walk' = List!Walked(IF n = 1
                                     THEN [List!NoWalk EXCEPT !.from = jobs, !.gone = gone,
                                              !.top = Cardinality(jobs \union gone)]
                                     ELSE walk, v)
              /\ faults' = faults + (IF v.failed THEN 1 ELSE 0)
              /\ faults' \in 0 .. MaxFaults
<1>1. List!Fetched(n).failed = FALSE /\ List!NotFetched(n).failed = TRUE
  BY DEF List!Fetched, List!NotFetched
<1>2. faults \in Nat /\ faults <= MaxFaults
  BY ListAssumed DEF List!TypeOK
<1>3. faults + 0 = faults /\ (faults < MaxFaults => faults + 1 \in 0 .. MaxFaults) /\ faults \in 0 .. MaxFaults
  BY <1>2, ListAssumed
<1> DEFINE w == IF n = 1 THEN [List!NoWalk EXCEPT !.from = jobs, !.gone = gone, !.top = Cardinality(jobs \union gone)]
                ELSE walk
<1>4. \/ walk' = List!Walked(w, List!Fetched(n)) /\ faults' = faults
      \/ faults < MaxFaults /\ faults' = faults + 1 /\ walk' = List!Walked(w, List!NotFetched(n))
  BY SameCount DEF List!Turn
<1> HIDE DEF w
<1>5. CASE walk' = List!Walked(w, List!Fetched(n)) /\ faults' = faults
  BY <1>1, <1>3, <1>5 DEF w
<1>6. CASE faults < MaxFaults /\ faults' = faults + 1 /\ walk' = List!Walked(w, List!NotFetched(n))
  BY <1>1, <1>3, <1>6 DEF w
<1> QED
  BY <1>4, <1>5, <1>6

\* What a turned page adds to the walk.
LEMMA WalkedFields ==
    ASSUME NEW w \in [page : Nat, from : SUBSET List!Job, gone : SUBSET List!Job, top : Nat,
                      seen : SUBSET List!Job, repeats : Nat, failed : Nat],
           NEW v \in [page : List!Params, rows : SUBSET List!Job, failed : BOOLEAN]
    PROVE  LET u == List!Walked(w, v)
           IN  /\ u.page = v.page /\ u.from = w.from /\ u.gone = w.gone /\ u.top = w.top
               /\ u.seen = w.seen \union v.rows
               /\ u.repeats = w.repeats + Cardinality(v.rows \intersect w.seen)
               /\ u.failed = w.failed + (IF v.failed THEN 1 ELSE 0)
               /\ u = [page |-> v.page, from |-> w.from, gone |-> w.gone, top |-> w.top,
                       seen |-> w.seen \union v.rows,
                       repeats |-> w.repeats + Cardinality(v.rows \intersect w.seen),
                       failed |-> w.failed + (IF v.failed THEN 1 ELSE 0)]
<1>1. List!Walked(w, v) = [w EXCEPT !.page = v.page, !.seen = w.seen \union v.rows,
              !.repeats = w.repeats + Cardinality(v.rows \intersect w.seen),
              !.failed = IF v.failed THEN w.failed + 1 ELSE w.failed]
  BY SameCount DEF List!Walked
<1>2. (IF v.failed THEN w.failed + 1 ELSE w.failed) = w.failed + (IF v.failed THEN 1 ELSE 0)
  OBVIOUS
<1> QED
  BY <1>1, <1>2

\* Types, once the counts are known.
LEMMA WalkTyped ==
    ASSUME List!TypeOK, UNCHANGED <<jobs, clock, gone, step, asked, list>>, faults' \in 0 .. MaxFaults,
           walk' \in [page : List!Params, from : SUBSET List!Job, gone : SUBSET List!Job, top : 0 .. MaxJobs,
                      seen : SUBSET List!Job, repeats : Nat, failed : Nat],
           IsFiniteSet(Ahead'), WalkKnown', FewAgain'
    PROVE  List!TypeOK'
<1>1. walk'.repeats \in Nat /\ walk'.top \in Nat /\ walk'.failed \in Nat
  BY ListAssumed
<1>2. walk'.failed \in 0 .. MaxFaults
  BY <1>1, ListAssumed DEF WalkKnown
<1>3. /\ Cardinality(Ahead') \in Nat /\ Cardinality(jobs' \union gone') \in Nat
      /\ Cardinality(jobs' \union gone') <= clock /\ clock \in Nat /\ clock <= MaxJobs
  BY RowsFinite, FS_CardinalityType
<1>4. walk'.repeats <= MaxJobs
  BY <1>1, <1>3, ListAssumed DEF FewAgain
<1>5. MaxJobs <= MaxJobs * MaxJobs /\ MaxJobs * MaxJobs \in Nat
  BY ListAssumed
<1>6. walk'.repeats \in 0 .. MaxJobs * MaxJobs
  BY <1>1, <1>4, <1>5, ListAssumed
<1>7. walk' \in [page : List!Params, from : SUBSET List!Job, gone : SUBSET List!Job, top : 0 .. MaxJobs,
                 seen : SUBSET List!Job, repeats : 0 .. MaxJobs * MaxJobs, failed : 0 .. MaxFaults]
  BY <1>2, <1>6
<1> QED
  BY <1>7 DEF List!TypeOK

LEMMA FirstPage ==
    ASSUME ListInv, UNCHANGED <<jobs, clock, gone, step, asked, list>>, List!Turn(1)
    PROVE  List!TypeOK' /\ WalkOK'
<1>0. PICK w : w = [List!NoWalk EXCEPT !.from = jobs, !.gone = gone, !.top = Cardinality(jobs \union gone)]
  OBVIOUS
<1>1. List!TypeOK /\ WalkOK
  BY DEF ListInv
<1>2. PICK v \in {List!Fetched(1), List!NotFetched(1)} :
          walk' = List!Walked(w, v) /\ faults' = faults + (IF v.failed THEN 1 ELSE 0) /\ faults' \in 0 .. MaxFaults
  BY <1>0, <1>1, TurnStep
<1>3. /\ v \in [page : List!Params, rows : SUBSET List!Job, failed : BOOLEAN] /\ v.page \in Nat
      /\ v.page = List!HomePager(1).Page
      /\ v.failed => v.rows = {}
      /\ ~v.failed => v.rows = List!Select(jobs, List!HomePager(1))
  BY <1>1, <1>2, FetchedView
<1>4. v.page \in {0, 1}
  BY <1>3, HomePage, PagesFit
<1>5. ((IF v.page = 0 THEN 1 ELSE v.page) - 1) * PerPage = 0
  BY <1>4, ListAssumed
<1>6. ~v.failed => v.rows = {j \in jobs : 0 <= List!Newer(jobs, j) /\ List!Newer(jobs, j) < PerPage}
  <2>1. List!Select(jobs, List!HomePager(1))
          = {j \in jobs : 0 <= List!Newer(jobs, j) /\ List!Newer(jobs, j) < 0 + PerPage}
    BY <1>3, <1>5, SelectWindow
  <2>2. 0 + PerPage = PerPage
    BY ListAssumed
  <2> QED
    BY <1>3, <2>1, <2>2
<1>7. /\ Cardinality(jobs \union gone) \in 0 .. MaxJobs /\ Cardinality(jobs \union gone) \in Nat
      /\ jobs \subseteq List!Job /\ gone \subseteq List!Job /\ faults \in Nat
  BY <1>1, RowsFinite, ListAssumed DEF List!Job, List!TypeOK
<1>8. /\ w.page = 0 /\ w.from = jobs /\ w.gone = gone /\ w.top = Cardinality(jobs \union gone)
      /\ w.seen = {} /\ w.repeats = 0 /\ w.failed = 0
      /\ w \in [page : Nat, from : SUBSET List!Job, gone : SUBSET List!Job, top : Nat,
                seen : SUBSET List!Job, repeats : Nat, failed : Nat]
  <2> DEFINE Walks == [page : Nat, from : SUBSET List!Job, gone : SUBSET List!Job, top : Nat,
                       seen : SUBSET List!Job, repeats : Nat, failed : Nat]
  <2>1. List!NoWalk = [page |-> 0, from |-> {}, gone |-> {}, top |-> 0, seen |-> {}, repeats |-> 0, failed |-> 0]
    BY DEF List!NoWalk
  <2>2. List!NoWalk \in Walks
    BY <2>1
  <2>3. w \in Walks
    BY <1>0, <1>7, <2>2
  <2>4. /\ w.page = 0 /\ w.from = jobs /\ w.gone = gone /\ w.top = Cardinality(jobs \union gone)
        /\ w.seen = {} /\ w.repeats = 0 /\ w.failed = 0
    BY <1>0, <2>1
  <2> QED
    BY <2>3, <2>4
<1> DEFINE new == IF v.failed THEN 1 ELSE 0
<1>10. /\ walk'.page = v.page /\ walk'.from = jobs /\ walk'.gone = gone
       /\ walk'.top = Cardinality(jobs \union gone) /\ walk'.seen = v.rows /\ walk'.repeats = 0
       /\ walk'.failed = new
       /\ walk' = [page |-> v.page, from |-> jobs, gone |-> gone, top |-> Cardinality(jobs \union gone),
                   seen |-> v.rows, repeats |-> 0, failed |-> new]
  <2>1. w.seen \union v.rows = v.rows /\ v.rows \intersect w.seen = {}
    BY <1>8
  <2>2. w.repeats + Cardinality(v.rows \intersect w.seen) = 0
    BY <1>8, <2>1, FS_EmptySet
  <2>3. w.failed + (IF v.failed THEN 1 ELSE 0) = new
    BY <1>8
  <2> HIDE DEF new
  <2> QED
    BY <1>2, <1>3, <1>8, <2>1, <2>2, <2>3, WalkedFields
<1>11. Covered' = PerPage
  BY <1>4, <1>10, ListAssumed DEF Covered
<1>12. WalkKnown'
  <2>1. v.rows \subseteq jobs
    BY <1>3, <1>6
  <2>2. new <= faults'
    BY <1>2, <1>7
  <2> QED
    BY <1>10, <2>1, <2>2 DEF WalkKnown
<1>13. \A j \in jobs : List!Newer(jobs, j) \in Nat
  BY <1>1, RowsFinite, NewerIsNat
<1>14. Ahead' = {}
  BY <1>3, <1>6, <1>10, <1>11, <1>13, ListAssumed DEF Ahead
<1>15. FewAgain'
  <2>1. Cardinality(Ahead') = 0
    BY <1>14, FS_EmptySet
  <2> QED
    BY <1>7, <1>10, <2>1 DEF FewAgain
<1>16. FewPassedOver'
  <2>1. gone' \ walk'.gone = {}
    BY <1>10
  <2>2. Cardinality(gone' \ walk'.gone) = 0
    BY <2>1, FS_EmptySet
  <2>3. CASE v.failed
    <3>1. walk'.failed = 1 /\ walk'.seen = {}
      BY <1>3, <1>10, <2>3
    <3>2. /\ PassedOver' \in SUBSET jobs
          /\ \A j \in PassedOver' : 0 <= List!Newer(jobs, j) /\ List!Newer(jobs, j) < 0 + PerPage
      BY <1>11, <1>13, <3>1, ListAssumed DEF PassedOver
    <3>3. Cardinality(PassedOver') <= PerPage
      BY <1>1, <3>2, RowsFinite, WindowHolds
    <3> QED
      BY <2>2, <3>1, <3>3, ListAssumed DEF FewPassedOver
  <2>4. CASE ~v.failed
    <3>1. walk'.failed = 0 /\ walk'.seen = v.rows
      BY <1>10, <2>4
    <3>2. PassedOver' = {}
      <4> SUFFICES ASSUME NEW j \in PassedOver' PROVE FALSE
        OBVIOUS
      <4>1. /\ j \in jobs /\ j \notin v.rows
            /\ List!Newer(jobs, j) < PerPage \/ \E k \in v.rows : k < j
        BY <1>11, <3>1 DEF PassedOver
      <4>2. ~(List!Newer(jobs, j) < PerPage)
        BY <1>6, <1>13, <2>4, <4>1
      <4>3. PICK k \in v.rows : k < j
        BY <4>1, <4>2
      <4>4. k \in jobs /\ List!Newer(jobs, k) < PerPage
        BY <1>6, <2>4, <4>3
      <4>5. List!Newer(jobs, j) < List!Newer(jobs, k)
        BY <1>1, <4>1, <4>3, <4>4, RowsFinite, NewerFalls
      <4> QED
        BY <1>13, <4>1, <4>2, <4>4, <4>5, ListAssumed
    <3>3. Cardinality(PassedOver') = 0
      BY <3>2, FS_EmptySet
    <3>4. PerPage * 0 = 0
      BY ListAssumed
    <3> QED
      BY <2>2, <3>1, <3>3, <3>4 DEF FewPassedOver
  <2> QED
    BY <2>3, <2>4
<1>17. List!TypeOK'
  <2>1. IsFiniteSet(Ahead')
    BY <1>14, FS_EmptySet
  <2>2. walk' \in [page : List!Params, from : SUBSET List!Job, gone : SUBSET List!Job, top : 0 .. MaxJobs,
                   seen : SUBSET List!Job, repeats : Nat, failed : Nat]
    BY <1>3, <1>7, <1>10
  <2> QED
    BY <1>1, <1>2, <1>12, <1>15, <2>1, <2>2, WalkTyped
<1> QED
  BY <1>12, <1>15, <1>16, <1>17 DEF WalkOK

LEMMA FurtherPage ==
    ASSUME ListInv, UNCHANGED <<jobs, clock, gone, step, asked, list>>,
           walk.page > 0, ~List!IsEnd(List!HomePager(walk.page)), List!Turn(walk.page + 1)
    PROVE  List!TypeOK' /\ WalkOK'
<1>1. /\ List!TypeOK /\ WalkKnown /\ FewPassedOver /\ FewAgain /\ walk.page \in Nat
      /\ Covered \in Nat /\ Covered = walk.page * PerPage /\ faults \in Nat
  BY WalkTypes, ListAssumed DEF ListInv, WalkOK, Covered, List!TypeOK
<1>2. walk.page + 1 \in Nat /\ walk.page + 1 # 1 /\ walk.page + 1 <= Pages
  <2>1. ~(walk.page > Pages) /\ walk.page < Pages
    BY <1>1, HomePage, PagesFit
  <2> QED
    BY <1>1, <2>1, PagesFit
<1>3. PICK v \in {List!Fetched(walk.page + 1), List!NotFetched(walk.page + 1)} :
          walk' = List!Walked(walk, v) /\ faults' = faults + (IF v.failed THEN 1 ELSE 0) /\ faults' \in 0 .. MaxFaults
  <2>1. walk.page + 1 > 0
    BY <1>1
  <2> QED
    BY <1>1, <1>2, <2>1, TurnStep
<1>4. /\ v \in [page : List!Params, rows : SUBSET List!Job, failed : BOOLEAN]
      /\ v.page = walk.page + 1 /\ List!HomePager(walk.page + 1).Page = walk.page + 1
      /\ v.failed => v.rows = {}
      /\ ~v.failed => v.rows = List!Select(jobs, List!HomePager(walk.page + 1))
  <2>1. List!HomePager(walk.page + 1).Page = walk.page + 1
    BY <1>1, <1>2, HomePage, PagesFit
  <2> QED
    BY <1>1, <1>2, <1>3, <2>1, FetchedView
<1>5. ~v.failed => v.rows = {j \in jobs : Covered <= List!Newer(jobs, j) /\ List!Newer(jobs, j) < Covered + PerPage}
  <2>1. ((IF walk.page + 1 = 0 THEN 1 ELSE walk.page + 1) - 1) * PerPage = Covered
    BY <1>1
  <2> QED
    BY <1>2, <1>4, <2>1, SelectWindow
<1> DEFINE R == v.rows \intersect walk.seen
           new == IF v.failed THEN 1 ELSE 0
<1>6. /\ walk'.page = walk.page + 1 /\ walk'.from = walk.from /\ walk'.gone = walk.gone
      /\ walk'.top = walk.top /\ walk'.seen = walk.seen \union v.rows
      /\ walk'.repeats = walk.repeats + Cardinality(R)
      /\ walk'.failed = walk.failed + new
      /\ walk' = [page |-> v.page, from |-> walk.from, gone |-> walk.gone, top |-> walk.top,
                  seen |-> walk.seen \union v.rows, repeats |-> walk.repeats + Cardinality(R),
                  failed |-> walk.failed + new]
  <2>1. walk \in [page : Nat, from : SUBSET List!Job, gone : SUBSET List!Job, top : Nat,
                  seen : SUBSET List!Job, repeats : Nat, failed : Nat]
    <3>1. MaxJobs \in Nat /\ MaxFaults \in Nat /\ \A n \in 0 .. MaxJobs * MaxJobs : n \in Nat
      BY ListAssumed
    <3>2. List!Params \in SUBSET Nat
      BY PagesFit DEF List!Params
    <3> QED
      BY <1>1, <3>1, <3>2 DEF List!TypeOK
  <2> QED
    BY <1>3, <1>4, <2>1, WalkedFields
<1> HIDE DEF new
<1>7. (v.failed /\ new = 1) \/ (~v.failed /\ new = 0)
  BY DEF new
<1>8. Covered' = Covered + PerPage
  BY <1>1, <1>2, <1>6, PageWidth DEF Covered
<1>9. \A j \in jobs : List!Newer(jobs, j) \in Nat
  BY <1>1, RowsFinite, NewerIsNat
<1>10. v.rows \subseteq jobs /\ (v.failed => v.rows = {})
  BY <1>4, <1>5
<1>11. WalkKnown'
  BY <1>1, <1>3, <1>6, <1>7, <1>10, WalkTypes DEF WalkKnown
<1>12. /\ Ahead' \in SUBSET Ahead /\ R \in SUBSET Ahead /\ Ahead' \intersect R = {}
  <2>1. ASSUME NEW j \in Ahead' PROVE j \in Ahead /\ j \notin v.rows
    <3>1. j \in jobs /\ j \in walk.seen \union v.rows /\ List!Newer(jobs, j) >= Covered + PerPage
      BY <1>6, <1>8 DEF Ahead
    <3>2. j \notin v.rows
      BY <1>1, <1>5, <1>9, <1>10, <3>1, ListAssumed
    <3> QED
      BY <1>1, <1>9, <3>1, <3>2, ListAssumed DEF Ahead
  <2>2. ASSUME NEW j \in R PROVE j \in Ahead
    BY <1>5, <1>9, <1>10, <1>1 DEF Ahead
  <2> QED
    BY <2>1, <2>2
<1>13. /\ IsFiniteSet(Ahead') /\ IsFiniteSet(R) /\ Cardinality(Ahead') \in Nat /\ Cardinality(R) \in Nat
       /\ Cardinality(Ahead') + Cardinality(R) <= Cardinality(Ahead) /\ Cardinality(Ahead) \in Nat
  <2> HIDE DEF R
  <2>1. IsFiniteSet(Ahead) /\ Cardinality(Ahead) \in Nat
    BY <1>1, WalkFinite
  <2>2. IsFiniteSet(Ahead') /\ IsFiniteSet(R) /\ Cardinality(Ahead') \in Nat /\ Cardinality(R) \in Nat
    BY <1>12, <2>1, FS_Subset, FS_CardinalityType
  <2>3. Cardinality(Ahead' \union R) = Cardinality(Ahead') + Cardinality(R)
    <3>1. Cardinality(Ahead' \union R) = Cardinality(Ahead') + Cardinality(R) - Cardinality(Ahead' \intersect R)
      BY <2>2, FS_Union
    <3>2. Cardinality(Ahead' \intersect R) = 0
      BY <1>12, FS_EmptySet
    <3> QED
      BY <2>2, <3>1, <3>2
  <2>4. Cardinality(Ahead' \union R) <= Cardinality(Ahead)
    <3>1. Ahead' \union R \in SUBSET Ahead
      BY <1>12
    <3> QED
      BY <2>1, <3>1, FS_Subset
  <2> QED
    BY <2>1, <2>2, <2>3, <2>4
<1>14. FewAgain'
  <2> HIDE DEF R
  <2>1. /\ walk.repeats + Cardinality(Ahead) <= Cardinality(jobs \union gone) - walk.top
        /\ walk.repeats \in Nat /\ walk.top \in Nat /\ Cardinality(jobs \union gone) \in Nat
    BY <1>1, RowsFinite, WalkTypes DEF FewAgain
  <2>2. (walk.repeats + Cardinality(R)) + Cardinality(Ahead') <= Cardinality(jobs \union gone) - walk.top
    BY <1>13, <2>1
  <2> QED
    BY <1>6, <2>2 DEF FewAgain
<1>15. FewPassedOver'
  <2>1. /\ Cardinality(PassedOver) <= Cardinality(gone \ walk.gone) + PerPage * walk.failed
        /\ IsFiniteSet(PassedOver) /\ Cardinality(PassedOver) \in Nat /\ Cardinality(gone \ walk.gone) \in Nat
        /\ PerPage * walk.failed \in Nat /\ walk.failed \in Nat
    BY <1>1, WalkFinite, WalkTypes DEF FewPassedOver
  <2>2. CASE v.failed
    <3> DEFINE W == {j \in jobs : Covered <= List!Newer(jobs, j) /\ List!Newer(jobs, j) < Covered + PerPage}
    <3>1. PassedOver' \in SUBSET (PassedOver \union W)
      <4> SUFFICES ASSUME NEW j \in PassedOver' PROVE j \in PassedOver \/ j \in W
        OBVIOUS
      <4>1. /\ j \in walk.from /\ j \in jobs /\ j \notin walk.seen
            /\ List!Newer(jobs, j) < Covered + PerPage \/ \E k \in walk.seen : k < j
        BY <1>6, <1>8, <1>10, <2>2 DEF PassedOver
      <4> QED
        BY <1>1, <1>9, <4>1 DEF PassedOver
    <3>2. W \in SUBSET jobs /\ IsFiniteSet(W) /\ Cardinality(W) <= PerPage
      BY <1>1, RowsFinite, WindowHolds
    <3> HIDE DEF W
    <3>3. /\ IsFiniteSet(PassedOver \union W) /\ Cardinality(W) \in Nat
          /\ Cardinality(PassedOver \union W) <= Cardinality(PassedOver) + Cardinality(W)
      BY <2>1, <3>2, UnionBound, FS_CardinalityType
    <3>4. /\ Cardinality(PassedOver') <= Cardinality(PassedOver \union W)
          /\ Cardinality(PassedOver') \in Nat /\ Cardinality(PassedOver \union W) \in Nat
      BY <3>1, <3>3, FS_Subset, FS_CardinalityType
    <3>5. PerPage * (walk.failed + 1) = PerPage * walk.failed + PerPage
      BY <2>1, ListAssumed
    <3>6. Cardinality(PassedOver') <= Cardinality(gone \ walk.gone) + PerPage * (walk.failed + 1)
      BY <2>1, <3>2, <3>3, <3>4, <3>5, ListAssumed
    <3> QED
      BY <1>6, <1>7, <2>2, <3>6 DEF FewPassedOver
  <2>3. CASE ~v.failed
    <3>1. PassedOver' \in SUBSET PassedOver
      <4> SUFFICES ASSUME NEW j \in PassedOver' PROVE j \in PassedOver
        OBVIOUS
      <4>1. /\ j \in walk.from /\ j \in jobs /\ j \notin walk.seen /\ j \notin v.rows
            /\ List!Newer(jobs, j) < Covered + PerPage \/ \E k \in walk.seen \union v.rows : k < j
        BY <1>6, <1>8 DEF PassedOver
      <4>2. List!Newer(jobs, j) < Covered + PerPage => List!Newer(jobs, j) < Covered
        BY <1>1, <1>5, <1>9, <2>3, <4>1
      <4>3. ASSUME NEW k \in v.rows, k < j PROVE List!Newer(jobs, j) < Covered
        <5>1. k \in jobs /\ List!Newer(jobs, k) < Covered + PerPage
          BY <1>5, <2>3
        <5>2. List!Newer(jobs, j) < List!Newer(jobs, k)
          BY <1>1, <4>1, <4>3, <5>1, RowsFinite, NewerFalls
        <5> QED
          BY <1>1, <1>9, <4>1, <4>2, <5>1, <5>2, ListAssumed
      <4> QED
        BY <4>1, <4>2, <4>3 DEF PassedOver
    <3>2. Cardinality(PassedOver') <= Cardinality(PassedOver) /\ Cardinality(PassedOver') \in Nat
      BY <2>1, <3>1, FS_Subset, FS_CardinalityType
    <3>3. walk.failed + 0 = walk.failed
      BY <2>1
    <3> QED
      BY <1>6, <1>7, <2>1, <2>3, <3>2, <3>3 DEF FewPassedOver
  <2> QED
    BY <2>2, <2>3
<1>16. List!TypeOK'
  <2>1. walk.repeats + Cardinality(R) \in Nat /\ walk.failed + new \in Nat
    <3> HIDE DEF R
    <3> QED
      BY <1>1, <1>7, <1>13, WalkTypes
  <2>2. walk.top \in 0 .. MaxJobs
    BY <1>1 DEF List!TypeOK
  <2>3. walk.from \in SUBSET List!Job /\ walk.gone \in SUBSET List!Job /\ walk.seen \union v.rows \in SUBSET List!Job
    BY <1>1, <1>4, WalkTypes
  <2>4. v.page \in List!Params
    BY <1>4
  <2> HIDE DEF R
  <2>5. walk' \in [page : List!Params, from : SUBSET List!Job, gone : SUBSET List!Job, top : 0 .. MaxJobs,
                   seen : SUBSET List!Job, repeats : Nat, failed : Nat]
    BY <1>6, <2>1, <2>2, <2>3, <2>4
  <2> QED
    BY <1>1, <1>3, <1>11, <1>13, <1>14, <2>5, WalkTyped
<1> QED
  BY <1>11, <1>14, <1>15, <1>16 DEF WalkOK

LEMMA NextPageInv ==
    ASSUME ListInv, List!NextPage PROVE ListInv'
<1>1. UNCHANGED <<jobs, clock, gone, step, asked, list>>
  BY DEF List!NextPage
<1>2. List!TypeOK' /\ WalkOK'
  BY <1>1, FirstPage, FurtherPage DEF List!NextPage
<1>3. AddsOK'
  BY <1>1 DEF ListInv, AddsOK
<1>4. FreshJobIsListed'
  BY <1>1 DEF ListInv, FreshJobIsListed, List!FreshJobIsListed
<1> QED
  BY <1>2, <1>3, <1>4 DEF ListInv

-----------------------------------------------------------------------------

LEMMA ListNext == ListInv /\ [List!Next]_List!vars => ListInv'
<1> SUFFICES ASSUME ListInv, [List!Next]_List!vars PROVE ListInv'
  OBVIOUS
<1>1. CASE List!NextPage
  BY <1>1, NextPageInv
<1>2. ASSUME NEW r \in Request, List!Home(r) PROVE ListInv'
  <2>1. clock \in clock .. MaxJobs /\ clock' = clock
    BY <1>2, RowsFinite, ListAssumed DEF ListInv, List!Home
  <2>2. List!Begin(r, "list", [kind |-> "home", job |-> 0])
    BY <1>2 DEF List!Home
  <2>3. 0 \in 0 .. MaxJobs
    BY ListAssumed
  <2> QED
    BY <2>1, <2>2, <2>3, BeginInv
<1>3. ASSUME NEW r \in Request, List!JobAdd(r) PROVE ListInv'
  <2>1. clock' \in clock .. MaxJobs /\ clock' = clock + 1 /\ clock + 1 \in 0 .. MaxJobs
    BY <1>3, RowsFinite, ListAssumed DEF ListInv, List!JobAdd
  <2>2. List!Begin(r, "insert", [kind |-> "add", job |-> clock + 1])
    BY <1>3 DEF List!JobAdd
  <2> QED
    BY <2>1, <2>2, BeginInv
<1>4. ASSUME NEW r \in Request, NEW j \in jobs, List!JobDelete(r, j) PROVE ListInv'
  <2>1. clock \in clock .. MaxJobs /\ clock' = clock /\ j \in 0 .. MaxJobs
    BY <1>4, RowsFinite, ListAssumed DEF ListInv, List!JobDelete, List!TypeOK
  <2>2. List!Begin(r, "delete", [kind |-> "delete", job |-> j])
    BY <1>4 DEF List!JobDelete
  <2> QED
    BY <2>1, <2>2, BeginInv
<1>5. CASE UNCHANGED List!vars
  <2>1. UNCHANGED <<jobs, clock, gone, faults, step, asked, list, walk>>
    BY <1>5 DEF List!vars
  <2>2. List!TypeOK' /\ AddsOK' /\ FreshJobIsListed'
    BY <2>1 DEF ListInv, List!TypeOK, AddsOK, FreshJobIsListed, List!FreshJobIsListed
  <2>3. WalkOK'
    BY <2>1, SameWalk, ListAssumed DEF ListInv, List!TypeOK
  <2> QED
    BY <2>2, <2>3 DEF ListInv
<1> QED
  BY <1>1, <1>2, <1>3, <1>4, <1>5, WriteInv, WriteFailsInv, FetchInv, ReadInv DEF List!Next

LEMMA ListInvariance == List!Spec => []ListInv
BY ListInit, ListNext, PTL DEF List!Spec

LEMMA WalksFollow == ListInv => WalksAreExplained
<1> SUFFICES ASSUME ListInv PROVE WalksAreExplained
  OBVIOUS
<1>1. List!TypeOK /\ FewPassedOver /\ FewAgain
  BY DEF ListInv, WalkOK
<1>2. List!Missed \in SUBSET PassedOver
  BY DEF List!Missed, PassedOver
<1>3. Cardinality(List!Missed) <= Cardinality(PassedOver) /\ Cardinality(List!Missed) \in Nat
  BY <1>1, <1>2, WalkFinite, FS_Subset, FS_CardinalityType
<1>4. Cardinality(List!Missed) <= Cardinality(gone \ walk.gone) + PerPage * walk.failed
  BY <1>1, <1>3, WalkFinite DEF FewPassedOver
<1>5. walk.repeats <= Cardinality(jobs \union gone) - walk.top
  BY <1>1, WalkFinite, WalkTypes, RowsFinite DEF FewAgain
<1> QED
  BY <1>4, <1>5, SameCount DEF WalksAreExplained, List!WalksAreExplained

LEMMA BothTables == WebSpec => Spec /\ List!Spec
<1>1. WebInit => Init /\ List!Init
  BY DEF WebInit
<1>2. [WebNext]_<<part, vars, listVars>> => [Next]_vars /\ [List!Next]_List!vars
  BY DEF WebNext, listVars, List!vars
<1> QED
  BY <1>1, <1>2, PTL DEF WebSpec, Spec, List!Spec

-----------------------------------------------------------------------------

(***************************************************************************)
(* Both tables and what is done with them keep their types: no job is      *)
(* newer than the newest created_at, one that was deleted does not come    *)
(* back, and what the reader counts stays within its bounds (auth.go,      *)
(* pages.go, pager.go).                                                    *)
(***************************************************************************)
THEOREM WebTheorem == WebSpec => []WebTypeOK
<1>1. ListInv => List!TypeOK
  BY DEF ListInv
<1> QED
  BY <1>1, BothTables, TypeCorrect, ListInvariance, PTL DEF WebTypeOK

(***************************************************************************)
(* Whatever the page size and the number of items it is told, the pager's  *)
(* pages show each of the first Told jobs on exactly one page              *)
(* (pager.go:54-80, pages.go:171-175).                                     *)
(***************************************************************************)
THEOREM PartitionTheorem == List!Spec => []PagesPartition
<1>1. ListInv => PagesPartition
  BY PagesFollow DEF ListInv
<1> QED
  BY <1>1, ListInvariance, PTL

(***************************************************************************)
(* Whoever adds a job finds it on the first page of the answer, unless the *)
(* insert failed, the job was deleted or a pageful of newer ones came      *)
(* (pages.go:120-127, 166-182).                                            *)
(***************************************************************************)
THEOREM FreshTheorem == List!Spec => []FreshJobIsListed
<1>1. ListInv => FreshJobIsListed
  BY DEF ListInv
<1> QED
  BY <1>1, ListInvariance, PTL

(***************************************************************************)
(* A reader who turns the pages passes over no more jobs than were deleted *)
(* meanwhile or stood on a page that could not be read, and sees no more   *)
(* again than were added (pages.go:166-182).                               *)
(***************************************************************************)
THEOREM WalksTheorem == List!Spec => []WalksAreExplained
BY WalksFollow, ListInvariance, PTL

=============================================================================
