------------------------------ MODULE Accounts ------------------------------
(***************************************************************************)
(* User accounts of the web application: registration, verification of the *)
(* address by a mailed link, login and logout by a session cookie, and the *)
(* reset of a forgotten password by a mailed link (pkg/handlers/auth.go,   *)
(* pkg/services/auth.go, pkg/middleware). Requests run concurrently; no    *)
(* transaction spans the statements of one. An account is identified with  *)
(* its address (unique index on email), a password with its hash.          *)
(***************************************************************************)
EXTENDS Naturals

CONSTANTS
    User,       \* addresses
    Password,
    Browser,
    Request,    \* bound: requests in flight that take more than one step
    MaxTokens   \* bound: password tokens ever issued

ASSUME AccountsAssumption == MaxTokens \in Nat

NoUser == "none"

VARIABLES
    accounts,   \* table users: those in its domain exist
    tokens,     \* table password_tokens: id -> its user
    issued,     \* the ids 1 .. issued have been given out
    outdated,   \* ids of tokens past their expiration
    linked,     \* ids of tokens whose link has been mailed
    verifyMail, \* addresses that hold a verification link still valid
    unsent,     \* addresses whose goroutine of RegisterSubmit has to mail the link
    cookie,     \* Browser -> the user its "ua" session is authenticated as
    stage,      \* Request -> where its handler is
    arg,        \* Request -> browser, user, password and token it works with
    owner,      \* history: id -> the user it was issued to
    revoked     \* history: ids given out to a user before a reset of his succeeded

tables == <<accounts, tokens, issued, owner>>
mails == <<linked, verifyMail, unsent>>
requests == <<stage, arg>>
vars == <<tables, outdated, mails, cookie, requests, revoked>>

Id == 1 .. MaxTokens
NoArg == [browser |-> NoUser, user |-> NoUser, password |-> NoUser, token |-> 0]

TypeOK ==
    /\ DOMAIN accounts \subseteq User
    /\ accounts \in [DOMAIN accounts -> [password : Password, verified : BOOLEAN]]
    /\ issued \in 0 .. MaxTokens
    /\ DOMAIN tokens \subseteq 1 .. issued
    /\ owner \in [1 .. issued -> DOMAIN accounts]
    /\ \A id \in DOMAIN tokens : tokens[id] = owner[id]
    /\ outdated \union linked \union revoked \subseteq 1 .. issued
    /\ verifyMail \union unsent \subseteq DOMAIN accounts
    /\ cookie \in [Browser -> User \union {NoUser}]
    /\ stage \in [Request -> {"idle", "login", "mail", "update", "delete"}]
    /\ \A r \in Request : stage[r] # "idle" => arg[r].user \in DOMAIN accounts

Init ==
    /\ accounts = << >> /\ tokens = << >> /\ issued = 0 /\ owner = << >>
    /\ outdated = {} /\ linked = {} /\ verifyMail = {} /\ unsent = {}
    /\ cookie = [b \in Browser |-> NoUser]
    /\ stage = [r \in Request |-> "idle"] /\ arg = [r \in Request |-> NoArg]
    /\ revoked = {}

-----------------------------------------------------------------------------

\* RequireNoAuthentication, on the user LoadAuthenticatedUser found.
Anonymous(b) == cookie[b] = NoUser

Begin(r, s, a) ==
    /\ stage[r] = "idle"
    /\ stage' = [stage EXCEPT ![r] = s]
    /\ arg' = [arg EXCEPT ![r] = a]

Goto(r, s) == stage' = [stage EXCEPT ![r] = s] /\ UNCHANGED arg

End(r) ==
    /\ stage' = [stage EXCEPT ![r] = "idle"]
    /\ arg' = [arg EXCEPT ![r] = NoArg]

\* MailClient.Send delivers the mail, or skips it outside production, or fails.
Send(mailed, link) == {mailed, mailed \union {link}}

(***************************************************************************)
(* Registration. The link is mailed by a goroutine of its own; nothing     *)
(* repeats it when generating or mailing fails.                            *)
(***************************************************************************)
Register(b, u, pw) ==
    /\ Anonymous(b)
    /\ u \notin DOMAIN accounts
    /\ accounts' = [v \in DOMAIN accounts \union {u} |->
          IF v = u THEN [password |-> pw, verified |-> FALSE] ELSE accounts[v]]
    /\ unsent' = unsent \union {u}
    /\ UNCHANGED <<tokens, issued, owner, outdated, linked, verifyMail, cookie,
                   requests, revoked>>

SendVerificationEmail(u) == verifyMail' \in Send(verifyMail, u)

\* The flash message that this goroutine sets when the mail is out, in a session
\* of whatever request has its context by then, is in Cookies.
MailAfterRegister(u) ==
    /\ u \in unsent
    /\ unsent' = unsent \ {u}
    /\ SendVerificationEmail(u)
    /\ UNCHANGED <<tables, outdated, linked, cookie, requests, revoked>>

(***************************************************************************)
(* LoginSubmit: an unverified account is sent another link, whatever the   *)
(* password. Comparing the hashes takes long enough for other requests.    *)
(***************************************************************************)
LoginUnverified(b, u) ==
    /\ Anonymous(b)
    /\ u \in DOMAIN accounts /\ ~accounts[u].verified
    /\ SendVerificationEmail(u)
    /\ UNCHANGED <<tables, outdated, linked, unsent, cookie, requests, revoked>>

\* Variant: the account need not be verified.
MutLogin(r, b, u, pw) ==
    /\ Anonymous(b)
    /\ u \in DOMAIN accounts
    /\ pw = accounts[u].password
    /\ Begin(r, "login", [NoArg EXCEPT !.browser = b, !.user = u])
    /\ UNCHANGED <<tables, outdated, mails, cookie, revoked>>

Login(r, b, u, pw) ==
    /\ Anonymous(b)
    /\ u \in DOMAIN accounts /\ accounts[u].verified
    /\ pw = accounts[u].password
    /\ Begin(r, "login", [NoArg EXCEPT !.browser = b, !.user = u])
    /\ UNCHANGED <<tables, outdated, mails, cookie, revoked>>

\* The response of the login sets the cookie.
LoggedIn(r) ==
    /\ stage[r] = "login"
    /\ cookie' = [cookie EXCEPT ![arg[r].browser] = arg[r].user]
    /\ End(r)
    /\ UNCHANGED <<tables, outdated, mails, revoked>>

Logout(b) ==
    /\ ~Anonymous(b)
    /\ cookie' = [cookie EXCEPT ![b] = NoUser]
    /\ UNCHANGED <<tables, outdated, mails, requests, revoked>>

(***************************************************************************)
(* VerifyEmail, with a link that ValidateEmailVerificationToken accepts.   *)
(* Whether the row comes from the session or from a query by address, it   *)
(* is the one with the address of the link.                                *)
(***************************************************************************)
VerifyEmail(email) ==
    /\ email \in verifyMail
    /\ accounts' = [accounts EXCEPT ![email].verified = TRUE]
    /\ UNCHANGED <<tokens, issued, owner, outdated, mails, cookie, requests, revoked>>

\* The JWT expires; following the link changes nothing then.
LinkExpires(u) ==
    /\ u \in verifyMail
    /\ verifyMail' = verifyMail \ {u}
    /\ UNCHANGED <<tables, outdated, linked, unsent, cookie, requests, revoked>>

\* Variant: the address need not belong to an account.
MutForgotPassword(r, b, u) ==
    /\ Anonymous(b)
    /\ issued < MaxTokens
    /\ issued' = issued + 1
    /\ tokens' = [id \in DOMAIN tokens \union {issued'} |->
          IF id = issued' THEN u ELSE tokens[id]]
    /\ owner' = [id \in 1 .. issued' |-> IF id = issued' THEN u ELSE owner[id]]
    /\ Begin(r, "mail", [NoArg EXCEPT !.browser = b, !.user = u, !.token = issued'])
    /\ UNCHANGED <<accounts, outdated, mails, cookie, revoked>>

(***************************************************************************)
(* ForgotPasswordSubmit: a token row, then the mail, which may fail.       *)
(***************************************************************************)
ForgotPassword(r, b, u) ==
    /\ Anonymous(b)
    /\ u \in DOMAIN accounts
    /\ issued < MaxTokens
    /\ issued' = issued + 1
    /\ tokens' = [id \in DOMAIN tokens \union {issued'} |->
          IF id = issued' THEN u ELSE tokens[id]]
    /\ owner' = [id \in 1 .. issued' |-> IF id = issued' THEN u ELSE owner[id]]
    /\ Begin(r, "mail", [NoArg EXCEPT !.browser = b, !.user = u, !.token = issued'])
    /\ UNCHANGED <<accounts, outdated, mails, cookie, revoked>>

MailLink(r) ==
    /\ stage[r] = "mail"
    /\ linked' \in Send(linked, arg[r].token)
    /\ End(r)
    /\ UNCHANGED <<tables, outdated, verifyMail, unsent, cookie, revoked>>

TokenExpires(id) ==
    /\ id \in 1 .. issued \ outdated
    /\ outdated' = outdated \union {id}
    /\ UNCHANGED <<tables, mails, cookie, requests, revoked>>

(***************************************************************************)
(* ResetPasswordSubmit, behind LoadUser and LoadValidPasswordToken: check  *)
(* the token, hash, update the row, delete the user's tokens.              *)
(***************************************************************************)
GetValidPasswordToken(u, id) == id \in DOMAIN tokens \ outdated /\ tokens[id] = u

ResetPassword(r, b, id, pw) ==
    /\ Anonymous(b)
    /\ id \in linked
    /\ GetValidPasswordToken(owner[id], id)
    /\ Begin(r, "update", [browser |-> b, user |-> owner[id], password |-> pw, token |-> id])
    /\ UNCHANGED <<tables, outdated, mails, cookie, revoked>>

UpdatePassword(r) ==
    /\ stage[r] = "update"
    /\ accounts' = [accounts EXCEPT ![arg[r].user].password = arg[r].password]
    /\ Goto(r, "delete")
    /\ UNCHANGED <<tokens, issued, owner, outdated, mails, cookie, revoked>>

OfUser(u) == {id \in 1 .. issued : owner[id] = u}

\* Variant: only the token that was used is deleted.
MutKept(u, id) == DOMAIN tokens \ {id}

\* Which rows the deletion leaves.
Kept(u, id) == {i \in DOMAIN tokens : tokens[i] # u}

DeletePasswordTokens(r) ==
    /\ stage[r] = "delete"
    /\ LET left == Kept(arg[r].user, arg[r].token)
       IN  tokens' = [i \in left |-> tokens[i]]
    /\ revoked' = revoked \union OfUser(arg[r].user)
    /\ End(r)
    /\ UNCHANGED <<accounts, issued, owner, outdated, mails, cookie>>

\* The session is not saved.
LoginFails(r) ==
    /\ stage[r] = "login"
    /\ End(r)
    /\ UNCHANGED <<tables, outdated, mails, cookie, revoked>>

\* A statement fails and the handler returns its error; a password that has been
\* updated by then stays so, and the tokens stay too.
ResetFails(r) ==
    /\ stage[r] \in {"update", "delete"}
    /\ End(r)
    /\ UNCHANGED <<tables, outdated, mails, cookie, revoked>>

-----------------------------------------------------------------------------

Next ==
    \/ \E b \in Browser, u \in User :
        \/ \E pw \in Password :
              Register(b, u, pw) \/ \E r \in Request : Login(r, b, u, pw)
        \/ LoginUnverified(b, u)
        \/ \E r \in Request : ForgotPassword(r, b, u)
    \/ \E b \in Browser :
        \/ Logout(b)
        \/ \E r \in Request, id \in Id, pw \in Password : ResetPassword(r, b, id, pw)
    \/ \E u \in User : MailAfterRegister(u) \/ VerifyEmail(u) \/ LinkExpires(u)
    \/ \E r \in Request :
        \/ LoggedIn(r) \/ LoginFails(r) \/ MailLink(r)
        \/ UpdatePassword(r) \/ DeletePasswordTokens(r) \/ ResetFails(r)
    \/ \E id \in Id : TokenExpires(id)

Spec == Init /\ [][Next]_vars

-----------------------------------------------------------------------------

(***************************************************************************)
(* No browser is logged in to an account whose address is not verified,    *)
(* however its requests overlap (auth.go:221-236).                         *)
(***************************************************************************)
SessionsAreVerified ==
    \A b \in Browser : ~Anonymous(b) => cookie[b] \in DOMAIN accounts /\ accounts[cookie[b]].verified

(***************************************************************************)
(* After a reset has succeeded no link given out to that user before, used *)
(* or not, mailed or still to be mailed, starts another reset              *)
(* (services/auth.go:183-191, handlers/auth.go:388-392).                   *)
(***************************************************************************)
RevokedLinksAreDead ==
    [][\A r \in Request :
          stage[r] = "idle" /\ stage'[r] = "update" => arg'[r].token \notin revoked]_vars

=============================================================================
