------------------------------ MODULE Cookies ------------------------------
(***************************************************************************)
(* What the web application keeps in a browser's cookies: the flash        *)
(* messages (pkg/msg/msg.go, pkg/session), which handlers set and the      *)
(* next page rendered shows and clears, and the token of echo's CSRF       *)
(* middleware (router.go:45), which every form must repeat. A request      *)
(* carries the cookies as they are when it is sent; a response replaces    *)
(* whole cookies when it arrives, so tabs of one browser interfere. The    *)
(* About page is kept with its headers and given to others                 *)
(* (template_renderer.go:168, middleware/cache.go:19). RegisterSubmit sets *)
(* one message from a goroutine, on a context that may have been given to  *)
(* another request by then (auth.go:312, 345).                             *)
(*                                                                         *)
(* The cookie of the token has no path (router.go:45-47): the browser      *)
(* keeps one for each directory of URLs, and sends the one of the longest  *)
(* directory first. "/" has the About page, the dashboard, /contact and    *)
(* POST /jobs, "/user" the pages of who is not logged in, "/jobs" DELETE   *)
(* /jobs/:id; the deeper ones of links in mails behave like "/user".       *)
(* Reading a part of a page, which has no token, is left to PageCache.     *)
(***************************************************************************)
EXTENDS Naturals, FiniteSets

CONSTANTS
    Browser,
    Tab,      \* a tab has at most one request in flight
    Owner,    \* Tab -> Browser
    Msg,      \* flash messages, each set once
    Token,    \* CSRF tokens, each drawn once
    None,
    MaxRequests  \* bound: requests sent

CookiesAssumption ==
    /\ Owner \in [Tab -> Browser] /\ {"no", "pool"} \intersect Tab = {}
    /\ None \notin Token \union Browser /\ MaxRequests \in Nat

Dir == {"/", "/user", "/jobs"}

VARIABLES
    jar,       \* Browser -> its cookies: msgs, and for each directory csrf
    kept,      \* the CachedPage of "/", NoPage for none
    phase,     \* Tab -> "idle", "handler" or "sent"
    request,   \* Tab -> the request in flight, with the messages of its session
    reply,     \* Tab -> the response on its way
    open,      \* Tab -> the token of the page it shows, if any, and its directory
    sent,      \* the number of requests sent
    late,      \* Msg -> the request (its Tab) whose context a goroutine will set
               \* it on, "pool" for a context in echo's pool, "no" for no goroutine
    setMsgs,   \* history: Msg -> the browser whose session it was set in, or None
    drawn,     \* the tokens drawn
    seen,      \* history: Msg -> pages rendered for its browser that showed it
    disturbed, \* history: browsers with overlapping requests, a lost response or
               \* a page that failed
    mixed      \* history: browsers whose tokens may differ from a page's

vars == <<jar, kept, phase, request, reply, open, sent, late, setMsgs, drawn, seen,
          disturbed, mixed>>

\* A page: the token its forms send, the messages it shows, where it is from.
Page(token, msgs, from) == [token |-> token, msgs |-> msgs, from |-> from]
NoPage == Page(None, {}, "none")

\* What a tab can ask for: the directory whose token goes first, and the one the
\* response's token is for.
Ask(kind, first, own) == [kind |-> kind, first |-> first, own |-> own]
NoReq == [kind |-> "none", own |-> "/", msgs |-> {}, csrf |-> None, form |-> None]

\* A link, or a redirect such as logging out.
Links ==
    {Ask("page", "/", "/"), Ask("page", "/user", "/user"), Ask("about", "/", "/"),
     Ask("redirect", "/", "/")}

\* The forms of a page: a "part" is answered with a part of the dashboard.
Forms(at) ==
    IF at = "/user" THEN {Ask("post", "/user", "/user")}
    ELSE {Ask("post", "/", "/"), Ask("part", "/jobs", "/"), Ask("part", "/jobs", "/jobs")}

\* The Set-Cookie headers of a response, by cookie: at most one value each.
Keep == {}
NoReply == [page |-> NoPage, msgs |-> Keep, csrf |-> Keep]

Pages(tokens, from) == [token : tokens, msgs : SUBSET Msg, from : from]

TypeOK ==
    /\ jar \in [Browser -> [msgs : SUBSET Msg, csrf : [Dir -> drawn \union {None}]]]
    /\ kept \in Pages(drawn, {"render"}) \union {NoPage}
    /\ phase \in [Tab -> {"idle", "handler", "sent"}]
    /\ \A t \in Tab :
        /\ request[t] \in [kind : {"none", "page", "about", "post", "part", "redirect"},
                           own : Dir, msgs : SUBSET Msg, csrf : drawn \union {None},
                           form : drawn \union {None}]
        /\ phase[t] = "sent" =>
              reply[t].page \in Pages(drawn, {"render", "failed", "part", "cache"})
                                \union Pages({None}, {"render", "redirect"})
        /\ open[t] \in [token : drawn \union {None}, at : {"/", "/user"}]
    /\ sent \in 0 .. MaxRequests
    /\ late \in [Msg -> {"no", "pool"} \union Tab]
    /\ setMsgs \in [Msg -> Browser \union {None}]
    /\ drawn \subseteq Token
    /\ seen \in [Msg -> 0 .. 2]
    /\ disturbed \subseteq Browser /\ mixed \subseteq Browser

Init ==
    /\ jar = [b \in Browser |-> [msgs |-> {}, csrf |-> [d \in Dir |-> None]]]
    /\ kept = NoPage
    /\ phase = [t \in Tab |-> "idle"]
    /\ request = [t \in Tab |-> NoReq]
    /\ reply = [t \in Tab |-> NoReply]
    /\ open = [t \in Tab |-> [token |-> None, at |-> "/"]]
    /\ sent = 0
    /\ late = [m \in Msg |-> "no"]
    /\ setMsgs = [m \in Msg |-> None]
    /\ drawn = {}
    /\ seen = [m \in Msg |-> 0]
    /\ disturbed = {} /\ mixed = {}

-----------------------------------------------------------------------------

InFlight(b) == {t \in Tab : Owner[t] = b /\ phase[t] # "idle"}

\* The token a request carries; every directory is inside "/".
Carried(b, first) ==
    IF jar[b].csrf[first] # None THEN jar[b].csrf[first] ELSE jar[b].csrf["/"]

\* Variant: a miss is served.
MutServed(kind) == kind = "about"

\* ServeCachedPage: for an About page of a visitor who is not logged in. One
\* who is gets it like any "page".
Served(kind) == kind = "about" /\ kept # NoPage

\* The headers of the cached page are set anew; of its Set-Cookie headers it
\* has the first only, the one of the CSRF middleware.
FromCache == [page |-> Page(kept.token, kept.msgs, "cache"), msgs |-> Keep, csrf |-> {kept.token}]

\* A link, or a form of the open page. The context may be one of the pool that
\* a goroutine still holds.
Send(t, a) ==
    /\ phase[t] = "idle"
    /\ sent < MaxRequests
    /\ sent' = sent + 1
    /\ a \in Links \/ (open[t].token # None /\ a \in Forms(open[t].at))
    /\ LET b == Owner[t]
       IN  /\ request' = [request EXCEPT ![t] =
                 [kind |-> a.kind, own |-> a.own, msgs |-> jar[b].msgs,
                  csrf |-> Carried(b, a.first), form |-> IF a \in Links THEN None ELSE open[t].token]]
           /\ IF Served(a.kind)
              THEN phase' = [phase EXCEPT ![t] = "sent"] /\ reply' = [reply EXCEPT ![t] = FromCache]
              ELSE phase' = [phase EXCEPT ![t] = "handler"] /\ UNCHANGED reply
           /\ disturbed' = IF InFlight(b) = {} THEN disturbed ELSE disturbed \union {b}
           /\ mixed' = IF InFlight(b) # {} /\ Carried(b, a.first) = None THEN mixed \union {b} ELSE mixed
    /\ \E taken \in SUBSET {m \in Msg : late[m] = "pool"} :
          late' = [m \in Msg |-> IF m \in taken THEN t ELSE late[m]]
    /\ UNCHANGED <<jar, kept, open, setMsgs, drawn, seen>>

\* Variant: a new token for every request.
MutCsrf(q) == Token \ drawn

\* The CSRF middleware keeps the token of the cookie, or draws one.
Csrf(q) == IF q.csrf # None THEN {q.csrf} ELSE Token \ drawn

\* It lets a form through whose token is that of the cookie.
IsForm(q) == q.kind \in {"post", "part"}
Passes(q) == IsForm(q) => q.form = q.csrf

\* Variant: Get shows the flash messages without saving the session.
MutRender(q, k, new) == [page |-> Page(k, q.msgs \union new, "render"), msgs |-> Keep,
                         csrf |-> IF k = None THEN Keep ELSE {k}]

\* page.GetMessages, called by the layouts: shows what the session holds, what
\* this request has set included, and saves the session if there was any.
Render(q, k, new) ==
    [page |-> Page(k, q.msgs \union new, "render"),
     msgs |-> IF q.msgs \union new = {} THEN Keep ELSE {{}},
     csrf |-> IF k = None THEN Keep ELSE {k}]

\* The template fails after it has taken the messages: the error page has none.
Failed(q, k, new) ==
    [page |-> Page(k, {}, "failed"), msgs |-> Render(q, k, new).msgs, csrf |-> {k}]

\* The layout of a part shows no messages.
RenderPart(k) == [page |-> Page(k, {}, "part"), msgs |-> Keep, csrf |-> {k}]

\* msg.Set adds to the session and saves it; the page is another request's.
Redirect(q, k, new) ==
    [page |-> Page(None, {}, "redirect"), msgs |-> {q.msgs \union new}, csrf |-> {k}]

Unset == {m \in Msg : setMsgs[m] = None /\ late[m] = "no"}

\* A handler sets one message, or two (LoginSubmit with sendVerificationEmail).
NewMsgs == {new \in SUBSET Unset : Cardinality(new) \in {1, 2}}

Answer(t, r, k, new) ==
    /\ phase' = [phase EXCEPT ![t] = "sent"]
    /\ reply' = [reply EXCEPT ![t] = r]
    /\ drawn' = IF k = None THEN drawn ELSE drawn \union {k}
    /\ setMsgs' = [m \in Msg |-> IF m \in new THEN Owner[t] ELSE setMsgs[m]]
    /\ UNCHANGED <<jar, request, open, sent, seen, mixed>>

Rendered(t) ==
    phase[t] = "handler" /\ request[t].kind \in {"page", "about", "post"} /\ Passes(request[t])

\* What a handler that renders a page may have set.
OwnMsgs(q) == IF q.kind = "post" THEN NewMsgs \union {{}} ELSE {{}}

\* A page rendered, with messages of its own if a form was sent. Keeping the
\* About page may fail.
AnswerPage(t) ==
    /\ Rendered(t)
    /\ \E k \in Csrf(request[t]), new \in OwnMsgs(request[t]) :
        LET r == Render(request[t], k, new)
        IN  /\ Answer(t, r, k, new)
            /\ kept' \in IF request[t].kind = "about" THEN {kept, r.page} ELSE {kept}
    /\ UNCHANGED <<late, disturbed>>

AnswerFailed(t) ==
    /\ Rendered(t)
    /\ \E k \in Csrf(request[t]), new \in OwnMsgs(request[t]) :
          Answer(t, Failed(request[t], k, new), k, new)
    /\ disturbed' = disturbed \union {Owner[t]}
    /\ UNCHANGED <<kept, late>>

AnswerPart(t) ==
    /\ phase[t] = "handler" /\ request[t].kind = "part" /\ Passes(request[t])
    /\ \E k \in Csrf(request[t]) : Answer(t, RenderPart(k), k, {})
    /\ UNCHANGED <<kept, late, disturbed>>

\* RegisterSubmit also starts the goroutine that sets another message later.
AnswerRedirect(t) ==
    /\ phase[t] = "handler" /\ request[t].kind \in {"redirect", "post"} /\ Passes(request[t])
    /\ \E k \in Csrf(request[t]), new \in NewMsgs :
        /\ Answer(t, Redirect(request[t], k, new), k, new)
        /\ \/ UNCHANGED late
           \/ /\ request[t].kind = "post" /\ request[t].own = "/user"
              /\ \E m \in Unset \ new : late' = [late EXCEPT ![m] = t]
    /\ UNCHANGED <<kept, disturbed>>

\* The middleware refuses the form: the error page, in the main layout, has no
\* token, as it is set only after the check.
AnswerRefusal(t) ==
    /\ phase[t] = "handler" /\ ~Passes(request[t])
    /\ Answer(t, Render(request[t], None, {}), None, {})
    /\ UNCHANGED <<kept, late, disturbed>>

Cookie(new, old) == IF new = Keep THEN old ELSE CHOOSE value \in new : TRUE

\* The mail has been sent and the message is set, in the session of whichever
\* request has the context now: before its page is rendered, or in the headers
\* that follow.
LateMsg(m) ==
    /\ late' = [late EXCEPT ![m] = "no"]
    /\ \E t \in Tab :
        /\ late[m] = t
        /\ setMsgs' = [setMsgs EXCEPT ![m] = Owner[t]]
        /\ \/ /\ phase[t] = "handler" /\ ~(request[t].kind = "part" /\ Passes(request[t]))
              /\ request' = [request EXCEPT ![t].msgs = @ \union {m}]
              /\ UNCHANGED reply
           \/ /\ phase[t] = "sent"
              /\ reply' = [reply EXCEPT ![t].msgs = {Cookie(@, request[t].msgs) \union {m}}]
              /\ UNCHANGED request
    /\ UNCHANGED <<jar, kept, phase, open, sent, drawn, seen, disturbed, mixed>>

\* The mail fails, or the context is in the pool or its headers are written.
LateLost(m) ==
    /\ late[m] # "no"
    /\ late' = [late EXCEPT ![m] = "no"]
    /\ UNCHANGED <<jar, kept, phase, request, reply, open, sent, setMsgs, drawn, seen,
                   disturbed, mixed>>

\* The request is over, and its context goes back to the pool.
Done(t) ==
    /\ phase' = [phase EXCEPT ![t] = "idle"]
    /\ reply' = [reply EXCEPT ![t] = NoReply]
    /\ request' = [request EXCEPT ![t] = NoReq]
    /\ late' = [m \in Msg |-> IF late[m] = t THEN "pool" ELSE late[m]]

\* DELETE /jobs/:id leaves the dashboard open.
At(own) == IF own = "/jobs" THEN "/" ELSE own

Receive(t) ==
    /\ phase[t] = "sent"
    /\ LET b == Owner[t]
           r == reply[t]
           own == request[t].own
           csrf == [jar[b].csrf EXCEPT ![own] = Cookie(r.csrf, jar[b].csrf[own])]
       IN  /\ jar' = [jar EXCEPT ![b] = [msgs |-> Cookie(r.msgs, jar[b].msgs), csrf |-> csrf]]
           /\ open' = [open EXCEPT ![t] = [token |-> r.page.token, at |-> At(own)]]
           /\ seen' = [m \in Msg |->
                         IF r.page.from = "render" /\ m \in r.page.msgs /\ seen[m] < 2
                         THEN seen[m] + 1 ELSE seen[m]]
           /\ mixed' = IF r.page.from = "cache" THEN mixed \union {b} ELSE mixed
    /\ Done(t)
    /\ UNCHANGED <<kept, sent, setMsgs, drawn, disturbed>>

\* The visitor goes elsewhere before the response arrives, the network fails, or
\* the timeout middleware has answered.
Lost(t) ==
    /\ phase[t] = "sent"
    /\ disturbed' = disturbed \union {Owner[t]}
    /\ Done(t)
    /\ UNCHANGED <<jar, kept, open, sent, setMsgs, drawn, seen, mixed>>

\* A token's cookie lasts for a day.
CookieExpires(b, d) ==
    /\ jar[b].csrf[d] # None
    /\ jar' = [jar EXCEPT ![b].csrf[d] = None]
    /\ mixed' = mixed \union {b}
    /\ UNCHANGED <<kept, phase, request, reply, open, sent, late, setMsgs, drawn, seen, disturbed>>

\* The cached page expires, or its tags are flushed.
Expire ==
    /\ kept # NoPage
    /\ kept' = NoPage
    /\ UNCHANGED <<jar, phase, request, reply, open, sent, late, setMsgs, drawn, seen,
                   disturbed, mixed>>

Next ==
    \/ Expire
    \/ \E b \in Browser, d \in Dir : CookieExpires(b, d)
    \/ \E m \in Msg : LateMsg(m) \/ LateLost(m)
    \/ \E t \in Tab :
        \/ \E a \in Links \union Forms("/") \union Forms("/user") : Send(t, a)
        \/ AnswerPage(t) \/ AnswerFailed(t) \/ AnswerPart(t) \/ AnswerRedirect(t) \/ AnswerRefusal(t)
        \/ Receive(t) \/ Lost(t)

Spec == Init /\ [][Next]_vars

-----------------------------------------------------------------------------

(***************************************************************************)
(* A browser whose requests never overlapped, got all their responses and  *)
(* had no page fail shows every flash message set in its session exactly   *)
(* once in a page rendered for it; until then its cookie holds the         *)
(* message. Pages from the cache, and parts of pages, in between make no   *)
(* difference (msg.go:54-77, page.go:155).                                 *)
(* This includes a message that the goroutine of RegisterSubmit has set in *)
(* the session of a visitor it was not meant for (auth.go:345); that it    *)
(* reaches its own visitor is not promised.                                *)
(***************************************************************************)
ShownOnce ==
    \A m \in Msg :
        LET b == setMsgs[m]
        IN  b # None /\ b \notin disturbed /\ InFlight(b) = {} =>
                seen[m] = IF m \in jar[b].msgs THEN 0 ELSE 1

(***************************************************************************)
(* A form of an open page is refused only if the browser has got a page of *)
(* the cache, has let a cookie expire, or has sent two requests at once    *)
(* the second of which had no token to carry: while none of this has       *)
(* happened the tokens of the directories agree with the pages             *)
(* (router.go:44-47).                                                      *)
(***************************************************************************)
RefusalsAreExplained ==
    \A t \in Tab :
        \A a \in Forms(open[t].at) :
            open[t].token \notin {None, Carried(Owner[t], a.first)} => Owner[t] \in mixed

=============================================================================
