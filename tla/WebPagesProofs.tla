--------------------------- MODULE WebPagesProofs ---------------------------
(***************************************************************************)
(* Proofs about the template cache and the page cache, for any browsers    *)
(* and any number of requests in flight, and about cookies.                *)
(***************************************************************************)
EXTENDS WebPages, TLAPS

\* A parsed template has the layout every request with its key wants.
TemplatesOK ==
    \A a \in Asked : <<Group(a), Shown(a)>> \in DOMAIN templates =>
        templates[<<Group(a), Shown(a)>>] = Wanted(a)

\* The page in the cache was made for nobody in particular.
CachedOK == cached # NoPage => ~cached.isAuth

RequestsOK == req \in [Request -> Asked \union {NoPage}] /\ view \in [Request -> View \union {NoPage}]

IInv == TypeOK /\ RequestsOK /\ TemplatesOK /\ CachedOK /\ PersonalPagesAreNotShared

-----------------------------------------------------------------------------

\* What a handler sends for a request.
LEMMA RenderType ==
    ASSUME NEW a \in Asked, TypeOK
    PROVE  Render(a) \in View /\ Render(a).isAuth = a.isAuth
<1>1. Shown(a) \in PageName /\ Wanted(a) \in Layout
  BY DEF Asked, Shown, PageName, Wanted, LayoutOf, LoginLayout, Layout
<1>2. Parsed(<<Group(a), Shown(a)>>, Wanted(a)) \in Layout
  BY <1>1 DEF Parsed, TypeOK
<1>3. a.isAuth \in BOOLEAN
  BY DEF Asked
<1> QED
  BY <1>1, <1>2, <1>3 DEF Render, View

\* Requests with the same key want the same layout.
LEMMA KeysAgree ==
    ASSUME NEW a \in Asked, NEW b \in Asked, Group(a) = Group(b), Shown(a) = Shown(b)
    PROVE  Wanted(a) = Wanted(b)
<1>1. Partial(a) <=> Partial(b)
  BY DEF Group
<1> QED
  BY <1>1 DEF Wanted

LEMMA InitInv == Init => IInv
BY DEF Init, IInv, TypeOK, RequestsOK, TemplatesOK, CachedOK, PersonalPagesAreNotShared

LEMMA ArriveInv ==
    ASSUME IInv, NEW r \in Request, NEW b \in Browser, NEW p \in PageName \ {"error"},
           NEW h \in {"no", "boosted", "part"}, Arrive(r, b, p, h)
    PROVE  IInv'
<1> DEFINE a == [page |-> p, htmx |-> h, isAuth |-> b \in loggedIn]
<1>1. a \in Asked
  BY DEF Asked
<1>2. UNCHANGED <<loggedIn, templates, cached>> /\ req' = [req EXCEPT ![r] = a]
  BY DEF Arrive
<1>3. CASE Served(a)
  <2>1. stage' = [stage EXCEPT ![r] = "shown"] /\ view' = [view EXCEPT ![r] = cached]
    BY <1>3 DEF Arrive
  <2>2. cached \in View /\ ~cached.isAuth /\ ~a.isAuth
    BY <1>3 DEF Served, IInv, TypeOK, CachedOK
  <2> HIDE DEF a
  <2>3. /\ req'[r] = a /\ view'[r] = cached /\ stage'[r] = "shown"
        /\ \A q \in Request \ {r} : req'[q] = req[q] /\ view'[q] = view[q] /\ stage'[q] = stage[q]
        /\ stage' \in [Request -> {"idle", "handler", "shown"}] /\ RequestsOK'
    BY <1>1, <1>2, <2>1, <2>2 DEF IInv, TypeOK, RequestsOK
  <2>4. a.isAuth \in BOOLEAN /\ cached.isAuth \in BOOLEAN
    BY <1>1, <2>2 DEF Asked, View
  <2>5. TypeOK'
    BY <1>1, <1>2, <2>2, <2>3 DEF IInv, TypeOK
  <2>6. PersonalPagesAreNotShared'
    BY <2>2, <2>3, <2>4 DEF IInv, PersonalPagesAreNotShared
  <2> QED
    BY <1>2, <2>3, <2>5, <2>6 DEF IInv, TemplatesOK, CachedOK
<1>4. CASE ~Served(a)
  <2>1. stage' = [stage EXCEPT ![r] = "handler"] /\ view' = view
    BY <1>4 DEF Arrive
  <2> HIDE DEF a
  <2> QED
    BY <1>1, <1>2, <2>1 DEF IInv, TypeOK, RequestsOK, TemplatesOK, CachedOK,
                                    PersonalPagesAreNotShared
<1> QED
  BY <1>3, <1>4

\* What the template cache holds after a page has been parsed.
LEMMA StoredInv ==
    ASSUME IInv, NEW a \in Asked, templates' = Stored(a)
    PROVE  templates' \in [DOMAIN templates' -> Layout] /\ TemplatesOK'
<1> DEFINE v == Render(a)
           key == <<Group(a), Shown(a)>>
<1>1. templates' = [k \in DOMAIN templates \union {key} |-> IF k = key THEN v.layout ELSE templates[k]]
  BY DEF Stored
<1>2. v \in View
  BY RenderType DEF IInv
<1>3. v.layout = Wanted(a)
  BY DEF Render, Parsed, IInv, TemplatesOK
<1>4. templates' \in [DOMAIN templates' -> Layout]
  <2>1. v.layout \in Layout
    BY <1>2 DEF View
  <2> HIDE DEF v, key
  <2> QED
    BY <1>1, <2>1 DEF IInv, TypeOK
<1>5. TemplatesOK'
  <2> SUFFICES ASSUME NEW b \in Asked, <<Group(b), Shown(b)>> \in DOMAIN templates'
               PROVE  templates'[<<Group(b), Shown(b)>>] = Wanted(b)
    BY DEF TemplatesOK
  <2>1. CASE <<Group(b), Shown(b)>> = key
    <3>1. Wanted(a) = Wanted(b)
      BY <2>1, KeysAgree
    <3> QED
      BY <1>1, <1>3, <2>1, <3>1
  <2>2. CASE <<Group(b), Shown(b)>> # key
    BY <1>1, <2>2 DEF IInv, TemplatesOK
  <2> QED
    BY <2>1, <2>2
<1> QED
  BY <1>4, <1>5

LEMMA RespondInv ==
    ASSUME IInv, NEW r \in Request, Respond(r) PROVE IInv'
<1> DEFINE a == req[r]
           v == Render(a)
<1>1. /\ stage[r] = "handler" /\ UNCHANGED <<loggedIn, req>>
      /\ templates' = Stored(a) /\ cached' \in {CachePage(a, v), cached}
      /\ view' = [view EXCEPT ![r] = v] /\ stage' = [stage EXCEPT ![r] = "shown"]
  BY DEF Respond
<1>2. a \in Asked /\ v \in View /\ v.isAuth = a.isAuth
  BY <1>1, RenderType DEF IInv, TypeOK
<1>3. templates' \in [DOMAIN templates' -> Layout] /\ TemplatesOK'
  BY <1>1, <1>2, StoredInv
<1>4. cached' \in View \union {NoPage} /\ CachedOK'
  BY <1>1, <1>2 DEF CachePage, IInv, TypeOK, CachedOK
<1> HIDE DEF v
<1>5. RequestsOK' /\ view'[r] = v /\ \A q \in Request \ {r} : view'[q] = view[q]
  BY <1>1, <1>2 DEF IInv, RequestsOK
<1>6. /\ stage' \in [Request -> {"idle", "handler", "shown"}] /\ stage'[r] = "shown"
      /\ \A q \in Request \ {r} : stage'[q] = stage[q]
  BY <1>1 DEF IInv, TypeOK
<1>7. TypeOK'
  BY <1>1, <1>2, <1>3, <1>4, <1>5, <1>6 DEF IInv, TypeOK
<1>8. PersonalPagesAreNotShared'
  BY <1>1, <1>2, <1>5, <1>6 DEF IInv, PersonalPagesAreNotShared
<1> QED
  BY <1>3, <1>4, <1>5, <1>7, <1>8 DEF IInv

LEMMA RenderFailsInv ==
    ASSUME IInv, NEW r \in Request, RenderFails(r) PROVE IInv'
<1>1. /\ stage[r] = "handler" /\ UNCHANGED <<loggedIn, cached, view>> /\ req[r] \in Asked
      /\ templates' \in {templates, Stored(req[r])}
  BY DEF RenderFails, IInv, TypeOK
<1>2. templates' \in [DOMAIN templates' -> Layout] /\ TemplatesOK'
  BY <1>1, StoredInv DEF IInv, TypeOK, TemplatesOK
<1>3. PICK s \in {"idle", "handler"}, x \in Asked \union {NoPage} :
          /\ stage' = [stage EXCEPT ![r] = s] /\ req' = [req EXCEPT ![r] = x]
          /\ s = "handler" => x \in Asked
  <2>1. CASE Shown(req[r]) = "error"
    <3>1. stage' = [stage EXCEPT ![r] = "idle"] /\ req' = [req EXCEPT ![r] = NoPage]
      BY <2>1 DEF RenderFails
    <3> QED
      BY <3>1
  <2>2. CASE Shown(req[r]) # "error"
    <3> DEFINE x == [page |-> "error", htmx |-> "no", isAuth |-> req[r].isAuth]
    <3>1. stage' = stage /\ req' = [req EXCEPT ![r] = x]
      BY <2>2 DEF RenderFails, IInv, RequestsOK
    <3>2. x \in Asked
      BY <1>1 DEF Asked, PageName
    <3>3. stage' = [stage EXCEPT ![r] = "handler"]
      BY <1>1, <3>1 DEF IInv, TypeOK
    <3> QED
      BY <3>1, <3>2, <3>3
  <2> QED
    BY <2>1, <2>2
<1>4. /\ stage' \in [Request -> {"idle", "handler", "shown"}] /\ stage'[r] = s /\ req'[r] = x
      /\ \A q \in Request \ {r} : stage'[q] = stage[q] /\ req'[q] = req[q]
      /\ RequestsOK'
  BY <1>1, <1>3 DEF IInv, TypeOK, RequestsOK
<1>5. TypeOK'
  BY <1>1, <1>2, <1>3, <1>4 DEF IInv, TypeOK
<1>6. PersonalPagesAreNotShared'
  BY <1>1, <1>4 DEF IInv, PersonalPagesAreNotShared
<1> QED
  BY <1>1, <1>2, <1>4, <1>5, <1>6 DEF IInv, CachedOK

LEMMA NextInv == IInv /\ [Next]_vars => IInv'
<1> SUFFICES ASSUME IInv, [Next]_vars PROVE IInv'
  OBVIOUS
<1> USE DEF IInv, TypeOK, RequestsOK, TemplatesOK, CachedOK, PersonalPagesAreNotShared
<1>1. CASE UNCHANGED vars
  BY <1>1 DEF vars
<1>2. CASE Expire
  BY <1>2 DEF Expire
<1>3. ASSUME NEW b \in Browser, ChangeSession(b) PROVE IInv'
  BY <1>3 DEF ChangeSession
<1>4. ASSUME NEW r \in Request, Read(r) PROVE IInv'
  BY <1>4 DEF Read
<1>5. ASSUME NEW r \in Request, Respond(r) PROVE IInv'
  BY <1>5, RespondInv
<1>7. ASSUME NEW r \in Request, RenderFails(r) PROVE IInv'
  BY <1>7, RenderFailsInv
<1>6. ASSUME NEW r \in Request, NEW b \in Browser, NEW p \in PageName \ {"error"},
             NEW h \in {"no", "boosted", "part"}, Arrive(r, b, p, h) PROVE IInv'
  BY <1>6, ArriveInv
<1> QED
  BY <1>1, <1>2, <1>3, <1>4, <1>5, <1>6, <1>7 DEF Next

LEMMA Invariance == Spec => []IInv
BY InitInv, NextInv, PTL DEF Spec

\* The renderer's caches and the requests have their types in every reachable
\* state.
THEOREM TypeCorrect == Spec => []TypeOK
<1>1. IInv => TypeOK
  BY DEF IInv
<1> QED
  BY <1>1, Invariance, PTL

\* A page made for a user logged in goes to that request only
\* (template_renderer.go:170, middleware/cache.go:27-30).
THEOREM PersonalTheorem == Spec => []PersonalPagesAreNotShared
<1>1. IInv => PersonalPagesAreNotShared
  BY DEF IInv
<1> QED
  BY <1>1, Invariance, PTL

\* The template cache never yields the layout of another kind of request
\* (template_renderer.go:114-140, 254-294).
THEOREM TemplatesTheorem == Spec => []TemplatesFit
<1>1. IInv => TemplatesFit
  BY DEF IInv, TypeOK, TemplatesOK, TemplatesFit, Render, Parsed
<1> QED
  BY <1>1, Invariance, PTL

-----------------------------------------------------------------------------
(***************************************************************************)
(* Cookies, for any visitors with any tabs, messages and tokens, and any   *)
(* number of requests. The invariant says of each tab what it has in       *)
(* flight, and of each browser what its cookies are.                       *)
(***************************************************************************)
TokenOrNone == Token \union {None}

Kinds == {"none", "page", "about", "post", "part", "redirect"}

Requests == [kind : Kinds, own : Jar!Dir, msgs : SUBSET Msg, csrf : TokenOrNone, form : TokenOrNone]

Replies == [page : [token : TokenOrNone, msgs : SUBSET Msg,
                    from : {"none", "render", "failed", "part", "redirect", "cache"}],
            msgs : {{}} \union {{set} : set \in SUBSET Msg},
            csrf : {{}} \union {{k} : k \in Token}]

BaseTypes ==
    /\ jar \in [Visitor -> [msgs : SUBSET Msg, csrf : [Jar!Dir -> drawn \union {None}]]]
    /\ kept \in Jar!Pages(drawn, {"render"}) \union {Jar!NoPage}
    /\ phase \in [Tab -> {"idle", "handler", "sent"}]
    /\ request \in [Tab -> Requests]
    /\ reply \in [Tab -> Replies]
    /\ open \in [Tab -> [token : TokenOrNone, at : {"/", "/user"}]]
    /\ sent \in 0 .. MaxRequests
    /\ late \in [Msg -> {"no", "pool"} \union Tab]
    /\ setMsgs \in [Msg -> Visitor \union {None}]
    /\ drawn \subseteq Token
    /\ seen \in [Msg -> 0 .. 2]
    /\ disturbed \subseteq Visitor /\ mixed \subseteq Visitor

\* The page of a response has the token of its header, or none.
TabTypes(t) ==
    /\ request[t].csrf \in drawn \union {None} /\ request[t].form \in drawn \union {None}
    /\ open[t].token \in drawn \union {None}
    /\ reply[t].csrf \subseteq drawn
    /\ reply[t].page.token # None => reply[t].csrf = {reply[t].page.token}
    /\ phase[t] = "sent" =>
          /\ reply[t].page.token = None => reply[t].page.from \in {"render", "redirect"}
          /\ reply[t].page.token # None =>
                reply[t].page.from \in {"render", "failed", "part", "cache"}

JarTypes == BaseTypes /\ \A t \in Tab : TabTypes(t)

\* The browser has at most one request in flight.
Alone(b) == \A t, u \in Jar!InFlight(b) : t = u

\* The token of the pages of a directory, in a browser that is not mixed.
Current(b, own) == Jar!Carried(b, IF own = "/user" THEN "/user" ELSE "/")

\* While a browser is not mixed a token is drawn for one request at a time, and
\* its pages, what it sends and what it gets agree with its cookies.
JarTokens(b) ==
    b \notin mixed =>
        /\ jar[b].csrf["/jobs"] \in {None, jar[b].csrf["/"]}
        /\ jar[b].csrf["/"] = None =>
              \A t, u \in Jar!InFlight(b) :
                  t = u \/ request[t].own = "/user" \/ request[u].own = "/user"
        /\ Current(b, "/user") = None => Alone(b)

TabTokens(t) ==
    LET b == Owner[t]
        now == Current(b, request[t].own)
    IN  b \notin mixed =>
            /\ open[t].token \in {None, jar[b].csrf[open[t].at]}
            /\ phase[t] = "handler" => request[t].csrf = now
            /\ phase[t] # "idle" /\ request[t].own = "/jobs" => jar[b].csrf["/"] # None
            /\ phase[t] = "sent" /\ reply[t].page.from # "cache" /\ now # None =>
                  reply[t].csrf \subseteq {now}

TokensAgree == (\A b \in Visitor : JarTokens(b)) /\ \A t \in Tab : TabTokens(t)

\* The messages set in the session of a tab.
Own(t) == {m \in Msg : setMsgs[m] = Owner[t]}

\* No browser holds, sends or gets a message of another, but in a cached page.
TabOwned(t) ==
    /\ request[t].msgs \subseteq Own(t)
    /\ reply[t].page.from = "render" => reply[t].page.msgs \subseteq Own(t)
    /\ UNION reply[t].msgs \subseteq Own(t)

MsgsAreOwned ==
    /\ \A b \in Visitor : \A m \in jar[b].msgs : setMsgs[m] = b
    /\ \A t \in Tab : TabOwned(t)
    /\ \A m \in Msg : setMsgs[m] = None => seen[m] = 0
    /\ \A m \in Msg : late[m] # "no" => setMsgs[m] = None

\* What a response adds to the pages that showed a message.
Shows(r, m) == IF r.page.from = "render" /\ m \in r.page.msgs THEN 1 ELSE 0

\* Where a message of an undisturbed browser is: in the session of the request,
\* in the response that has just taken it out, or shown.
TabMsgs(t) ==
    LET b == Owner[t]
        q == request[t]
        r == reply[t]
    IN  b \notin disturbed =>
            /\ Alone(b)
            /\ phase[t] = "handler" =>
                  /\ jar[b].msgs \subseteq q.msgs
                  /\ q.kind = "part" /\ Jar!Passes(q) => q.msgs = jar[b].msgs
                  /\ \A m \in Own(t) : seen[m] = IF m \in q.msgs THEN 0 ELSE 1
            /\ phase[t] = "sent" =>
                  /\ r.msgs = {} => q.msgs = jar[b].msgs
                  /\ \A m \in Own(t) :
                        seen[m] + Shows(r, m) = IF m \in Jar!Cookie(r.msgs, jar[b].msgs) THEN 0 ELSE 1

MsgsAreSomewhere == \A t \in Tab : TabMsgs(t)

JarInv ==
    /\ JarTypes
    /\ TokensAgree
    /\ MsgsAreOwned
    /\ MsgsAreSomewhere
    /\ ShownOnce

-----------------------------------------------------------------------------

LEMMA Assumed ==
    /\ Owner \in [Tab -> Visitor] /\ None \notin Token /\ None \notin Visitor
    /\ {"no", "pool"} \intersect Tab = {} /\ MaxRequests \in Nat
BY JarAssumption DEF Jar!CookiesAssumption

LEMMA CookieValue ==
    /\ \A old : Jar!Cookie({}, old) = old
    /\ \A old, x : Jar!Cookie({x}, old) = x
BY DEF Jar!Cookie, Jar!Keep

LEMMA TypesImply == JarTypes => Jar!TypeOK
<1> SUFFICES ASSUME JarTypes PROVE Jar!TypeOK
  OBVIOUS
<1> USE DEF JarTypes
<1>1. ASSUME NEW t \in Tab
      PROVE  /\ request[t] \in [kind : {"none", "page", "about", "post", "part", "redirect"},
                                own : Jar!Dir, msgs : SUBSET Msg, csrf : drawn \union {None},
                                form : drawn \union {None}]
             /\ open[t] \in [token : drawn \union {None}, at : {"/", "/user"}]
  BY DEF BaseTypes, TabTypes, Requests, Kinds
<1>2. ASSUME NEW t \in Tab, phase[t] = "sent"
      PROVE  reply[t].page \in Jar!Pages(drawn, {"render", "failed", "part", "cache"})
                                 \union Jar!Pages({None}, {"render", "redirect"})
  <2>1. /\ reply[t] \in Replies /\ TabTypes(t)
        /\ reply[t].page.token # None => reply[t].page.token \in drawn
    BY DEF BaseTypes, TabTypes
  <2> QED
    BY <1>2, <2>1 DEF TabTypes, Replies, Jar!Pages
<1> QED
  BY <1>1, <1>2 DEF BaseTypes, Jar!TypeOK

LEMMA JarInit == Jar!Init => JarInv
<1> SUFFICES ASSUME Jar!Init PROVE JarInv
  OBVIOUS
<1> USE Assumed DEF Jar!Init
<1>1. Jar!NoReq \in Requests /\ Jar!NoReply \in Replies
  BY DEF Jar!NoPage, Jar!Page, Jar!NoReq, Jar!NoReply, Jar!Keep, Requests, Replies, TokenOrNone,
         Kinds, Jar!Dir
<1>2. JarTypes
  BY <1>1 DEF JarTypes, BaseTypes, TabTypes, Jar!Pages, Jar!NoPage, Jar!Page, Jar!NoReq, Jar!NoReply,
         Jar!Keep, TokenOrNone
<1>3. \A b \in Visitor : Jar!InFlight(b) = {}
  BY DEF Jar!InFlight
<1>4. TokensAgree
  <2>1. \A b \in Visitor : JarTokens(b)
    BY <1>3 DEF JarTokens, Alone, Jar!Dir
  <2>2. \A t \in Tab : TabTokens(t)
    BY DEF TabTokens
  <2> QED
    BY <2>1, <2>2 DEF TokensAgree
<1>5. MsgsAreSomewhere /\ ShownOnce
  BY <1>3 DEF MsgsAreSomewhere, TabMsgs, Alone, ShownOnce, Jar!ShownOnce
<1>6. MsgsAreOwned
  BY DEF MsgsAreOwned, TabOwned, Own, Jar!NoReq, Jar!NoReply, Jar!Keep, Jar!NoPage, Jar!Page
<1> QED
  BY <1>2, <1>4, <1>5, <1>6 DEF JarInv

\* A step of one tab.
Only(t) ==
    \A u \in Tab \ {t} : /\ phase'[u] = phase[u] /\ request'[u] = request[u]
                         /\ reply'[u] = reply[u] /\ open'[u] = open[u]

LEMMA TypesStep ==
    ASSUME JarTypes, NEW t \in Tab, Only(t), drawn \subseteq drawn', BaseTypes', TabTypes(t)'
    PROVE  JarTypes'
<1>1. \A u \in Tab : TabTypes(u)'
  BY DEF JarTypes, Only, TabTypes
<1> QED
  BY <1>1 DEF JarTypes

-----------------------------------------------------------------------------

\* Nothing has been heard of a message yet.
Fresh(new) == \A m \in new : m \in Msg /\ setMsgs[m] = None /\ late[m] = "no"

\* What a handler may answer: the token is the request's, or a new one; the
\* messages are the session's and those it sets, in the page or in the cookie.
Answered(t, r, k, new) ==
    /\ phase[t] = "handler" /\ Jar!Answer(t, r, k, new)
    /\ r \in Replies /\ k \in TokenOrNone /\ Fresh(new)
    /\ r.csrf = (IF k = None THEN {} ELSE {k}) /\ r.page.token \in {None, k}
    /\ k # None /\ request[t].csrf # None => k = request[t].csrf
    /\ r.page.token = None => r.page.from \in {"render", "redirect"}
    /\ r.page.token # None => r.page.from \in {"render", "failed", "part"}
    /\ r.page.msgs \subseteq request[t].msgs \union new
    /\ UNION r.msgs \subseteq request[t].msgs \union new
    /\ disturbed' = disturbed \union {Owner[t]}
       \/ /\ disturbed' = disturbed
          /\ \/ /\ r.page.from = "render" /\ r.page.msgs = request[t].msgs \union new
                /\ r.msgs = IF r.page.msgs = {} THEN {} ELSE {{}}
             \/ /\ r.page.from = "part" /\ r.msgs = {} /\ new = {}
                /\ request[t].kind = "part" /\ Jar!Passes(request[t])
             \/ r.page.from = "redirect" /\ r.msgs = {request[t].msgs \union new}
    /\ kept' = kept \/ (kept' = r.page /\ r.page.from = "render" /\ r.page.token # None)
    /\ late' = late \/ \E m \in Msg \ new : setMsgs[m] = None /\ late' = [late EXCEPT ![m] = t]

LEMMA IsReply ==
    ASSUME NEW token \in TokenOrNone, NEW msgs \in SUBSET Msg,
           NEW from \in {"none", "render", "failed", "part", "redirect", "cache"},
           NEW x, x = {} \/ \E set \in SUBSET Msg : x = {set},
           NEW y, y = {} \/ \E k \in Token : y = {k}
    PROVE  [page |-> [token |-> token, msgs |-> msgs, from |-> from], msgs |-> x, csrf |-> y] \in Replies
<1>1. x \in {{}} \union {{set} : set \in SUBSET Msg}
  OBVIOUS
<1>2. y \in {{}} \union {{k} : k \in Token}
  OBVIOUS
<1> QED
  BY <1>1, <1>2 DEF Replies

LEMMA NewToken ==
    ASSUME JarInv, NEW t \in Tab, NEW k \in Jar!Csrf(request[t])
    PROVE  k \in Token /\ k # None /\ (request[t].csrf # None => k = request[t].csrf)
<1>1. request[t].csrf \in TokenOrNone
  BY DEF JarInv, JarTypes, BaseTypes, Requests
<1> QED
  BY <1>1, Assumed DEF Jar!Csrf, TokenOrNone

LEMMA NewMsgsAreFresh ==
    /\ \A new \in Jar!NewMsgs \union {{}} : Fresh(new) /\ new \in SUBSET Msg
    /\ \A q : Jar!OwnMsgs(q) \subseteq Jar!NewMsgs \union {{}}
BY DEF Jar!NewMsgs, Jar!Unset, Jar!OwnMsgs, Fresh

LEMMA PageAnswered ==
    ASSUME JarInv, NEW t \in Tab, Jar!AnswerPage(t) PROVE \E r, k, new : Answered(t, r, k, new)
<1> DEFINE q == request[t]
<1>1. PICK k \in Jar!Csrf(q), new \in Jar!OwnMsgs(q) :
          /\ Jar!Answer(t, Jar!Render(q, k, new), k, new)
          /\ kept' \in {kept, Jar!Render(q, k, new).page}
  BY DEF Jar!AnswerPage
<1>2. phase[t] = "handler" /\ UNCHANGED <<late, disturbed>>
  BY DEF Jar!AnswerPage, Jar!Rendered
<1>3. k \in Token /\ k \in TokenOrNone /\ k # None /\ (q.csrf # None => k = q.csrf)
  BY <1>1, NewToken DEF TokenOrNone
<1>4. Fresh(new) /\ q.msgs \union new \in SUBSET Msg
  BY NewMsgsAreFresh DEF JarInv, JarTypes, BaseTypes, Requests
<1> DEFINE r == [page |-> [token |-> k, msgs |-> q.msgs \union new, from |-> "render"],
                 msgs |-> IF q.msgs \union new = {} THEN {} ELSE {{}}, csrf |-> {k}]
<1>5. r = Jar!Render(q, k, new)
  BY <1>3 DEF Jar!Render, Jar!Page, Jar!Keep
<1>6. r \in Replies
  BY <1>3, <1>4, IsReply
<1>7. Answered(t, r, k, new)
  BY <1>1, <1>2, <1>3, <1>4, <1>5, <1>6 DEF Answered
<1> QED
  BY <1>7

LEMMA FailedAnswered ==
    ASSUME JarInv, NEW t \in Tab, Jar!AnswerFailed(t) PROVE \E r, k, new : Answered(t, r, k, new)
<1> DEFINE q == request[t]
<1>1. PICK k \in Jar!Csrf(q), new \in Jar!OwnMsgs(q) : Jar!Answer(t, Jar!Failed(q, k, new), k, new)
  BY DEF Jar!AnswerFailed
<1>2. phase[t] = "handler" /\ UNCHANGED <<kept, late>> /\ disturbed' = disturbed \union {Owner[t]}
  BY DEF Jar!AnswerFailed, Jar!Rendered
<1>3. k \in Token /\ k \in TokenOrNone /\ k # None /\ (q.csrf # None => k = q.csrf)
  BY <1>1, NewToken DEF TokenOrNone
<1>4. Fresh(new) /\ q.msgs \union new \in SUBSET Msg
  BY NewMsgsAreFresh DEF JarInv, JarTypes, BaseTypes, Requests
<1> DEFINE r == [page |-> [token |-> k, msgs |-> {}, from |-> "failed"],
                 msgs |-> IF q.msgs \union new = {} THEN {} ELSE {{}}, csrf |-> {k}]
<1>5. r = Jar!Failed(q, k, new)
  <2>1. Jar!Render(q, k, new).msgs = IF q.msgs \union new = {} THEN {} ELSE {{}}
    BY DEF Jar!Render, Jar!Keep
  <2> QED
    BY <2>1 DEF Jar!Failed, Jar!Page
<1>6. r \in Replies
  BY <1>3, <1>4, IsReply
<1>7. Answered(t, r, k, new)
  BY <1>1, <1>2, <1>3, <1>4, <1>5, <1>6 DEF Answered
<1> QED
  BY <1>7

LEMMA PartAnswered ==
    ASSUME JarInv, NEW t \in Tab, Jar!AnswerPart(t) PROVE \E r, k, new : Answered(t, r, k, new)
<1> DEFINE q == request[t]
<1>1. PICK k \in Jar!Csrf(q) : Jar!Answer(t, Jar!RenderPart(k), k, {})
  BY DEF Jar!AnswerPart
<1>2. /\ phase[t] = "handler" /\ UNCHANGED <<kept, late, disturbed>>
      /\ q.kind = "part" /\ Jar!Passes(q)
  BY DEF Jar!AnswerPart
<1>3. k \in Token /\ k \in TokenOrNone /\ k # None /\ (q.csrf # None => k = q.csrf)
  BY <1>1, NewToken DEF TokenOrNone
<1> DEFINE r == [page |-> [token |-> k, msgs |-> {}, from |-> "part"], msgs |-> {}, csrf |-> {k}]
<1>4. r = Jar!RenderPart(k)
  BY DEF Jar!RenderPart, Jar!Page, Jar!Keep
<1>5. r \in Replies
  BY <1>3, IsReply
<1>6. Answered(t, r, k, {})
  BY <1>1, <1>2, <1>3, <1>4, <1>5 DEF Answered, Fresh
<1> QED
  BY <1>6

LEMMA RedirectAnswered ==
    ASSUME JarInv, NEW t \in Tab, Jar!AnswerRedirect(t) PROVE \E r, k, new : Answered(t, r, k, new)
<1> DEFINE q == request[t]
<1>1. PICK k \in Jar!Csrf(q), new \in Jar!NewMsgs :
          /\ Jar!Answer(t, Jar!Redirect(q, k, new), k, new)
          /\ late' = late \/ \E m \in Jar!Unset \ new : late' = [late EXCEPT ![m] = t]
  BY DEF Jar!AnswerRedirect
<1>2. phase[t] = "handler" /\ UNCHANGED <<kept, disturbed>>
  BY DEF Jar!AnswerRedirect
<1>3. k \in Token /\ k \in TokenOrNone /\ k # None /\ (q.csrf # None => k = q.csrf)
  BY <1>1, NewToken DEF TokenOrNone
<1>4. Fresh(new) /\ q.msgs \union new \in SUBSET Msg
  BY NewMsgsAreFresh DEF JarInv, JarTypes, BaseTypes, Requests
<1>5. late' = late \/ \E m \in Msg \ new : setMsgs[m] = None /\ late' = [late EXCEPT ![m] = t]
  BY <1>1 DEF Jar!Unset
<1> DEFINE r == [page |-> [token |-> None, msgs |-> {}, from |-> "redirect"],
                 msgs |-> {q.msgs \union new}, csrf |-> {k}]
<1>6. r = Jar!Redirect(q, k, new)
  BY DEF Jar!Redirect, Jar!Page
<1>7. r \in Replies
  BY <1>3, <1>4, IsReply DEF TokenOrNone
<1>8. Answered(t, r, k, new)
  BY <1>1, <1>2, <1>3, <1>4, <1>5, <1>6, <1>7 DEF Answered
<1> QED
  BY <1>8

LEMMA RefusalAnswered ==
    ASSUME JarInv, NEW t \in Tab, Jar!AnswerRefusal(t) PROVE \E r, k, new : Answered(t, r, k, new)
<1> DEFINE q == request[t]
<1>1. /\ phase[t] = "handler" /\ UNCHANGED <<kept, late, disturbed>>
      /\ Jar!Answer(t, Jar!Render(q, None, {}), None, {})
  BY DEF Jar!AnswerRefusal
<1>2. q.msgs \in SUBSET Msg
  BY DEF JarInv, JarTypes, BaseTypes, Requests
<1> DEFINE r == [page |-> [token |-> None, msgs |-> q.msgs \union {}, from |-> "render"],
                 msgs |-> IF q.msgs \union {} = {} THEN {} ELSE {{}}, csrf |-> {}]
<1>3. r = Jar!Render(q, None, {})
  BY DEF Jar!Render, Jar!Page, Jar!Keep
<1>4. r \in Replies
  BY <1>2, IsReply DEF TokenOrNone
<1>5. Answered(t, r, None, {})
  BY <1>1, <1>3, <1>4 DEF Answered, Fresh, TokenOrNone
<1> QED
  BY <1>5

-----------------------------------------------------------------------------

LEMMA AnswerEffect ==
    ASSUME JarInv, NEW t \in Tab, NEW r, NEW k, NEW new, Answered(t, r, k, new)
    PROVE  /\ phase[t] = "handler" /\ phase' = [phase EXCEPT ![t] = "sent"] /\ phase'[t] = "sent"
           /\ reply' = [reply EXCEPT ![t] = r] /\ reply'[t] = r
           /\ drawn' = (IF k = None THEN drawn ELSE drawn \union {k})
           /\ drawn \subseteq drawn' /\ drawn' \subseteq Token
           /\ setMsgs' = [m \in Msg |-> IF m \in new THEN Owner[t] ELSE setMsgs[m]]
           /\ UNCHANGED <<jar, request, open, sent, seen, mixed>>
           /\ Only(t)
           /\ \A b \in Visitor : Jar!InFlight(b)' = Jar!InFlight(b) /\ (Alone(b)' <=> Alone(b))
<1>1. /\ phase[t] = "handler" /\ phase' = [phase EXCEPT ![t] = "sent"]
      /\ reply' = [reply EXCEPT ![t] = r]
      /\ drawn' = (IF k = None THEN drawn ELSE drawn \union {k})
      /\ setMsgs' = [m \in Msg |-> IF m \in new THEN Owner[t] ELSE setMsgs[m]]
      /\ UNCHANGED <<jar, request, open, sent, seen, mixed>>
      /\ k \in TokenOrNone
  BY DEF Answered, Jar!Answer
<1>2. /\ phase \in [Tab -> {"idle", "handler", "sent"}] /\ reply \in [Tab -> Replies]
      /\ drawn \subseteq Token
  BY DEF JarInv, JarTypes, BaseTypes
<1>3. phase'[t] = "sent" /\ reply'[t] = r /\ Only(t)
  BY <1>1, <1>2 DEF Only
<1>4. drawn \subseteq drawn' /\ drawn' \subseteq Token
  BY <1>1, <1>2 DEF TokenOrNone
<1>5. \A b \in Visitor : Jar!InFlight(b)' = Jar!InFlight(b)
  BY <1>1, <1>3 DEF Only, Jar!InFlight
<1> QED
  BY <1>1, <1>3, <1>4, <1>5 DEF Alone

LEMMA AnswerTypes ==
    ASSUME JarInv, NEW t \in Tab, NEW r, NEW k, NEW new, Answered(t, r, k, new)
    PROVE  JarTypes'
<1>1. BaseTypes /\ TabTypes(t) /\ JarTypes
  BY DEF JarInv, JarTypes
<1>2. /\ r \in Replies /\ k \in TokenOrNone /\ Fresh(new)
      /\ r.csrf = (IF k = None THEN {} ELSE {k}) /\ r.page.token \in {None, k}
      /\ r.page.token = None => r.page.from \in {"render", "redirect"}
      /\ r.page.token # None => r.page.from \in {"render", "failed", "part"}
      /\ disturbed' = disturbed \union {Owner[t]} \/ disturbed' = disturbed
      /\ kept' = kept \/ (kept' = r.page /\ r.page.from = "render" /\ r.page.token # None)
      /\ late' = late \/ \E m \in Msg \ new : setMsgs[m] = None /\ late' = [late EXCEPT ![m] = t]
  BY DEF Answered
<1>3. k # None => k \in drawn'
  BY AnswerEffect
<1>4. TabTypes(t)'
  BY <1>1, <1>2, <1>3, AnswerEffect DEF TabTypes
<1>5. kept' \in Jar!Pages(drawn', {"render"}) \union {Jar!NoPage}
  <2>1. CASE kept' = kept
    BY <1>1, <2>1, AnswerEffect DEF BaseTypes, Jar!Pages
  <2>2. CASE kept' = r.page /\ r.page.from = "render" /\ r.page.token # None
    BY <1>2, <1>3, <2>2 DEF Jar!Pages, Replies
  <2> QED
    BY <1>2, <2>1, <2>2
<1>6. jar' \in [Visitor -> [msgs : SUBSET Msg, csrf : [Jar!Dir -> drawn' \union {None}]]]
  <2>1. \A f \in [Jar!Dir -> drawn \union {None}] : f \in [Jar!Dir -> drawn' \union {None}]
    BY AnswerEffect
  <2>2. \A c \in [msgs : SUBSET Msg, csrf : [Jar!Dir -> drawn \union {None}]] :
            c \in [msgs : SUBSET Msg, csrf : [Jar!Dir -> drawn' \union {None}]]
    BY <2>1
  <2>3. jar' = jar /\ jar \in [Visitor -> [msgs : SUBSET Msg, csrf : [Jar!Dir -> drawn \union {None}]]]
    BY <1>1, AnswerEffect DEF BaseTypes
  <2> QED
    BY ONLY <2>2, <2>3
<1>7. /\ setMsgs' \in [Msg -> Visitor \union {None}] /\ late' \in [Msg -> {"no", "pool"} \union Tab]
      /\ disturbed' \subseteq Visitor
  <2>1. Owner[t] \in Visitor
    BY Assumed
  <2>2. setMsgs' \in [Msg -> Visitor \union {None}]
    BY <1>1, <2>1, AnswerEffect DEF BaseTypes
  <2>3. late' \in [Msg -> {"no", "pool"} \union Tab]
    BY <1>1, <1>2 DEF BaseTypes
  <2> QED
    BY <1>1, <1>2, <2>1, <2>2, <2>3 DEF BaseTypes
<1>8. phase' \in [Tab -> {"idle", "handler", "sent"}] /\ reply' \in [Tab -> Replies]
  <2>1. phase' = [phase EXCEPT ![t] = "sent"] /\ reply' = [reply EXCEPT ![t] = r]
    BY AnswerEffect
  <2>2. phase \in [Tab -> {"idle", "handler", "sent"}] /\ reply \in [Tab -> Replies] /\ r \in Replies
    BY <1>1, <1>2 DEF BaseTypes
  <2> QED
    BY ONLY <2>1, <2>2
<1>9. BaseTypes'
  BY <1>1, <1>5, <1>6, <1>7, <1>8, AnswerEffect DEF BaseTypes
<1> QED
  BY <1>1, <1>4, <1>9, TypesStep, AnswerEffect

LEMMA AnswerTokens ==
    ASSUME JarInv, NEW t \in Tab, NEW r, NEW k, NEW new, Answered(t, r, k, new)
    PROVE  TokensAgree'
<1>1. (\A b \in Visitor : JarTokens(b)) /\ (\A u \in Tab : TabTokens(u)) /\ Owner \in [Tab -> Visitor]
  BY Assumed DEF JarInv, TokensAgree
<1>2. \A b, own : Current(b, own)' = Current(b, own)
  BY AnswerEffect DEF Current, Jar!Carried
<1>3. ASSUME NEW b \in Visitor PROVE JarTokens(b)'
  BY <1>1, <1>2, AnswerEffect DEF JarTokens
<1>4. ASSUME NEW u \in Tab PROVE TabTokens(u)'
  <2>1. CASE u # t
    BY <1>1, <1>2, <2>1, AnswerEffect DEF TabTokens, Only
  <2>2. CASE u = t
    <3>1. TabTokens(t) /\ r.csrf = (IF k = None THEN {} ELSE {k})
          /\ (k # None /\ request[t].csrf # None => k = request[t].csrf)
      BY <1>1 DEF Answered
    <3> QED
      BY <1>2, <2>2, <3>1, AnswerEffect DEF TabTokens
  <2> QED
    BY <2>1, <2>2
<1> QED
  BY <1>3, <1>4 DEF TokensAgree

LEMMA AnswerOwned ==
    ASSUME JarInv, NEW t \in Tab, NEW r, NEW k, NEW new, Answered(t, r, k, new)
    PROVE  /\ MsgsAreOwned' /\ \A u \in Tab : Own(u) \subseteq Own(u)'
           /\ Own(t)' = Own(t) \union new
           /\ \A m \in new : seen[m] = 0
           /\ \A u \in Tab : Owner[u] # Owner[t] => Own(u)' = Own(u)
<1>1. /\ MsgsAreOwned /\ Owner \in [Tab -> Visitor] /\ None \notin Visitor /\ TabOwned(t)
      /\ jar \in [Visitor -> [msgs : SUBSET Msg, csrf : [Jar!Dir -> drawn \union {None}]]]
  BY Assumed DEF JarInv, JarTypes, BaseTypes, MsgsAreOwned
<1>2. Fresh(new) /\ new \subseteq Msg
  BY DEF Answered, Fresh
<1>3. /\ \A m \in new : setMsgs'[m] = Owner[t] /\ setMsgs[m] = None /\ seen[m] = 0
      /\ \A m \in Msg \ new : setMsgs'[m] = setMsgs[m]
  BY <1>1, <1>2, AnswerEffect DEF Fresh, MsgsAreOwned
<1>4. /\ \A u \in Tab : Own(u) \subseteq Own(u)'
      /\ Own(t)' = Own(t) \union new
      /\ \A u \in Tab : Owner[u] # Owner[t] => Own(u)' = Own(u)
  BY <1>1, <1>2, <1>3 DEF Own
<1>5. ASSUME NEW b \in Visitor, NEW m \in jar'[b].msgs PROVE setMsgs'[m] = b
  <2>1. setMsgs[m] = b /\ m \in Msg
    BY <1>1, <1>5, AnswerEffect DEF MsgsAreOwned
  <2> QED
    BY <1>1, <1>3, <2>1
<1>6. ASSUME NEW u \in Tab PROVE TabOwned(u)'
  <2>1. CASE u = t
    <3>1. /\ r.page.msgs \subseteq request[t].msgs \union new
          /\ UNION r.msgs \subseteq request[t].msgs \union new
          /\ request[t].msgs \subseteq Own(t)
      BY <1>1 DEF Answered, TabOwned
    <3> QED
      BY <1>4, <2>1, <3>1, AnswerEffect DEF TabOwned
  <2>2. CASE u # t
    BY <1>1, <1>4, <2>2, AnswerEffect DEF TabOwned, MsgsAreOwned, Only
  <2> QED
    BY <2>1, <2>2
<1>7. \A m \in Msg : setMsgs'[m] = None => seen'[m] = 0
  BY <1>1, <1>3, AnswerEffect DEF MsgsAreOwned
<1>8. \A m \in Msg : late'[m] # "no" => setMsgs'[m] = None
  <2>1. late \in [Msg -> {"no", "pool"} \union Tab]
    BY DEF JarInv, JarTypes, BaseTypes
  <2>2. late' = late \/ \E m \in Msg \ new : setMsgs[m] = None /\ late' = [late EXCEPT ![m] = t]
    BY DEF Answered
  <2> QED
    BY <1>1, <1>2, <1>3, <2>1, <2>2 DEF MsgsAreOwned, Fresh
<1> QED
  BY <1>3, <1>4, <1>5, <1>6, <1>7, <1>8 DEF MsgsAreOwned

\* The messages of the session and the new ones are all in the page, or all in
\* the cookie.
LEMMA AnswerMsgs ==
    ASSUME JarInv, NEW t \in Tab, NEW r, NEW k, NEW new, Answered(t, r, k, new), Owner[t] \notin disturbed'
    PROVE  TabMsgs(t)'
<1> DEFINE b == Owner[t]
           q == request[t]
           old == jar[b].msgs
<1>1. b \notin disturbed
  BY DEF Answered
<1>2. /\ Alone(b)' /\ old \subseteq q.msgs
      /\ q.kind = "part" /\ Jar!Passes(q) => q.msgs = old
      /\ \A m \in Own(t) : seen[m] = IF m \in q.msgs THEN 0 ELSE 1
  BY <1>1, AnswerEffect, Assumed DEF JarInv, MsgsAreSomewhere, TabMsgs
<1>3. /\ q.msgs \subseteq Own(t) /\ Own(t)' = Own(t) \union new /\ \A m \in new : seen[m] = 0
  BY AnswerOwned DEF JarInv, MsgsAreOwned, TabOwned
<1>4. \A m \in Own(t)' : seen[m] = IF m \in q.msgs \union new THEN 0 ELSE 1
  BY <1>2, <1>3
<1>5. \/ /\ r.page.from = "render" /\ r.page.msgs = q.msgs \union new
         /\ r.msgs = IF r.page.msgs = {} THEN {} ELSE {{}}
      \/ /\ r.page.from = "part" /\ r.msgs = {} /\ new = {}
         /\ q.kind = "part" /\ Jar!Passes(q)
      \/ r.page.from = "redirect" /\ r.msgs = {q.msgs \union new}
  BY Assumed DEF Answered
<1> HIDE DEF q, old
<1>6. /\ r.msgs = {} => q.msgs = old
      /\ \A m \in Own(t)' : seen[m] + Shows(r, m) = IF m \in Jar!Cookie(r.msgs, old) THEN 0 ELSE 1
  <2>1. CASE /\ r.page.from = "render" /\ r.page.msgs = q.msgs \union new
             /\ r.msgs = IF r.page.msgs = {} THEN {} ELSE {{}}
    <3>1. (r.msgs = {} => q.msgs = {} /\ old = {}) /\ Jar!Cookie(r.msgs, old) = {}
      BY <1>2, <2>1, CookieValue
    <3>2. \A m \in Own(t)' : seen[m] + Shows(r, m) = 1
      BY <1>4, <2>1 DEF Shows
    <3> QED
      BY <3>1, <3>2
  <2>2. CASE /\ r.page.from = "part" /\ r.msgs = {} /\ new = {}
             /\ q.kind = "part" /\ Jar!Passes(q)
    <3>1. q.msgs = old /\ Jar!Cookie(r.msgs, old) = old
      BY <1>2, <2>2, CookieValue
    <3>2. \A m \in Own(t)' : seen[m] + Shows(r, m) = IF m \in q.msgs THEN 0 ELSE 1
      BY <1>4, <2>2 DEF Shows
    <3> QED
      BY <3>1, <3>2
  <2>3. CASE r.page.from = "redirect" /\ r.msgs = {q.msgs \union new}
    <3>1. Jar!Cookie(r.msgs, old) = q.msgs \union new
      BY <2>3, CookieValue
    <3>2. \A m \in Own(t)' : seen[m] + Shows(r, m) = IF m \in q.msgs \union new THEN 0 ELSE 1
      BY <1>4, <2>3 DEF Shows
    <3> QED
      BY <2>3, <3>1, <3>2
  <2> QED
    BY <1>5, <2>1, <2>2, <2>3
<1> QED
  BY <1>2, <1>6, AnswerEffect DEF TabMsgs, q, old

LEMMA AnswerInv ==
    ASSUME JarInv, NEW t \in Tab, NEW r, NEW k, NEW new, Answered(t, r, k, new)
    PROVE  JarInv'
<1>1. /\ Owner \in [Tab -> Visitor] /\ None \notin Visitor
      /\ disturbed' = disturbed \union {Owner[t]} \/ disturbed' = disturbed
  BY Assumed DEF Answered
<1>2. ASSUME NEW u \in Tab PROVE TabMsgs(u)'
  <2>1. CASE Owner[u] \in disturbed'
    BY <2>1, Assumed DEF TabMsgs
  <2>2. CASE Owner[u] \notin disturbed' /\ u = t
    BY <2>2, AnswerMsgs
  <2>3. CASE Owner[u] \notin disturbed' /\ u # t
    <3>1. TabMsgs(u) /\ Alone(Owner[u]) /\ Owner[u] \notin disturbed
      BY <1>1, <2>3 DEF JarInv, MsgsAreSomewhere, TabMsgs
    <3>2. phase[u] # "idle" => Owner[u] # Owner[t]
      BY <2>3, <3>1, AnswerEffect DEF Alone, Jar!InFlight
    <3>3. phase[u] # "idle" => Own(u)' = Own(u)
      BY <3>2, AnswerOwned
    <3> QED
      BY <1>1, <2>3, <3>1, <3>3, AnswerEffect DEF TabMsgs, Only
  <2> QED
    BY <2>1, <2>2, <2>3
<1>3. ShownOnce'
  <2> SUFFICES ASSUME NEW m \in Msg, NEW b, b = setMsgs'[m], b # None, b \notin disturbed',
                      Jar!InFlight(b)' = {}
               PROVE  seen[m] = IF m \in jar[b].msgs THEN 0 ELSE 1
    BY AnswerEffect DEF ShownOnce, Jar!ShownOnce
  <2>1. t \in Jar!InFlight(Owner[t])'
    BY AnswerEffect, Assumed DEF Jar!InFlight
  <2>2. m \notin new /\ b = setMsgs[m]
    BY <2>1, AnswerEffect
  <2>3. b \in Visitor /\ b \notin disturbed
    BY <1>1, <2>2 DEF JarInv, JarTypes, BaseTypes
  <2> QED
    BY <2>2, <2>3, AnswerEffect DEF JarInv, ShownOnce, Jar!ShownOnce
<1> QED
  BY <1>2, <1>3, AnswerTypes, AnswerTokens, AnswerOwned DEF JarInv, MsgsAreSomewhere

-----------------------------------------------------------------------------

\* What can be asked for, and by which forms.
LEMMA Asks ==
    ASSUME NEW at, NEW a, a \in Jar!Links \/ a \in Jar!Forms(at)
    PROVE  /\ a.kind \in Kinds /\ a.own \in Jar!Dir /\ a.first \in Jar!Dir
           /\ a.own = "/user" <=> a.first = "/user"
           /\ a.own = "/jobs" => a \notin Jar!Links /\ at # "/user"
           /\ a = Jar!Ask(a.kind, a.first, a.own)
BY DEF Jar!Links, Jar!Forms, Jar!Ask, Kinds, Jar!Dir

LEMMA CachedReply ==
    ASSUME JarInv, kept # Jar!NoPage
    PROVE  /\ Jar!FromCache \in Replies /\ Jar!FromCache.page.token \in drawn
           /\ Jar!FromCache.page.token # None
           /\ Jar!FromCache.csrf = {Jar!FromCache.page.token}
           /\ Jar!FromCache.page.from = "cache" /\ Jar!FromCache.msgs = {}
<1>1. kept.token \in drawn /\ kept.token \in Token /\ kept.msgs \in SUBSET Msg
  BY DEF JarInv, JarTypes, BaseTypes, Jar!Pages
<1>2. Jar!FromCache = [page |-> [token |-> kept.token, msgs |-> kept.msgs, from |-> "cache"],
                       msgs |-> {}, csrf |-> {kept.token}]
  BY DEF Jar!FromCache, Jar!Page, Jar!Keep
<1>3. Jar!FromCache \in Replies
  BY <1>1, <1>2, IsReply DEF TokenOrNone
<1> QED
  BY <1>1, <1>2, <1>3, Assumed

\* A cookie carried is that of the directory, or of "/".
LEMMA CarriedValue ==
    ASSUME NEW b, NEW d
    PROVE  /\ Jar!Carried(b, "/") = jar[b].csrf["/"]
           /\ jar[b].csrf[d] # None => Jar!Carried(b, d) = jar[b].csrf[d]
           /\ jar[b].csrf[d] = None => Jar!Carried(b, d) = jar[b].csrf["/"]
           /\ Current(b, "/user") = Jar!Carried(b, "/user")
           /\ \A own : own # "/user" => Current(b, own) = jar[b].csrf["/"]
BY DEF Jar!Carried, Current

LEMMA SendEffect ==
    ASSUME JarInv, NEW t \in Tab, NEW a, Jar!Send(t, a)
    PROVE  LET b == Owner[t] IN
           /\ phase[t] = "idle" /\ phase'[t] # "idle" /\ phase' \in [Tab -> {"idle", "handler", "sent"}]
           /\ Only(t) /\ UNCHANGED <<jar, kept, open, setMsgs, drawn, seen>>
           /\ request' \in [Tab -> Requests] /\ reply' \in [Tab -> Replies]
           /\ request'[t].own = a.own /\ request'[t].csrf = Jar!Carried(b, a.first)
           /\ request'[t].msgs = jar[b].msgs
           /\ request'[t].csrf \in drawn \union {None} /\ request'[t].form \in drawn \union {None}
           /\ \/ phase'[t] = "handler" /\ reply'[t] = reply[t]
              \/ phase'[t] = "sent" /\ reply'[t] = Jar!FromCache /\ kept # Jar!NoPage
           /\ Jar!InFlight(b)' = Jar!InFlight(b) \union {t}
           /\ \A c \in Visitor \ {b} : Jar!InFlight(c)' = Jar!InFlight(c)
<1> DEFINE b == Owner[t]
           q == [kind |-> a.kind, own |-> a.own, msgs |-> jar[b].msgs,
                 csrf |-> Jar!Carried(b, a.first),
                 form |-> IF a \in Jar!Links THEN None ELSE open[t].token]
<1>1. /\ phase[t] = "idle" /\ UNCHANGED <<jar, kept, open, setMsgs, drawn, seen>>
      /\ request' = [request EXCEPT ![t] = q]
      /\ a \in Jar!Links \/ a \in Jar!Forms(open[t].at)
      /\ \/ /\ phase' = [phase EXCEPT ![t] = "sent"] /\ reply' = [reply EXCEPT ![t] = Jar!FromCache]
            /\ kept # Jar!NoPage
         \/ phase' = [phase EXCEPT ![t] = "handler"] /\ UNCHANGED reply
  BY DEF Jar!Send, Jar!Served
<1>2. /\ phase \in [Tab -> {"idle", "handler", "sent"}] /\ request \in [Tab -> Requests]
      /\ reply \in [Tab -> Replies] /\ b \in Visitor /\ drawn \subseteq Token
      /\ jar[b].msgs \in SUBSET Msg /\ jar[b].csrf \in [Jar!Dir -> drawn \union {None}]
      /\ open[t].token \in drawn \union {None}
  BY Assumed DEF JarInv, JarTypes, BaseTypes, TabTypes
<1>3. /\ a.kind \in Kinds /\ a.own \in Jar!Dir /\ a.first \in Jar!Dir
      /\ q.csrf \in drawn \union {None} /\ q.form \in drawn \union {None}
  BY <1>1, <1>2, Asks, CarriedValue DEF Jar!Dir
<1>4. q \in Requests
  BY <1>2, <1>3 DEF Requests, TokenOrNone
<1>5. /\ q.own = a.own /\ q.csrf = Jar!Carried(b, a.first) /\ q.msgs = jar[b].msgs
  OBVIOUS
<1> HIDE DEF q
<1>6. request' \in [Tab -> Requests] /\ request'[t] = q /\ \A u \in Tab \ {t} : request'[u] = request[u]
  BY <1>1, <1>2, <1>4
<1>7. /\ phase'[t] # "idle" /\ phase' \in [Tab -> {"idle", "handler", "sent"}] /\ reply' \in [Tab -> Replies]
      /\ \A u \in Tab \ {t} : phase'[u] = phase[u] /\ reply'[u] = reply[u]
      /\ \/ phase'[t] = "handler" /\ reply'[t] = reply[t]
         \/ phase'[t] = "sent" /\ reply'[t] = Jar!FromCache /\ kept # Jar!NoPage
  <2>1. CASE phase' = [phase EXCEPT ![t] = "handler"] /\ UNCHANGED reply
    BY <1>2, <2>1
  <2>2. CASE /\ phase' = [phase EXCEPT ![t] = "sent"] /\ reply' = [reply EXCEPT ![t] = Jar!FromCache]
             /\ kept # Jar!NoPage
    <3>1. Jar!FromCache \in Replies
      BY <2>2, CachedReply
    <3> QED
      BY <1>2, <2>2, <3>1
  <2> QED
    BY <1>1, <2>1, <2>2
<1>8. Only(t)
  BY <1>1, <1>6, <1>7 DEF Only
<1>9. /\ Jar!InFlight(b)' = Jar!InFlight(b) \union {t}
      /\ \A c \in Visitor \ {b} : Jar!InFlight(c)' = Jar!InFlight(c)
  BY <1>7 DEF Jar!InFlight
<1> QED
  BY <1>1, <1>3, <1>5, <1>6, <1>7, <1>8, <1>9

LEMMA SendHistory ==
    ASSUME NEW t, NEW a, Jar!Send(t, a)
    PROVE  LET b == Owner[t] IN
           /\ sent < MaxRequests /\ sent' = sent + 1
           /\ disturbed' = (IF Jar!InFlight(b) = {} THEN disturbed ELSE disturbed \union {b})
           /\ mixed' = (IF Jar!InFlight(b) # {} /\ Jar!Carried(b, a.first) = None
                        THEN mixed \union {b} ELSE mixed)
           /\ \E taken \in SUBSET {m \in Msg : late[m] = "pool"} :
                 late' = [m \in Msg |-> IF m \in taken THEN t ELSE late[m]]
           /\ a \in Jar!Links \/ (open[t].token # None /\ a \in Jar!Forms(open[t].at))
BY DEF Jar!Send

LEMMA SendTypes ==
    ASSUME JarInv, NEW t \in Tab, NEW a, Jar!Send(t, a) PROVE JarTypes'
<1>1. BaseTypes /\ TabTypes(t) /\ JarTypes /\ Owner[t] \in Visitor /\ MaxRequests \in Nat
  BY Assumed DEF JarInv, JarTypes
<1>2. /\ sent' \in 0 .. MaxRequests /\ disturbed' \subseteq Visitor /\ mixed' \subseteq Visitor
      /\ late' \in [Msg -> {"no", "pool"} \union Tab]
  <2>1. late \in [Msg -> {"no", "pool"} \union Tab]
    BY <1>1 DEF BaseTypes
  <2>2. late' \in [Msg -> {"no", "pool"} \union Tab]
    BY <2>1, SendHistory
  <2>3. sent' \in 0 .. MaxRequests
    <3>1. sent < MaxRequests /\ sent' = sent + 1
      BY SendHistory
    <3>2. sent \in 0 .. MaxRequests /\ MaxRequests \in Nat
      BY <1>1 DEF BaseTypes
    <3> QED
      BY <3>1, <3>2
  <2>4. disturbed' \subseteq Visitor /\ mixed' \subseteq Visitor
    <3>1. disturbed' \subseteq disturbed \union {Owner[t]} /\ mixed' \subseteq mixed \union {Owner[t]}
      BY SendHistory
    <3>2. disturbed \subseteq Visitor /\ mixed \subseteq Visitor
      BY <1>1 DEF BaseTypes
    <3> QED
      BY <1>1, <3>1, <3>2
  <2> QED
    BY <2>2, <2>3, <2>4
<1>3. BaseTypes'
  BY <1>1, <1>2, SendEffect DEF BaseTypes
<1>4. TabTypes(t)'
  <2>1. /\ request'[t].csrf \in drawn \union {None} /\ request'[t].form \in drawn \union {None}
        /\ UNCHANGED <<open, drawn>>
    BY SendEffect
  <2>2. CASE phase'[t] = "handler" /\ reply'[t] = reply[t]
    BY <1>1, <2>1, <2>2 DEF TabTypes
  <2>3. CASE phase'[t] = "sent" /\ reply'[t] = Jar!FromCache /\ kept # Jar!NoPage
    BY <1>1, <2>1, <2>3, CachedReply DEF TabTypes
  <2> QED
    BY <2>2, <2>3, SendEffect
<1> QED
  BY <1>1, <1>3, <1>4, TypesStep, SendEffect

LEMMA SendTokens ==
    ASSUME JarInv, NEW t \in Tab, NEW a, Jar!Send(t, a) PROVE TokensAgree'
<1> DEFINE b == Owner[t]
           c == jar[b].csrf
<1>1. /\ (\A v \in Visitor : JarTokens(v)) /\ (\A u \in Tab : TabTokens(u)) /\ b \in Visitor
      /\ mixed' = mixed \/ mixed' = mixed \union {b}
  BY SendHistory, Assumed DEF JarInv, TokensAgree
<1>2. \A v, own : Current(v, own)' = Current(v, own) /\ jar' = jar
  BY SendEffect DEF Current, Jar!Carried
<1>3. /\ a.own = "/user" <=> a.first = "/user"
      /\ a.first \in Jar!Dir
      /\ a.own = "/jobs" => open[t].at # "/user" /\ open[t].token # None
  BY Asks, SendHistory
<1>4. b \notin mixed' => b \notin mixed /\ (Jar!InFlight(b) = {} \/ Jar!Carried(b, a.first) # None)
  BY <1>1, SendHistory
<1>5. b \notin mixed' =>
          /\ c["/jobs"] \in {None, c["/"]}
          /\ a.own = "/user" => Jar!Carried(b, a.first) = Current(b, "/user")
          /\ a.own # "/user" => Jar!Carried(b, a.first) = c["/"]
          /\ Current(b, "/user") = None => c["/"] = None
  <2>1. CASE b \notin mixed'
    <3>1. c["/jobs"] \in {None, c["/"]}
      BY <1>1, <1>4, <2>1 DEF JarTokens
    <3>2. a.own # "/user" => a.first \in {"/", "/jobs"}
      BY <1>3 DEF Jar!Dir
    <3>3. Current(b, "/user") = None => c["/"] = None
      BY CarriedValue
    <3> QED
      BY <1>3, <3>1, <3>2, <3>3, CarriedValue
  <2> QED
    BY <2>1
<1> HIDE DEF c
<1>6. JarTokens(b)'
  <2> SUFFICES ASSUME b \notin mixed'
               PROVE  /\ c["/jobs"] \in {None, c["/"]}
                      /\ c["/"] = None =>
                            \A u, w \in Jar!InFlight(b)' :
                                u = w \/ request'[u].own = "/user" \/ request'[w].own = "/user"
                      /\ Current(b, "/user") = None => Alone(b)'
    BY <1>2 DEF JarTokens, c
  <2>1. JarTokens(b) /\ b \notin mixed
    BY <1>1, <1>4
  <2>2. Jar!InFlight(b)' = Jar!InFlight(b) \union {t} /\ request'[t].own = a.own
    BY SendEffect
  <2>3. CASE Jar!InFlight(b) = {}
    BY <1>5, <2>2, <2>3 DEF Alone
  <2>4. CASE Jar!Carried(b, a.first) # None
    <3>1. Current(b, "/user") # None
      BY <1>5, <2>4
    <3>2. c["/"] = None => a.own = "/user"
      BY <1>5, <2>4
    <3>3. \A u \in Jar!InFlight(b) \ {t} : request'[u] = request[u]
      BY SendEffect DEF Only, Jar!InFlight
    <3> QED
      BY <1>5, <2>1, <2>2, <3>1, <3>2, <3>3 DEF JarTokens, c
  <2> QED
    BY <1>4, <2>3, <2>4
<1>7. ASSUME NEW v \in Visitor \ {b} PROVE JarTokens(v)'
  <2>1. JarTokens(v) /\ (v \notin mixed' => v \notin mixed) /\ Jar!InFlight(v)' = Jar!InFlight(v)
    BY <1>1, SendEffect
  <2>2. \A u \in Jar!InFlight(v) : request'[u] = request[u]
    BY SendEffect DEF Only, Jar!InFlight
  <2> QED
    BY <1>2, <2>1, <2>2 DEF JarTokens, Alone
<1>8. ASSUME NEW u \in Tab \ {t} PROVE TabTokens(u)'
  <2>1. TabTokens(u) /\ (Owner[u] \notin mixed' => Owner[u] \notin mixed)
    BY <1>1
  <2> QED
    BY <1>2, <2>1, SendEffect DEF TabTokens, Only
<1>9. TabTokens(t)'
  <2>1. CASE b \notin mixed'
    <3>1. open[t].token \in {None, c[open[t].at]}
      BY <1>1, <1>4, <2>1 DEF TabTokens, c
    <3>2. request'[t].csrf = Current(b, a.own)
      BY <1>5, <2>1, SendEffect, CarriedValue DEF c
    <3>3. a.own = "/jobs" => c["/"] # None
      <4>1. open[t].at \in {"/", "/user"}
        BY DEF JarInv, JarTypes, BaseTypes
      <4> QED
        BY <1>3, <3>1, <4>1
    <3>4. phase'[t] = "sent" => reply'[t].page.from = "cache"
      BY SendEffect, CachedReply
    <3> QED
      BY <1>2, <3>1, <3>2, <3>3, <3>4, SendEffect DEF TabTokens, c
  <2> QED
    BY <2>1 DEF TabTokens
<1> QED
  BY <1>6, <1>7, <1>8, <1>9 DEF TokensAgree

LEMMA SendInv ==
    ASSUME JarInv, NEW t \in Tab, NEW a, Jar!Send(t, a) PROVE JarInv'
<1> DEFINE b == Owner[t]
<1>1. /\ MsgsAreOwned /\ MsgsAreSomewhere /\ ShownOnce /\ Owner \in [Tab -> Visitor] /\ b \in Visitor
      /\ setMsgs \in [Msg -> Visitor \union {None}] /\ jar[b].msgs \subseteq Msg
  BY Assumed DEF JarInv, JarTypes, BaseTypes
<1>2. \A u \in Tab : Own(u)' = Own(u)
  BY SendEffect DEF Own
<1>3. \/ phase'[t] = "handler" /\ reply'[t] = reply[t]
      \/ /\ phase'[t] = "sent" /\ reply'[t].page.from = "cache" /\ reply'[t].msgs = {}
  BY SendEffect, CachedReply
<1>4. MsgsAreOwned'
  <2>1. jar[b].msgs \subseteq Own(t)
    BY <1>1 DEF MsgsAreOwned, Own
  <2>2. TabOwned(t)'
    BY <1>1, <1>2, <1>3, <2>1, SendEffect DEF TabOwned, MsgsAreOwned
  <2>3. ASSUME NEW u \in Tab \ {t} PROVE TabOwned(u)'
    BY <1>1, <1>2, SendEffect DEF TabOwned, MsgsAreOwned, Only
  <2>4. \A m \in Msg : late'[m] # "no" => late[m] # "no"
    BY SendHistory
  <2> QED
    BY <1>1, <2>2, <2>3, <2>4, SendEffect DEF MsgsAreOwned
<1>5. TabMsgs(t)'
  <2>1. CASE b \in disturbed'
    BY <2>1, Assumed DEF TabMsgs
  <2>2. CASE b \notin disturbed'
    <3>1. Jar!InFlight(b) = {} /\ b \notin disturbed
      BY <2>2, SendHistory
    <3>2. Alone(b)'
      <4>1. Jar!InFlight(b)' = {t}
        BY <3>1, SendEffect
      <4> QED
        BY <4>1 DEF Alone
    <3>3. \A m \in Own(t) : seen[m] = IF m \in jar[b].msgs THEN 0 ELSE 1
      BY <1>1, <3>1, Assumed DEF ShownOnce, Jar!ShownOnce, Own
    <3>4. Jar!Cookie({}, jar[b].msgs) = jar[b].msgs
      BY CookieValue
    <3>5. \A m \in Own(t) : reply'[t].page.from = "cache" =>
              seen[m] + Shows(reply'[t], m) = IF m \in jar[b].msgs THEN 0 ELSE 1
      BY <3>3 DEF Shows
    <3> QED
      <4>1. /\ jar' = jar /\ seen' = seen /\ Own(t)' = Own(t) /\ request'[t].msgs = jar[b].msgs
        BY <1>2, SendEffect
      <4>2. CASE phase'[t] = "handler"
        BY <3>2, <3>3, <4>1, <4>2 DEF TabMsgs
      <4>3. CASE phase'[t] = "sent" /\ reply'[t].page.from = "cache" /\ reply'[t].msgs = {}
        BY <3>2, <3>4, <3>5, <4>1, <4>3 DEF TabMsgs
      <4> QED
        BY <1>3, <4>2, <4>3
  <2> QED
    BY <2>1, <2>2
<1>6. ASSUME NEW u \in Tab \ {t} PROVE TabMsgs(u)'
  <2>1. CASE Owner[u] \in disturbed'
    BY <2>1, Assumed DEF TabMsgs
  <2>2. CASE Owner[u] \notin disturbed'
    <3>1. Owner[u] \notin disturbed /\ TabMsgs(u) /\ (Owner[u] = b => Jar!InFlight(b) = {})
      BY <1>1, <2>2, SendHistory DEF MsgsAreSomewhere
    <3>2. Alone(Owner[u])'
      BY <1>1, <3>1, SendEffect DEF Alone, TabMsgs
    <3> QED
      BY <1>2, <3>1, <3>2, SendEffect DEF TabMsgs, Only
  <2> QED
    BY <2>1, <2>2
<1>7. ShownOnce'
  <2> SUFFICES ASSUME NEW m \in Msg, NEW c, c = setMsgs[m], c # None, c \notin disturbed',
                      Jar!InFlight(c)' = {}
               PROVE  seen[m] = IF m \in jar[c].msgs THEN 0 ELSE 1
    BY SendEffect DEF ShownOnce, Jar!ShownOnce
  <2>1. c \in Visitor /\ c # b /\ c \notin disturbed
    BY <1>1, SendEffect, SendHistory
  <2> QED
    BY <1>1, <2>1, SendEffect DEF ShownOnce, Jar!ShownOnce
<1> QED
  BY <1>4, <1>5, <1>6, <1>7, SendTypes, SendTokens DEF JarInv, MsgsAreSomewhere

-----------------------------------------------------------------------------

\* A cookie keeps its value, or takes the one of the header.
LEMMA CookieIn ==
    ASSUME NEW x, NEW old
    PROVE  /\ x = {} => Jar!Cookie(x, old) = old
           /\ \A y : x = {y} => Jar!Cookie(x, old) = y
BY CookieValue

LEMMA Headers ==
    ASSUME NEW r \in Replies
    PROVE  /\ r.msgs = {} \/ \E set \in SUBSET Msg : r.msgs = {set}
           /\ r.csrf = {} \/ \E k \in Token : r.csrf = {k}
<1>1. r.msgs \in {{}} \union {{set} : set \in SUBSET Msg} /\ r.csrf \in {{}} \union {{k} : k \in Token}
  BY DEF Replies
<1> QED
  BY <1>1

\* The message joins those of the request, or of the cookie on its way.
LEMMA LateEffect ==
    ASSUME JarInv, NEW m \in Msg, Jar!LateMsg(m)
    PROVE  \E t \in Tab :
              /\ setMsgs[m] = None /\ setMsgs' = [setMsgs EXCEPT ![m] = Owner[t]]
              /\ late' = [late EXCEPT ![m] = "no"]
              /\ UNCHANGED <<jar, kept, phase, open, sent, drawn, seen, disturbed, mixed>>
              /\ Only(t) /\ t \in Jar!InFlight(Owner[t])
              /\ request' \in [Tab -> Requests] /\ reply' \in [Tab -> Replies]
              /\ request'[t].own = request[t].own /\ request'[t].csrf = request[t].csrf
              /\ request'[t].form = request[t].form /\ request'[t].kind = request[t].kind
              /\ reply'[t].page = reply[t].page /\ reply'[t].csrf = reply[t].csrf
              /\ \/ /\ phase[t] = "handler" /\ ~(request[t].kind = "part" /\ Jar!Passes(request[t]))
                    /\ request'[t].msgs = request[t].msgs \union {m} /\ reply'[t] = reply[t]
                 \/ /\ phase[t] = "sent" /\ request'[t] = request[t]
                    /\ reply'[t].msgs = {Jar!Cookie(reply[t].msgs, request[t].msgs) \union {m}}
<1>1. /\ late' = [late EXCEPT ![m] = "no"]
      /\ UNCHANGED <<jar, kept, phase, open, sent, drawn, seen, disturbed, mixed>>
  BY DEF Jar!LateMsg
<1>2. PICK t \in Tab :
          /\ late[m] = t /\ setMsgs' = [setMsgs EXCEPT ![m] = Owner[t]]
          /\ \/ /\ phase[t] = "handler" /\ ~(request[t].kind = "part" /\ Jar!Passes(request[t]))
                /\ request' = [request EXCEPT ![t].msgs = @ \union {m}] /\ UNCHANGED reply
             \/ /\ phase[t] = "sent" /\ UNCHANGED request
                /\ reply' = [reply EXCEPT ![t].msgs = {Jar!Cookie(@, request[t].msgs) \union {m}}]
  BY DEF Jar!LateMsg
<1>3. /\ request \in [Tab -> Requests] /\ reply \in [Tab -> Replies]
      /\ phase \in [Tab -> {"idle", "handler", "sent"}]
  BY DEF JarInv, JarTypes, BaseTypes
<1>4. setMsgs[m] = None /\ t \in Jar!InFlight(Owner[t])
  BY <1>2, Assumed DEF JarInv, MsgsAreOwned, Jar!InFlight
<1>5. CASE /\ phase[t] = "handler" /\ ~(request[t].kind = "part" /\ Jar!Passes(request[t]))
           /\ request' = [request EXCEPT ![t].msgs = @ \union {m}] /\ UNCHANGED reply
  <2>1. /\ request' \in [Tab -> Requests] /\ request'[t].own = request[t].own
        /\ request'[t].csrf = request[t].csrf /\ request'[t].form = request[t].form
        /\ request'[t].kind = request[t].kind /\ request'[t].msgs = request[t].msgs \union {m}
        /\ \A u \in Tab \ {t} : request'[u] = request[u]
    BY <1>3, <1>5 DEF Requests
  <2>2. Only(t)
    BY <1>1, <1>5, <2>1 DEF Only
  <2> QED
    BY <1>1, <1>2, <1>3, <1>4, <1>5, <2>1, <2>2
<1>6. CASE /\ phase[t] = "sent" /\ UNCHANGED request
           /\ reply' = [reply EXCEPT ![t].msgs = {Jar!Cookie(@, request[t].msgs) \union {m}}]
  <2> DEFINE x == Jar!Cookie(reply[t].msgs, request[t].msgs) \union {m}
  <2>1. x \in SUBSET Msg
    <3>1. /\ reply[t].msgs = {} \/ \E set \in SUBSET Msg : reply[t].msgs = {set}
          /\ request[t].msgs \in SUBSET Msg
      BY <1>3, Headers DEF Requests
    <3> QED
      BY <3>1, CookieIn
  <2>2. reply' = [reply EXCEPT ![t] = [reply[t] EXCEPT !.msgs = {x}]]
    BY <1>3, <1>6
  <2>3. {x} \in {{}} \union {{set} : set \in SUBSET Msg} /\ reply[t] \in Replies
    BY <1>3, <2>1
  <2> HIDE DEF x
  <2>4. /\ [reply[t] EXCEPT !.msgs = {x}] \in Replies
        /\ [reply[t] EXCEPT !.msgs = {x}].page = reply[t].page
        /\ [reply[t] EXCEPT !.msgs = {x}].csrf = reply[t].csrf
        /\ [reply[t] EXCEPT !.msgs = {x}].msgs = {x}
    BY <2>3 DEF Replies
  <2>5. /\ reply' \in [Tab -> Replies] /\ reply'[t].page = reply[t].page /\ reply'[t].csrf = reply[t].csrf
        /\ reply'[t].msgs = {x} /\ \A u \in Tab \ {t} : reply'[u] = reply[u]
    BY <1>3, <2>2, <2>4
  <2>6. Only(t)
    BY <1>1, <1>6, <2>5 DEF Only
  <2> QED
    BY <1>1, <1>2, <1>3, <1>4, <1>6, <2>5, <2>6 DEF x
<1> QED
  BY <1>2, <1>5, <1>6

LEMMA LateMsgInv ==
    ASSUME JarInv, NEW m \in Msg, Jar!LateMsg(m) PROVE JarInv'
<1>1. PICK t \in Tab :
          /\ setMsgs[m] = None /\ setMsgs' = [setMsgs EXCEPT ![m] = Owner[t]]
          /\ late' = [late EXCEPT ![m] = "no"]
          /\ UNCHANGED <<jar, kept, phase, open, sent, drawn, seen, disturbed, mixed>>
          /\ Only(t) /\ t \in Jar!InFlight(Owner[t])
          /\ request' \in [Tab -> Requests] /\ reply' \in [Tab -> Replies]
          /\ request'[t].own = request[t].own /\ request'[t].csrf = request[t].csrf
          /\ request'[t].form = request[t].form /\ request'[t].kind = request[t].kind
          /\ reply'[t].page = reply[t].page /\ reply'[t].csrf = reply[t].csrf
          /\ \/ /\ phase[t] = "handler" /\ ~(request[t].kind = "part" /\ Jar!Passes(request[t]))
                /\ request'[t].msgs = request[t].msgs \union {m} /\ reply'[t] = reply[t]
             \/ /\ phase[t] = "sent" /\ request'[t] = request[t]
                /\ reply'[t].msgs = {Jar!Cookie(reply[t].msgs, request[t].msgs) \union {m}}
  BY LateEffect
<1>2. /\ JarTypes /\ TokensAgree /\ MsgsAreOwned /\ MsgsAreSomewhere /\ ShownOnce
      /\ BaseTypes /\ TabTypes(t) /\ TabOwned(t) /\ TabMsgs(t)
      /\ Owner \in [Tab -> Visitor] /\ None \notin Visitor
  BY Assumed DEF JarInv, JarTypes, MsgsAreOwned, MsgsAreSomewhere
<1>3. /\ \A b : Jar!InFlight(b)' = Jar!InFlight(b) /\ (Alone(b)' <=> Alone(b))
      /\ \A b, own : Current(b, own)' = Current(b, own)
      /\ \A u \in Tab : request'[u].own = request[u].own
  BY <1>1 DEF Jar!InFlight, Alone, Current, Jar!Carried, Only
<1>4. JarTypes'
  <2>1. setMsgs' \in [Msg -> Visitor \union {None}] /\ late' \in [Msg -> {"no", "pool"} \union Tab]
    BY <1>1, <1>2 DEF BaseTypes
  <2>2. BaseTypes'
    BY <1>1, <1>2, <2>1 DEF BaseTypes
  <2>3. TabTypes(t)'
    BY <1>1, <1>2 DEF TabTypes
  <2> QED
    BY <1>1, <1>2, <2>2, <2>3, TypesStep
<1>5. TokensAgree'
  <2>1. \A b \in Visitor : JarTokens(b)'
    BY <1>1, <1>2, <1>3 DEF TokensAgree, JarTokens, Jar!InFlight
  <2>2. ASSUME NEW u \in Tab PROVE TabTokens(u)'
    <3>1. /\ TabTokens(u) /\ request'[u].csrf = request[u].csrf
          /\ reply'[u].page = reply[u].page /\ reply'[u].csrf = reply[u].csrf
      BY <1>1, <1>2 DEF TokensAgree, Only
    <3> QED
      BY <1>1, <1>3, <3>1 DEF TabTokens
  <2> QED
    BY <2>1, <2>2 DEF TokensAgree
<1>6. /\ setMsgs'[m] = Owner[t] /\ \A n \in Msg \ {m} : setMsgs'[n] = setMsgs[n]
      /\ Own(t)' = Own(t) \union {m} /\ m \notin Own(t)
      /\ \A u \in Tab : Own(u) \subseteq Own(u)'
      /\ \A u \in Tab : Owner[u] # Owner[t] => Own(u)' = Own(u)
      /\ seen[m] = 0
  <2>1. setMsgs'[m] = Owner[t] /\ \A n \in Msg \ {m} : setMsgs'[n] = setMsgs[n]
    BY <1>1, <1>2 DEF BaseTypes
  <2> QED
    BY <1>1, <1>2, <2>1 DEF Own, MsgsAreOwned
<1>7. Jar!Cookie(reply[t].msgs, request[t].msgs) \subseteq Own(t)
  <2>1. reply[t].msgs = {} \/ \E x : reply[t].msgs = {x}
    BY <1>2, Headers DEF BaseTypes
  <2> QED
    BY <1>2, <2>1, CookieIn DEF TabOwned
<1>8. MsgsAreOwned'
  <2>1. TabOwned(t)'
    BY <1>1, <1>2, <1>6, <1>7 DEF TabOwned
  <2>2. ASSUME NEW u \in Tab \ {t} PROVE TabOwned(u)'
    BY <1>1, <1>2, <1>6 DEF TabOwned, MsgsAreOwned, Only
  <2>3. ASSUME NEW b \in Visitor, NEW n \in jar[b].msgs PROVE setMsgs'[n] = b
    BY <1>1, <1>2, <1>6, <2>3 DEF MsgsAreOwned, BaseTypes
  <2>4. \A n \in Msg : late'[n] # "no" => setMsgs'[n] = None
    BY <1>1, <1>2, <1>6 DEF MsgsAreOwned, BaseTypes
  <2> QED
    BY <1>1, <1>2, <1>6, <2>1, <2>2, <2>3, <2>4 DEF MsgsAreOwned
<1>9. TabMsgs(t)'
  <2> SUFFICES ASSUME Owner[t] \notin disturbed PROVE TabMsgs(t)'
    BY <1>1 DEF TabMsgs
  <2>1. Alone(Owner[t])'
    BY <1>2, <1>3 DEF TabMsgs
  <2>2. CASE /\ phase[t] = "handler" /\ ~(request[t].kind = "part" /\ Jar!Passes(request[t]))
             /\ request'[t].msgs = request[t].msgs \union {m} /\ reply'[t] = reply[t]
    <3>1. ~(request'[t].kind = "part" /\ Jar!Passes(request'[t]))
      BY <1>1, <2>2 DEF Jar!Passes, Jar!IsForm
    <3>2. \A n \in Own(t)' : seen[n] = IF n \in request'[t].msgs THEN 0 ELSE 1
      BY <1>2, <1>6, <2>2 DEF TabMsgs
    <3> QED
      BY <1>1, <1>2, <2>1, <2>2, <3>1, <3>2 DEF TabMsgs
  <2>3. CASE /\ phase[t] = "sent" /\ request'[t] = request[t]
             /\ reply'[t].msgs = {Jar!Cookie(reply[t].msgs, request[t].msgs) \union {m}}
    <3> DEFINE now == Jar!Cookie(reply[t].msgs, jar[Owner[t]].msgs)
    <3>1. Jar!Cookie(reply[t].msgs, request[t].msgs) = now
      <4>1. reply[t].msgs = {} \/ \E x : reply[t].msgs = {x}
        BY <1>2, Headers DEF BaseTypes
      <4>2. reply[t].msgs = {} => request[t].msgs = jar[Owner[t]].msgs
        BY <1>2, <2>3 DEF TabMsgs
      <4> QED
        BY <4>1, <4>2, CookieIn
    <3>2. Jar!Cookie(reply'[t].msgs, jar[Owner[t]].msgs) = now \union {m}
      <4>1. reply'[t].msgs = {now \union {m}}
        BY <2>3, <3>1
      <4> HIDE DEF now
      <4>2. ASSUME NEW x, NEW old, NEW y, x = {y} PROVE Jar!Cookie(x, old) = y
        BY <4>2, CookieIn
      <4> QED
        BY <4>1, <4>2
    <3>3. \A n : Shows(reply'[t], n) = Shows(reply[t], n)
      BY <1>1 DEF Shows
    <3>4. Shows(reply[t], m) = 0
      BY <1>2, <1>6 DEF Shows, TabOwned
    <3>5. \A n \in Own(t) : seen[n] + Shows(reply[t], n) = IF n \in now THEN 0 ELSE 1
      BY <1>2, <2>3 DEF TabMsgs
    <3> HIDE DEF now
    <3>6. \A n \in Own(t)' : seen[n] + Shows(reply'[t], n) = IF n \in now \union {m} THEN 0 ELSE 1
      BY <1>6, <3>3, <3>4, <3>5
    <3> QED
      BY <1>1, <2>1, <2>3, <3>2, <3>6 DEF TabMsgs
  <2> QED
    BY <1>1, <2>2, <2>3
<1>10. ASSUME NEW u \in Tab \ {t} PROVE TabMsgs(u)'
  <2>1. TabMsgs(u) /\ (Owner[u] \notin disturbed /\ phase[u] # "idle" => Owner[u] # Owner[t])
    BY <1>1, <1>2 DEF MsgsAreSomewhere, TabMsgs, Alone, Jar!InFlight
  <2> QED
    BY <1>1, <1>3, <1>6, <2>1 DEF TabMsgs, Only
<1>11. ShownOnce'
  <2> SUFFICES ASSUME NEW n \in Msg, NEW c, c = setMsgs'[n], c # None, c \notin disturbed,
                      Jar!InFlight(c) = {}
               PROVE  seen[n] = IF n \in jar[c].msgs THEN 0 ELSE 1
    BY <1>1, <1>3 DEF ShownOnce, Jar!ShownOnce
  <2>1. n # m
    BY <1>1, <1>6
  <2> QED
    BY <1>2, <1>6, <2>1 DEF ShownOnce, Jar!ShownOnce
<1> QED
  BY <1>4, <1>5, <1>8, <1>9, <1>10, <1>11 DEF JarInv, MsgsAreSomewhere

-----------------------------------------------------------------------------

\* A step that leaves the tabs and the cookies as they are.
LEMMA SameTabs ==
    ASSUME JarInv, UNCHANGED <<jar, phase, request, reply, open, sent, setMsgs, drawn, seen, disturbed, mixed>>,
           kept' \in {kept, Jar!NoPage},
           late' = late \/ \E m \in Msg : late' = [late EXCEPT ![m] = "no"]
    PROVE  JarInv'
<1>1. /\ late' \in [Msg -> {"no", "pool"} \union Tab]
      /\ \A m \in Msg : late'[m] # "no" => late[m] # "no"
  <2>1. late \in [Msg -> {"no", "pool"} \union Tab]
    BY DEF JarInv, JarTypes, BaseTypes
  <2> QED
    BY <2>1
<1>2. BaseTypes'
  BY <1>1 DEF JarInv, JarTypes, BaseTypes
<1>3. \A t \in Tab : TabTypes(t)'
  BY DEF JarInv, JarTypes, TabTypes
<1>4. /\ \A b : Jar!InFlight(b)' = Jar!InFlight(b) /\ (Alone(b)' <=> Alone(b))
      /\ \A b, own : Current(b, own)' = Current(b, own)
      /\ \A t \in Tab : Own(t)' = Own(t)
  BY DEF Jar!InFlight, Alone, Current, Jar!Carried, Own
<1>5. \A b \in Visitor : JarTokens(b)'
  BY <1>4 DEF JarInv, TokensAgree, JarTokens
<1>6. \A t \in Tab : TabTokens(t)'
  BY <1>4 DEF JarInv, TokensAgree, TabTokens
<1>7. MsgsAreOwned'
  BY <1>1, <1>4 DEF JarInv, MsgsAreOwned, TabOwned
<1>8. MsgsAreSomewhere'
  BY <1>4 DEF JarInv, MsgsAreSomewhere, TabMsgs
<1>9. ShownOnce'
  BY <1>4 DEF JarInv, ShownOnce, Jar!ShownOnce
<1> QED
  BY <1>2, <1>3, <1>5, <1>6, <1>7, <1>8, <1>9 DEF JarInv, JarTypes, TokensAgree

\* A request is over: its tab may send again.
LEMMA DoneEffect ==
    ASSUME JarInv, NEW t \in Tab, Jar!Done(t)
    PROVE  /\ phase' \in [Tab -> {"idle", "handler", "sent"}] /\ phase'[t] = "idle"
           /\ reply' \in [Tab -> Replies] /\ reply'[t] = Jar!NoReply
           /\ request' \in [Tab -> Requests] /\ request'[t] = Jar!NoReq
           /\ \A u \in Tab \ {t} : /\ phase'[u] = phase[u] /\ reply'[u] = reply[u]
                                   /\ request'[u] = request[u]
           /\ late' \in [Msg -> {"no", "pool"} \union Tab]
           /\ \A m \in Msg : late'[m] # "no" => late[m] # "no"
           /\ \A b \in Visitor : Jar!InFlight(b)' = Jar!InFlight(b) \ {t}
           /\ \A b \in Visitor : Alone(b) => Alone(b)'
           /\ \A b \in Visitor \ {Owner[t]} : Jar!InFlight(b)' = Jar!InFlight(b)
<1>1. Jar!NoReply \in Replies /\ Jar!NoReq \in Requests
  BY DEF Jar!NoPage, Jar!Page, Jar!NoReq, Jar!NoReply, Jar!Keep, Requests, Replies, TokenOrNone,
         Kinds, Jar!Dir
<1>2. /\ phase' = [phase EXCEPT ![t] = "idle"] /\ reply' = [reply EXCEPT ![t] = Jar!NoReply]
      /\ request' = [request EXCEPT ![t] = Jar!NoReq]
      /\ late' = [m \in Msg |-> IF late[m] = t THEN "pool" ELSE late[m]]
  BY DEF Jar!Done
<1>3. /\ phase \in [Tab -> {"idle", "handler", "sent"}] /\ reply \in [Tab -> Replies]
      /\ request \in [Tab -> Requests] /\ late \in [Msg -> {"no", "pool"} \union Tab]
  BY DEF JarInv, JarTypes, BaseTypes
<1>4. /\ phase' \in [Tab -> {"idle", "handler", "sent"}] /\ phase'[t] = "idle"
      /\ \A u \in Tab \ {t} : phase'[u] = phase[u]
  BY <1>2, <1>3
<1>5. /\ reply' \in [Tab -> Replies] /\ reply'[t] = Jar!NoReply
      /\ \A u \in Tab \ {t} : reply'[u] = reply[u]
  BY <1>1, <1>2, <1>3
<1>6. /\ request' \in [Tab -> Requests] /\ request'[t] = Jar!NoReq
      /\ \A u \in Tab \ {t} : request'[u] = request[u]
  BY <1>1, <1>2, <1>3
<1>7. /\ late' \in [Msg -> {"no", "pool"} \union Tab]
      /\ \A m \in Msg : late'[m] # "no" => late[m] # "no"
  BY <1>2, <1>3, Assumed
<1>8. \A b \in Visitor : Jar!InFlight(b)' = Jar!InFlight(b) \ {t}
  BY <1>4 DEF Jar!InFlight
<1>9. \A b \in Visitor \ {Owner[t]} : t \notin Jar!InFlight(b)
  BY DEF Jar!InFlight
<1> QED
  BY <1>4, <1>5, <1>6, <1>7, <1>8, <1>9 DEF Alone

LEMMA Nothing ==
    /\ Jar!NoReply.page.from = "none" /\ Jar!NoReply.msgs = {} /\ Jar!NoReply.csrf = {}
    /\ Jar!NoReply.page.token = None
    /\ Jar!NoReq.msgs = {} /\ Jar!NoReq.csrf = None /\ Jar!NoReq.form = None
BY DEF Jar!NoReply, Jar!NoPage, Jar!Page, Jar!Keep, Jar!NoReq

LEMMA DoneTypes ==
    ASSUME JarInv, NEW t \in Tab, Jar!Done(t), UNCHANGED <<kept, sent, setMsgs, drawn>>,
           jar' \in [Visitor -> [msgs : SUBSET Msg, csrf : [Jar!Dir -> drawn \union {None}]]],
           open' \in [Tab -> [token : TokenOrNone, at : {"/", "/user"}]],
           \A u \in Tab : open'[u].token \in drawn \union {None},
           seen' \in [Msg -> 0 .. 2], disturbed' \subseteq Visitor, mixed' \subseteq Visitor
    PROVE  JarTypes'
<1>1. BaseTypes /\ \A u \in Tab : TabTypes(u)
  BY DEF JarInv, JarTypes
<1>2. BaseTypes'
  BY <1>1, DoneEffect DEF BaseTypes
<1>3. TabTypes(t)'
  BY <1>1, DoneEffect, Nothing DEF TabTypes
<1>4. ASSUME NEW u \in Tab \ {t} PROVE TabTypes(u)'
  BY <1>1, DoneEffect DEF TabTypes
<1> QED
  BY <1>2, <1>3, <1>4 DEF JarTypes

LEMMA LostInv ==
    ASSUME JarInv, NEW t \in Tab, Jar!Lost(t) PROVE JarInv'
<1>1. /\ Jar!Done(t) /\ disturbed' = disturbed \union {Owner[t]}
      /\ UNCHANGED <<jar, kept, open, sent, setMsgs, drawn, seen, mixed>>
  BY DEF Jar!Lost
<1>2. /\ BaseTypes /\ TokensAgree /\ MsgsAreOwned /\ MsgsAreSomewhere /\ ShownOnce
      /\ Owner \in [Tab -> Visitor] /\ None \notin Visitor /\ \A u \in Tab : TabTypes(u)
  BY Assumed DEF JarInv, JarTypes
<1>3. JarTypes'
  <2>1. \A u \in Tab : open'[u].token \in drawn \union {None}
    BY <1>1, <1>2 DEF TabTypes
  <2>2. disturbed' \subseteq Visitor
    BY <1>1, <1>2 DEF BaseTypes
  <2> QED
    BY <1>1, <1>2, <2>1, <2>2, DoneTypes DEF BaseTypes
<1>4. /\ \A b, own : Current(b, own)' = Current(b, own)
      /\ \A u \in Tab : Own(u)' = Own(u)
  BY <1>1 DEF Current, Jar!Carried, Own
<1>5. ASSUME NEW b \in Visitor PROVE JarTokens(b)'
  <2>1. JarTokens(b) /\ Jar!InFlight(b)' = Jar!InFlight(b) \ {t} /\ (Alone(b) => Alone(b)')
    BY <1>1, <1>2, DoneEffect DEF TokensAgree
  <2>2. \A u \in Jar!InFlight(b)' : u \in Jar!InFlight(b) /\ request'[u] = request[u]
    BY <1>1, <2>1, DoneEffect DEF Jar!InFlight
  <2> QED
    BY <1>1, <1>4, <2>1, <2>2 DEF JarTokens
<1>6. ASSUME NEW u \in Tab PROVE TabTokens(u)'
  <2>1. TabTokens(u)
    BY <1>2 DEF TokensAgree
  <2>2. CASE u = t
    BY <1>1, <2>1, <2>2, DoneEffect DEF TabTokens
  <2>3. CASE u # t
    BY <1>1, <1>4, <2>1, <2>3, DoneEffect DEF TabTokens
  <2> QED
    BY <2>2, <2>3
<1>7. MsgsAreOwned'
  <2>1. TabOwned(t)'
    BY <1>1, DoneEffect, Nothing DEF TabOwned
  <2>2. ASSUME NEW u \in Tab \ {t} PROVE TabOwned(u)'
    BY <1>1, <1>2, <1>4, DoneEffect DEF TabOwned, MsgsAreOwned
  <2> QED
    BY <1>1, <1>2, <2>1, <2>2, DoneEffect DEF MsgsAreOwned
<1>8. ASSUME NEW u \in Tab PROVE TabMsgs(u)'
  <2>1. CASE Owner[u] \in disturbed'
    BY <2>1, Assumed DEF TabMsgs
  <2>2. CASE Owner[u] \notin disturbed'
    <3>1. u # t /\ Owner[u] \notin disturbed /\ TabMsgs(u)
      BY <1>1, <1>2, <2>2 DEF MsgsAreSomewhere
    <3>2. Alone(Owner[u])'
      BY <1>1, <1>2, <3>1, DoneEffect DEF TabMsgs
    <3> QED
      BY <1>1, <1>4, <3>1, <3>2, DoneEffect DEF TabMsgs
  <2> QED
    BY <2>1, <2>2
<1>9. ShownOnce'
  <2> SUFFICES ASSUME NEW m \in Msg, NEW c, c = setMsgs[m], c # None, c \notin disturbed',
                      Jar!InFlight(c)' = {}
               PROVE  seen[m] = IF m \in jar[c].msgs THEN 0 ELSE 1
    BY <1>1 DEF ShownOnce, Jar!ShownOnce
  <2>1. c \in Visitor /\ c \notin disturbed /\ c # Owner[t]
    BY <1>1, <1>2 DEF BaseTypes
  <2> QED
    BY <1>1, <1>2, <2>1, DoneEffect DEF ShownOnce, Jar!ShownOnce
<1> QED
  BY <1>3, <1>5, <1>6, <1>7, <1>8, <1>9 DEF JarInv, TokensAgree, MsgsAreSomewhere

-----------------------------------------------------------------------------

\* The cookies after a response has arrived.
LEMMA ReceiveEffect ==
    ASSUME JarInv, NEW t \in Tab, Jar!Receive(t)
    PROVE  LET b == Owner[t]
               r == reply[t]
               own == request[t].own
           IN  /\ phase[t] = "sent" /\ Jar!Done(t) /\ own \in Jar!Dir
               /\ jar' \in [Visitor -> [msgs : SUBSET Msg, csrf : [Jar!Dir -> drawn \union {None}]]]
               /\ \A c \in Visitor \ {b} : jar'[c] = jar[c]
               /\ jar'[b].msgs = Jar!Cookie(r.msgs, jar[b].msgs)
               /\ r.csrf = {} => jar'[b].csrf[own] = jar[b].csrf[own]
               /\ \A k : r.csrf = {k} => jar'[b].csrf[own] = k
               /\ \A d \in Jar!Dir \ {own} : jar'[b].csrf[d] = jar[b].csrf[d]
               /\ jar'[b].msgs \subseteq Own(t)
<1> DEFINE b == Owner[t]
           r == reply[t]
           own == request[t].own
           msgs == Jar!Cookie(r.msgs, jar[b].msgs)
           k == Jar!Cookie(r.csrf, jar[b].csrf[own])
           f == [jar[b].csrf EXCEPT ![own] = k]
<1>1. /\ phase[t] = "sent" /\ Jar!Done(t)
      /\ jar' = [jar EXCEPT ![b] = [msgs |-> msgs, csrf |-> f]]
  BY DEF Jar!Receive
<1>2. /\ jar \in [Visitor -> [msgs : SUBSET Msg, csrf : [Jar!Dir -> drawn \union {None}]]]
      /\ b \in Visitor /\ own \in Jar!Dir /\ r \in Replies /\ r.csrf \subseteq drawn
      /\ jar[b].msgs \subseteq Own(t) /\ UNION r.msgs \subseteq Own(t)
  BY Assumed DEF JarInv, JarTypes, BaseTypes, TabTypes, Requests, MsgsAreOwned, TabOwned, Own
<1>3. /\ r.msgs = {} => msgs = jar[b].msgs
      /\ \A x : r.msgs = {x} => msgs = x
  BY CookieIn
<1>4. msgs \in SUBSET Msg /\ msgs \subseteq Own(t)
  <2>1. r.msgs = {} \/ \E set \in SUBSET Msg : r.msgs = {set}
    BY <1>2, Headers
  <2>2. jar[b].msgs \in SUBSET Msg
    BY <1>2
  <2> HIDE DEF msgs
  <2> QED
    BY <1>2, <1>3, <2>1, <2>2
<1>5. /\ k \in drawn \union {None}
      /\ r.csrf = {} => k = jar[b].csrf[own]
      /\ \A x : r.csrf = {x} => k = x
  <2>1. r.csrf = {} \/ \E x \in Token : r.csrf = {x}
    BY <1>2, Headers
  <2>2. jar[b].csrf[own] \in drawn \union {None}
    BY <1>2
  <2>3. r.csrf = {} => k = jar[b].csrf[own]
    BY CookieIn
  <2>4. \A x : r.csrf = {x} => k = x
    BY CookieIn
  <2> QED
    BY <1>2, <2>1, <2>2, <2>3, <2>4
<1> HIDE DEF k, msgs
<1>6. /\ f \in [Jar!Dir -> drawn \union {None}] /\ f[own] = k
      /\ \A d \in Jar!Dir \ {own} : f[d] = jar[b].csrf[d]
  BY <1>2, <1>5
<1> HIDE DEF f
<1>7. /\ jar' \in [Visitor -> [msgs : SUBSET Msg, csrf : [Jar!Dir -> drawn \union {None}]]]
      /\ jar'[b].msgs = msgs /\ jar'[b].csrf = f /\ \A c \in Visitor \ {b} : jar'[c] = jar[c]
  BY <1>1, <1>2, <1>4, <1>6
<1> QED
  BY <1>1, <1>2, <1>4, <1>5, <1>6, <1>7 DEF msgs

LEMMA ReceiveHistory ==
    ASSUME JarInv, NEW t \in Tab, Jar!Receive(t)
    PROVE  LET b == Owner[t]
               r == reply[t]
           IN  /\ open' \in [Tab -> [token : TokenOrNone, at : {"/", "/user"}]]
               /\ open'[t].token = r.page.token
               /\ open'[t].at = IF request[t].own = "/user" THEN "/user" ELSE "/"
               /\ \A u \in Tab \ {t} : open'[u] = open[u]
               /\ seen' \in [Msg -> 0 .. 2]
               /\ \A m \in Msg : m \notin Own(t) => seen'[m] = seen[m]
               /\ \A m \in Msg : seen[m] + Shows(r, m) <= 2 => seen'[m] = seen[m] + Shows(r, m)
               /\ mixed' = (IF r.page.from = "cache" THEN mixed \union {b} ELSE mixed)
               /\ UNCHANGED <<kept, sent, setMsgs, drawn, disturbed>>
<1> DEFINE r == reply[t]
           now == [token |-> r.page.token, at |-> Jar!At(request[t].own)]
<1>1. /\ open' = [open EXCEPT ![t] = now]
      /\ seen' = [m \in Msg |-> IF r.page.from = "render" /\ m \in r.page.msgs /\ seen[m] < 2
                                THEN seen[m] + 1 ELSE seen[m]]
      /\ mixed' = (IF r.page.from = "cache" THEN mixed \union {Owner[t]} ELSE mixed)
      /\ UNCHANGED <<kept, sent, setMsgs, drawn, disturbed>>
  BY DEF Jar!Receive
<1>2. /\ r \in Replies /\ request[t].own \in Jar!Dir /\ seen \in [Msg -> 0 .. 2]
      /\ open \in [Tab -> [token : TokenOrNone, at : {"/", "/user"}]]
      /\ r.page.from = "render" => r.page.msgs \subseteq Own(t)
  BY DEF JarInv, JarTypes, BaseTypes, Requests, MsgsAreOwned, TabOwned
<1>3. /\ now \in [token : TokenOrNone, at : {"/", "/user"}]
      /\ now.token = r.page.token /\ now.at = IF request[t].own = "/user" THEN "/user" ELSE "/"
  BY <1>2 DEF Jar!At, Jar!Dir, Replies
<1> HIDE DEF now
<1>4. /\ open' \in [Tab -> [token : TokenOrNone, at : {"/", "/user"}]] /\ open'[t] = now
      /\ \A u \in Tab \ {t} : open'[u] = open[u]
  BY <1>1, <1>2, <1>3
<1>5. seen' \in [Msg -> 0 .. 2] /\ \A m \in Msg : m \notin Own(t) => seen'[m] = seen[m]
  BY <1>1, <1>2
<1>6. \A m \in Msg : seen[m] + Shows(r, m) <= 2 => seen'[m] = seen[m] + Shows(r, m)
  BY <1>1, <1>2 DEF Shows
<1> QED
  BY <1>1, <1>3, <1>4, <1>5, <1>6

LEMMA ReceiveTypes ==
    ASSUME JarInv, NEW t \in Tab, Jar!Receive(t) PROVE JarTypes'
<1>1. BaseTypes /\ (\A u \in Tab : TabTypes(u)) /\ Owner[t] \in Visitor
  BY Assumed DEF JarInv, JarTypes
<1>2. \A u \in Tab : open'[u].token \in drawn \union {None}
  BY <1>1, ReceiveHistory DEF TabTypes
<1>3. disturbed' \subseteq Visitor /\ mixed' \subseteq Visitor
  BY <1>1, ReceiveHistory DEF BaseTypes
<1> QED
  BY <1>2, <1>3, ReceiveEffect, ReceiveHistory, DoneTypes

\* What the other requests of the browser carry stays what its pages have.
LEMMA ReceiveCookies ==
    ASSUME JarInv, NEW t \in Tab, Jar!Receive(t), Owner[t] \notin mixed'
    PROVE  LET b == Owner[t]
               c == jar[b].csrf
               d == jar'[b].csrf
           IN  /\ \A u \in Jar!InFlight(b) \ {t} :
                    /\ \A x : x = request[u].own => Current(b, x)' = Current(b, x)
                    /\ request[u].own = "/jobs" => d["/"] # None
               /\ c["/"] # None => d["/"] = c["/"]
               /\ c["/user"] # None => d["/user"] = c["/user"]
               /\ open'[t].token \in {None, d[open'[t].at]}
               /\ JarTokens(b)'
<1> DEFINE b == Owner[t]
           r == reply[t]
           own == request[t].own
           c == jar[b].csrf
           d == jar'[b].csrf
           flight == Jar!InFlight(b)
<1>1. b \notin mixed /\ r.page.from # "cache" /\ b \in Visitor
  BY ReceiveHistory, Assumed
<1>2. /\ phase[t] = "sent" /\ t \in flight /\ own \in {"/", "/user", "/jobs"}
      /\ r.csrf = {} => d[own] = c[own]
      /\ \A k : r.csrf = {k} => d[own] = k
      /\ own # "/" => d["/"] = c["/"]
      /\ own # "/user" => d["/user"] = c["/user"]
      /\ own # "/jobs" => d["/jobs"] = c["/jobs"]
  <2>1. /\ phase[t] = "sent" /\ own \in Jar!Dir
        /\ r.csrf = {} => d[own] = c[own]
        /\ \A k : r.csrf = {k} => d[own] = k
        /\ \A x \in Jar!Dir \ {own} : d[x] = c[x]
    BY ReceiveEffect
  <2> HIDE DEF c, d, own, r
  <2> QED
    BY <2>1 DEF Jar!Dir, Jar!InFlight
<1>3. /\ c["/jobs"] \in {None, c["/"]}
      /\ c["/"] = None => \A u, w \in flight : u = w \/ request[u].own = "/user" \/ request[w].own = "/user"
      /\ Current(b, "/user") = None => Alone(b)
  BY <1>1 DEF JarInv, TokensAgree, JarTokens
<1>4. /\ own = "/jobs" => c["/"] # None
      /\ Current(b, own) # None => r.csrf \subseteq {Current(b, own)}
      /\ \A u \in flight : request[u].own = "/jobs" => c["/"] # None
  BY <1>1, <1>2 DEF JarInv, TokensAgree, TabTokens, Jar!InFlight
<1>5. /\ Jar!InFlight(b)' = flight \ {t}
      /\ \A u \in flight \ {t} : request'[u] = request[u] /\ u \in Tab
      /\ Alone(b) => Alone(b)'
  BY <1>1, ReceiveEffect, DoneEffect DEF Jar!InFlight
<1>6. /\ r.csrf = {} \/ \E k \in Token : r.csrf = {k}
      /\ open'[t].token # None => r.csrf = {open'[t].token}
      /\ open'[t].at = IF own = "/user" THEN "/user" ELSE "/"
  <2>1. r \in Replies /\ TabTypes(t)
    BY DEF JarInv, JarTypes, BaseTypes
  <2> QED
    BY <2>1, Headers, ReceiveHistory DEF TabTypes
<1>7. /\ \A x : x # "/user" => Current(b, x) = c["/"] /\ Current(b, x)' = d["/"]
      /\ Current(b, "/user") = (IF c["/user"] # None THEN c["/user"] ELSE c["/"])
      /\ Current(b, "/user")' = (IF d["/user"] # None THEN d["/user"] ELSE d["/"])
  BY DEF Current, Jar!Carried
<1> HIDE DEF c, d, own, flight, r
<1>8. c["/"] # None => d["/"] = c["/"]
  BY <1>2, <1>4, <1>6, <1>7
<1>9. c["/user"] # None => d["/user"] = c["/user"]
  BY <1>2, <1>4, <1>6, <1>7
<1>10. Current(b, "/user") # None => Current(b, "/user")' = Current(b, "/user")
  <2>1. CASE own = "/user"
    BY <1>2, <1>4, <1>6, <1>7, <2>1
  <2>2. CASE own # "/user"
    BY <1>2, <1>7, <1>8, <2>2
  <2> QED
    BY <2>1, <2>2
<1>11. ASSUME NEW u \in flight \ {t}
       PROVE  /\ \A x : x = request[u].own => Current(b, x)' = Current(b, x)
              /\ request[u].own = "/jobs" => d["/"] # None
  <2>1. Current(b, "/user") # None
    <3>1. ~Alone(b)
      BY <1>2, <1>11 DEF Alone, flight
    <3> QED
      BY <1>3, <3>1
  <2>2. CASE request[u].own = "/user"
    BY <1>10, <2>1, <2>2
  <2>3. CASE request[u].own # "/user"
    <3>1. c["/"] # None \/ own = "/user"
      BY <1>2, <1>3, <1>11, <2>3 DEF own
    <3>2. d["/"] = c["/"]
      BY <1>2, <1>8, <3>1
    <3> QED
      BY <1>4, <1>7, <1>11, <2>3, <3>2
  <2> QED
    BY <2>2, <2>3
<1>12. open'[t].token \in {None, d[open'[t].at]}
  <2>1. CASE own \in {"/", "/user"}
    BY <1>2, <1>6, <2>1
  <2>2. CASE own = "/jobs"
    BY <1>2, <1>4, <1>6, <1>7, <2>2
  <2> QED
    BY <1>2, <2>1, <2>2
<1>13. d["/jobs"] \in {None, d["/"]}
  <2>1. CASE own = "/jobs"
    BY <1>2, <1>3, <1>4, <1>6, <1>7, <2>1
  <2>2. CASE own # "/jobs"
    BY <1>2, <1>3, <1>8, <2>2
  <2> QED
    BY <2>1, <2>2
<1>14. d["/"] = None => \A u, w \in flight \ {t} : u = w \/ request[u].own = "/user" \/ request[w].own = "/user"
  BY <1>3, <1>8
<1>15. Current(b, "/user")' = None => Alone(b)'
  BY <1>3, <1>5, <1>10
<1>16. JarTokens(b)'
  BY <1>5, <1>13, <1>14, <1>15 DEF JarTokens, d
<1> QED
  BY <1>8, <1>9, <1>11, <1>12, <1>16 DEF c, d, flight

LEMMA ReceiveTokens ==
    ASSUME JarInv, NEW t \in Tab, Jar!Receive(t) PROVE TokensAgree'
<1> DEFINE b == Owner[t]
<1>1. /\ (\A v \in Visitor : JarTokens(v)) /\ (\A u \in Tab : TabTokens(u)) /\ b \in Visitor
      /\ mixed' = mixed \/ mixed' = mixed \union {b}
      /\ \A u \in Tab : open[u].at \in {"/", "/user"} /\ Owner[u] \in Visitor
      /\ Jar!Done(t)
  BY ReceiveHistory, ReceiveEffect, Assumed DEF JarInv, TokensAgree, JarTypes, BaseTypes
<1>2. \A v \in Visitor \ {b} : jar'[v] = jar[v] /\ \A own : Current(v, own)' = Current(v, own)
  BY ReceiveEffect DEF Current, Jar!Carried
<1>3. ASSUME NEW v \in Visitor \ {b} PROVE JarTokens(v)'
  <2>1. /\ JarTokens(v) /\ (v \notin mixed' => v \notin mixed) /\ Jar!InFlight(v)' = Jar!InFlight(v)
        /\ Alone(v) => Alone(v)'
    BY <1>1, DoneEffect
  <2>2. \A u \in Jar!InFlight(v) : request'[u] = request[u]
    BY <1>1, DoneEffect DEF Jar!InFlight
  <2> QED
    BY <1>2, <2>1, <2>2 DEF JarTokens
<1>4. JarTokens(b)'
  <2>1. CASE b \notin mixed'
    BY <2>1, ReceiveCookies
  <2>2. CASE b \in mixed'
    BY <2>2 DEF JarTokens
  <2> QED
    BY <2>1, <2>2
<1>5. ASSUME NEW u \in Tab PROVE TabTokens(u)'
  <2>1. CASE Owner[u] # b
    <3>1. u # t /\ TabTokens(u) /\ (Owner[u] \notin mixed' => Owner[u] \notin mixed) /\ open'[u] = open[u]
      BY <1>1, <2>1, ReceiveHistory
    <3> QED
      BY <1>1, <1>2, <2>1, <3>1, DoneEffect DEF TabTokens
  <2>2. CASE Owner[u] = b /\ b \in mixed'
    BY <2>2 DEF TabTokens
  <2>3. CASE u = t /\ b \notin mixed'
    <3>1. phase'[t] = "idle" /\ open'[t].token \in {None, jar'[b].csrf[open'[t].at]}
      BY <1>1, <2>3, DoneEffect, ReceiveCookies
    <3> QED
      BY <2>3, <3>1 DEF TabTokens
  <2>4. CASE u # t /\ Owner[u] = b /\ b \notin mixed'
    <3>1. /\ TabTokens(u) /\ b \notin mixed /\ open'[u] = open[u]
          /\ phase'[u] = phase[u] /\ request'[u] = request[u] /\ reply'[u] = reply[u]
      BY <1>1, <2>4, ReceiveHistory, DoneEffect
    <3>2. open'[u].token \in {None, jar'[b].csrf[open'[u].at]}
      BY <1>1, <2>4, <3>1, ReceiveCookies DEF TabTokens
    <3>3. phase[u] # "idle" => /\ \A x : x = request[u].own => Current(b, x)' = Current(b, x)
                               /\ request[u].own = "/jobs" => jar'[b].csrf["/"] # None
      BY <2>4, ReceiveCookies DEF Jar!InFlight
    <3> QED
      BY <2>4, <3>1, <3>2, <3>3 DEF TabTokens
  <2> QED
    BY <2>1, <2>2, <2>3, <2>4
<1> QED
  BY <1>3, <1>4, <1>5 DEF TokensAgree

LEMMA ReceiveInv ==
    ASSUME JarInv, NEW t \in Tab, Jar!Receive(t) PROVE JarInv'
<1> DEFINE b == Owner[t]
           r == reply[t]
<1>1. /\ BaseTypes /\ MsgsAreOwned /\ MsgsAreSomewhere /\ ShownOnce /\ b \in Visitor
      /\ Owner \in [Tab -> Visitor] /\ None \notin Visitor
      /\ phase[t] = "sent" /\ Jar!Done(t) /\ UNCHANGED <<setMsgs, disturbed>>
  BY Assumed, ReceiveEffect, ReceiveHistory DEF JarInv, JarTypes
<1>2. /\ jar'[b].msgs = Jar!Cookie(r.msgs, jar[b].msgs) /\ jar'[b].msgs \subseteq Own(t)
      /\ \A c \in Visitor \ {b} : jar'[c] = jar[c]
  BY ReceiveEffect
<1>3. \A u \in Tab : Own(u)' = Own(u)
  BY <1>1 DEF Own
<1>4. MsgsAreOwned'
  <2>1. TabOwned(t)'
    BY <1>1, DoneEffect, Nothing DEF TabOwned
  <2>2. ASSUME NEW u \in Tab \ {t} PROVE TabOwned(u)'
    BY <1>1, <1>3, DoneEffect DEF TabOwned, MsgsAreOwned
  <2>3. ASSUME NEW c \in Visitor, NEW m \in jar'[c].msgs PROVE setMsgs'[m] = c
    BY <1>1, <1>2, <2>3 DEF MsgsAreOwned, Own
  <2>4. ASSUME NEW m \in Msg, setMsgs[m] = None PROVE seen'[m] = 0
    <3>1. m \notin Own(t) /\ seen[m] = 0
      BY <1>1, <2>4 DEF Own, MsgsAreOwned
    <3> QED
      BY <3>1, ReceiveHistory
  <2> QED
    BY <1>1, <2>1, <2>2, <2>3, <2>4, DoneEffect DEF MsgsAreOwned
<1>5. b \notin disturbed =>
          /\ Jar!InFlight(b)' = {}
          /\ \A m \in Own(t) : seen'[m] = IF m \in jar'[b].msgs THEN 0 ELSE 1
  <2> SUFFICES ASSUME b \notin disturbed
               PROVE  /\ Jar!InFlight(b)' = {}
                      /\ \A m \in Own(t) : seen'[m] = IF m \in jar'[b].msgs THEN 0 ELSE 1
    OBVIOUS
  <2>1. /\ Alone(b)
        /\ \A m \in Own(t) : seen[m] + Shows(r, m) = IF m \in jar'[b].msgs THEN 0 ELSE 1
    BY <1>1, <1>2 DEF MsgsAreSomewhere, TabMsgs
  <2>2. Jar!InFlight(b)' = {}
    BY <1>1, <2>1, DoneEffect DEF Alone, Jar!InFlight
  <2>3. ASSUME NEW m \in Own(t) PROVE seen'[m] = IF m \in jar'[b].msgs THEN 0 ELSE 1
    <3>1. seen[m] + Shows(r, m) <= 2 /\ m \in Msg
      BY <2>1 DEF Own
    <3> QED
      BY <2>1, <3>1, ReceiveHistory
  <2> QED
    BY <2>2, <2>3
<1>6. ASSUME NEW u \in Tab PROVE TabMsgs(u)'
  <2>1. CASE Owner[u] \in disturbed'
    BY <2>1, Assumed DEF TabMsgs
  <2>2. CASE Owner[u] = b /\ b \notin disturbed'
    <3>1. Jar!InFlight(b)' = {}
      BY <1>1, <1>5, <2>2
    <3>2. phase'[u] = "idle" /\ Alone(Owner[u])'
      BY <2>2, <3>1, DoneEffect, <1>1 DEF Alone, Jar!InFlight
    <3> QED
      BY <3>2 DEF TabMsgs
  <2>3. CASE Owner[u] # b /\ Owner[u] \notin disturbed'
    <3>1. u # t /\ TabMsgs(u) /\ jar'[Owner[u]] = jar[Owner[u]] /\ Owner[u] \in Visitor
      BY <1>1, <1>2, <2>3 DEF MsgsAreSomewhere
    <3>2. \A m \in Own(u) : seen'[m] = seen[m]
      BY <1>1, <2>3, ReceiveHistory DEF Own
    <3>3. Alone(Owner[u]) => Alone(Owner[u])'
      BY <1>1, <3>1, DoneEffect
    <3> QED
      BY <1>1, <1>3, <2>3, <3>1, <3>2, <3>3, DoneEffect DEF TabMsgs
  <2> QED
    BY <2>1, <2>2, <2>3
<1>7. ShownOnce'
  <2> SUFFICES ASSUME NEW m \in Msg, NEW c, c = setMsgs[m], c # None, c \notin disturbed,
                      Jar!InFlight(c)' = {}
               PROVE  seen'[m] = IF m \in jar'[c].msgs THEN 0 ELSE 1
    BY <1>1 DEF ShownOnce, Jar!ShownOnce
  <2>1. c \in Visitor
    BY <1>1 DEF BaseTypes
  <2>2. CASE c = b
    BY <1>5, <2>2 DEF Own
  <2>3. CASE c # b
    <3>1. Jar!InFlight(c) = {} /\ jar'[c] = jar[c]
      BY <1>1, <1>2, <2>1, <2>3, DoneEffect
    <3>2. seen'[m] = seen[m]
      BY <2>3, ReceiveHistory DEF Own
    <3> QED
      BY <1>1, <3>1, <3>2 DEF ShownOnce, Jar!ShownOnce
  <2> QED
    BY <2>2, <2>3
<1> QED
  BY <1>4, <1>6, <1>7, ReceiveTypes, ReceiveTokens DEF JarInv, MsgsAreSomewhere

LEMMA CookieExpiresInv ==
    ASSUME JarInv, NEW b \in Visitor, NEW d \in Jar!Dir, Jar!CookieExpires(b, d) PROVE JarInv'
<1>1. /\ BaseTypes /\ TokensAgree /\ MsgsAreOwned /\ MsgsAreSomewhere /\ ShownOnce
      /\ Owner \in [Tab -> Visitor] /\ \A t \in Tab : TabTypes(t)
  BY Assumed DEF JarInv, JarTypes
<1>2. /\ jar' = [jar EXCEPT ![b].csrf[d] = None] /\ mixed' = mixed \union {b}
      /\ UNCHANGED <<kept, phase, request, reply, open, sent, late, setMsgs, drawn, seen, disturbed>>
  BY DEF Jar!CookieExpires
<1>3. /\ jar' \in [Visitor -> [msgs : SUBSET Msg, csrf : [Jar!Dir -> drawn \union {None}]]]
      /\ \A c \in Visitor : jar'[c].msgs = jar[c].msgs
      /\ \A c \in Visitor \ {b} : jar'[c] = jar[c]
  BY <1>1, <1>2 DEF BaseTypes
<1>4. JarTypes'
  <2>1. BaseTypes'
    BY <1>1, <1>2, <1>3 DEF BaseTypes
  <2>2. \A t \in Tab : TabTypes(t)'
    BY <1>1, <1>2 DEF TabTypes
  <2> QED
    BY <2>1, <2>2 DEF JarTypes
<1>5. /\ \A c : Jar!InFlight(c)' = Jar!InFlight(c) /\ (Alone(c)' <=> Alone(c))
      /\ \A t \in Tab : Own(t)' = Own(t)
      /\ \A c \in Visitor \ {b} : \A own : Current(c, own)' = Current(c, own)
  BY <1>2, <1>3 DEF Jar!InFlight, Alone, Own, Current, Jar!Carried
<1>6. ASSUME NEW c \in Visitor PROVE JarTokens(c)'
  <2>1. CASE c = b
    BY <1>2, <2>1 DEF JarTokens
  <2>2. CASE c # b
    BY <1>1, <1>2, <1>3, <1>5, <2>2 DEF TokensAgree, JarTokens
  <2> QED
    BY <2>1, <2>2
<1>7. ASSUME NEW t \in Tab PROVE TabTokens(t)'
  <2>1. CASE Owner[t] = b
    BY <1>2, <2>1 DEF TabTokens
  <2>2. CASE Owner[t] # b
    <3>1. Owner[t] \in Visitor /\ TabTokens(t) /\ jar'[Owner[t]] = jar[Owner[t]]
      BY <1>1, <1>3, <2>2 DEF TokensAgree
    <3> QED
      BY <1>2, <1>5, <2>2, <3>1 DEF TabTokens
  <2> QED
    BY <2>1, <2>2
<1>8. MsgsAreOwned'
  BY <1>1, <1>2, <1>3, <1>5 DEF MsgsAreOwned, TabOwned
<1>9. ASSUME NEW t \in Tab PROVE TabMsgs(t)'
  <2>1. TabMsgs(t) /\ jar'[Owner[t]].msgs = jar[Owner[t]].msgs
    BY <1>1, <1>3 DEF MsgsAreSomewhere
  <2> QED
    BY <1>2, <1>5, <2>1 DEF TabMsgs
<1>10. ShownOnce'
  <2> SUFFICES ASSUME NEW m \in Msg, NEW c, c = setMsgs[m], c # None, c \notin disturbed, Jar!InFlight(c) = {}
               PROVE  seen[m] = IF m \in jar'[c].msgs THEN 0 ELSE 1
    BY <1>2, <1>5 DEF ShownOnce, Jar!ShownOnce
  <2>1. c \in Visitor
    BY <1>1 DEF BaseTypes
  <2> QED
    BY <1>1, <1>3, <2>1 DEF ShownOnce, Jar!ShownOnce
<1> QED
  BY <1>4, <1>6, <1>7, <1>8, <1>9, <1>10 DEF JarInv, TokensAgree, MsgsAreSomewhere

-----------------------------------------------------------------------------

LEMMA JarNext == JarInv /\ [Jar!Next]_jarVars => JarInv'
<1> SUFFICES ASSUME JarInv, [Jar!Next]_jarVars PROVE JarInv'
  OBVIOUS
<1>1. CASE UNCHANGED jarVars
  BY <1>1, SameTabs DEF jarVars
<1>2. CASE Jar!Expire
  BY <1>2, SameTabs DEF Jar!Expire
<1>3. ASSUME NEW b \in Visitor, NEW d \in Jar!Dir, Jar!CookieExpires(b, d) PROVE JarInv'
  BY <1>3, CookieExpiresInv
<1>4. ASSUME NEW m \in Msg, Jar!LateMsg(m) PROVE JarInv'
  BY <1>4, LateMsgInv
<1>5. ASSUME NEW m \in Msg, Jar!LateLost(m) PROVE JarInv'
  BY <1>5, SameTabs DEF Jar!LateLost
<1>6. ASSUME NEW t \in Tab, NEW a, Jar!Send(t, a) PROVE JarInv'
  BY <1>6, SendInv
<1>7. ASSUME NEW t \in Tab,
             \/ Jar!AnswerPage(t) \/ Jar!AnswerFailed(t) \/ Jar!AnswerPart(t)
             \/ Jar!AnswerRedirect(t) \/ Jar!AnswerRefusal(t)
      PROVE  JarInv'
  <2>1. PICK r, k, new : Answered(t, r, k, new)
    BY <1>7, PageAnswered, FailedAnswered, PartAnswered, RedirectAnswered, RefusalAnswered
  <2> QED
    BY <2>1, AnswerInv
<1>8. ASSUME NEW t \in Tab, Jar!Receive(t) PROVE JarInv'
  BY <1>8, ReceiveInv
<1>9. ASSUME NEW t \in Tab, Jar!Lost(t) PROVE JarInv'
  BY <1>9, LostInv
<1> QED
  BY <1>1, <1>2, <1>3, <1>4, <1>5, <1>6, <1>7, <1>8, <1>9 DEF Jar!Next

LEMMA JarInvariance == Jar!Spec => []JarInv
BY JarInit, JarNext, PTL DEF Jar!Spec, Jar!vars, jarVars

LEMMA RefusalsFollow == JarInv => RefusalsAreExplained
<1> SUFFICES ASSUME JarInv, NEW t \in Tab, NEW a \in Jar!Forms(open[t].at), Owner[t] \notin mixed,
                    open[t].token # None
             PROVE  open[t].token = Jar!Carried(Owner[t], a.first)
  BY DEF RefusalsAreExplained, Jar!RefusalsAreExplained
<1>1. /\ open[t].token = jar[Owner[t]].csrf[open[t].at] /\ open[t].at \in {"/", "/user"}
      /\ jar[Owner[t]].csrf["/jobs"] \in {None, jar[Owner[t]].csrf["/"]}
  BY Assumed DEF JarInv, JarTypes, BaseTypes, TokensAgree, TabTokens, JarTokens
<1>2. CASE open[t].at = "/user"
  <2>1. a.first = "/user"
    BY <1>2 DEF Jar!Forms, Jar!Ask
  <2> QED
    BY <1>1, <1>2, <2>1, CarriedValue
<1>3. CASE open[t].at = "/"
  <2>1. a.first \in {"/", "/jobs"}
    BY <1>3 DEF Jar!Forms, Jar!Ask
  <2> QED
    BY <1>1, <1>3, <2>1, CarriedValue
<1> QED
  BY <1>1, <1>2, <1>3

\* Every behaviour of WebPages is one of each view, in one of which nothing
\* happens.
LEMMA BothViews == PagesSpec => Spec /\ Jar!Spec
<1>1. PagesInit => Init /\ Jar!Init
  BY DEF PagesInit
<1>2. [PagesNext]_<<part, pageVars, jarVars>> => [Next]_vars /\ [Jar!Next]_jarVars
  BY DEF PagesNext, pageVars, jarVars, vars
<1> QED
  BY <1>1, <1>2, PTL DEF PagesSpec, Spec, Jar!Spec, Jar!vars, jarVars

\* Cookies, requests and responses keep their types, and so do the renderer's
\* caches.
THEOREM PagesTheorem == PagesSpec => []PagesTypeOK
<1>1. JarInv => Jar!TypeOK
  BY TypesImply DEF JarInv
<1> QED
  BY <1>1, BothViews, TypeCorrect, JarInvariance, PTL DEF PagesTypeOK

\* A visitor whose requests never overlapped, who lost no response and had no
\* page fail sees each flash message set in its session once, a late one of
\* another visitor's registration included (msg.go:54-77, page.go:155,
\* auth.go:345).
THEOREM ShownTheorem == Jar!Spec => []ShownOnce
<1>1. JarInv => ShownOnce
  BY DEF JarInv
<1> QED
  BY <1>1, JarInvariance, PTL

\* With a cookie for each directory of URLs, a form is refused only for one of
\* the three reasons (router.go:44-47).
THEOREM RefusalsTheorem == Jar!Spec => []RefusalsAreExplained
BY RefusalsFollow, JarInvariance, PTL

=============================================================================
