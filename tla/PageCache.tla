----------------------------- MODULE PageCache -----------------------------
(***************************************************************************)
(* How the web application answers a GET: the middleware that serves       *)
(* cached pages (pkg/middleware/cache.go), the handlers of three pages,    *)
(* the error handler, and TemplateRenderer, which keeps parsed templates   *)
(* and whole pages. The pages are "about" at /, cached and open to all,    *)
(* "home" at /dashboard, for users logged in, and "login", for the others; *)
(* "error" takes the place of a page refused or that cannot be rendered.   *)
(***************************************************************************)
EXTENDS Naturals

CONSTANTS
    Browser,
    Request     \* bound: requests in flight

VARIABLES
    loggedIn,   \* the browsers whose session cookie is authenticated
    templates,  \* templateCache: <<group, page>> -> layout it was parsed for
    cached,     \* the CachedPage under the URL of "about", NoPage for none
    stage,      \* Request -> "idle", "handler" or "shown"
    req,        \* Request -> the request, as the middleware and page.New see it
    view        \* Request -> the page sent back

vars == <<loggedIn, templates, cached, stage, req, view>>

PageName == {"about", "home", "login", "error"}
Layout == {"main", "auth", "htmx"}

\* A page as sent or cached: its layout, and whether it was made for a user
\* logged in.
View == [page : PageName, layout : Layout, isAuth : BOOLEAN]
NoPage == [page |-> "none"]

\* htmx "part" is a request that is not boosted: navigation back to a page that
\* left htmx's history, or the buttons of a pager.
Asked == [page : PageName, htmx : {"no", "boosted", "part"}, isAuth : BOOLEAN]

TypeOK ==
    /\ loggedIn \subseteq Browser
    /\ templates \in [DOMAIN templates -> Layout]
    /\ cached \in View \union {NoPage}
    /\ stage \in [Request -> {"idle", "handler", "shown"}]
    /\ \A r \in Request : stage[r] # "idle" => req[r] \in Asked
    /\ \A r \in Request : stage[r] = "shown" => view[r] \in View

Init ==
    /\ loggedIn = {}
    /\ templates = << >>
    /\ cached = NoPage
    /\ stage = [r \in Request |-> "idle"]
    /\ req = [r \in Request |-> NoPage]
    /\ view = [r \in Request |-> NoPage]

-----------------------------------------------------------------------------

\* AuthClient.Login and Logout change the session cookie.
ChangeSession(b) ==
    /\ loggedIn' \in {loggedIn \union {b}, loggedIn \ {b}}
    /\ UNCHANGED <<templates, cached, stage, req, view>>

\* The entry expires or its tags are flushed.
Expire ==
    /\ cached # NoPage
    /\ cached' = NoPage
    /\ UNCHANGED <<loggedIn, templates, stage, req, view>>

\* Variant: a miss is served.
MutServed(a) == a.page = "about" /\ ~a.isAuth

(***************************************************************************)
(* The middleware: LoadAuthenticatedUser, then ServeCachedPage.            *)
(***************************************************************************)
Served(a) == a.page = "about" /\ ~a.isAuth /\ cached # NoPage

Arrive(r, b, p, h) ==
    /\ stage[r] = "idle"
    /\ LET a == [page |-> p, htmx |-> h, isAuth |-> b \in loggedIn]
       IN  /\ req' = [req EXCEPT ![r] = a]
           /\ IF Served(a)
              THEN /\ stage' = [stage EXCEPT ![r] = "shown"]
                   /\ view' = [view EXCEPT ![r] = cached]
              ELSE /\ stage' = [stage EXCEPT ![r] = "handler"]
                   /\ UNCHANGED view
    /\ UNCHANGED <<loggedIn, templates, cached>>

(***************************************************************************)
(* The handlers: RequireAuthentication, RequireNoAuthentication, and the   *)
(* error page for what they refuse.                                        *)
(***************************************************************************)
Shown(a) ==
    IF (a.page = "home" /\ ~a.isAuth) \/ (a.page = "login" /\ a.isAuth) THEN "error" ELSE a.page

LoginLayout == "auth"
LayoutOf(p) == IF p = "login" THEN LoginLayout ELSE "main"

\* HTMX is switched off for error pages.
Partial(a) == a.htmx = "part" /\ Shown(a) # "error"

(***************************************************************************)
(* TemplateRenderer.RenderPage.                                            *)
(***************************************************************************)
Wanted(a) == IF Partial(a) THEN "htmx" ELSE LayoutOf(Shown(a))
\* Variant: one group for full and partial pages.
MutGroup(a) == "page"

Group(a) == IF Partial(a) THEN "page:htmx" ELSE "page"

\* parse: once for each group and page name, and again at any time in the local
\* environment.
Parsed(key, layout) == IF key \in DOMAIN templates THEN templates[key] ELSE layout

Render(a) ==
    [page |-> Shown(a), layout |-> Parsed(<<Group(a), Shown(a)>>, Wanted(a)),
     isAuth |-> a.isAuth]

\* The parsed template is stored before it is executed.
Stored(a) ==
    [k \in DOMAIN templates \union {<<Group(a), Shown(a)>>} |->
        IF k = <<Group(a), Shown(a)>> THEN Render(a).layout ELSE templates[k]]

CacheEnabled(a) == Shown(a) = "about"

\* Variant: pages of users logged in are kept too.
MutCachePage(a, v) == IF ~CacheEnabled(a) THEN cached ELSE v

\* What cachePage leaves in the cache.
CachePage(a, v) == IF ~CacheEnabled(a) \/ a.isAuth THEN cached ELSE v

\* Saving the page may fail, which is only logged.
Respond(r) ==
    /\ stage[r] = "handler"
    /\ LET a == req[r]
           v == Render(a)
       IN  /\ templates' = Stored(a)
           /\ cached' \in {CachePage(a, v), cached}
           /\ view' = [view EXCEPT ![r] = v]
    /\ stage' = [stage EXCEPT ![r] = "shown"]
    /\ UNCHANGED <<loggedIn, req>>

\* The template does not parse, or not execute: the error page is next, and
\* nothing is sent when that was the error page.
RenderFails(r) ==
    /\ stage[r] = "handler"
    /\ templates' \in {templates, Stored(req[r])}
    /\ IF Shown(req[r]) = "error"
       THEN stage' = [stage EXCEPT ![r] = "idle"] /\ req' = [req EXCEPT ![r] = NoPage]
       ELSE /\ req' = [req EXCEPT ![r] = [page |-> "error", htmx |-> "no", isAuth |-> @.isAuth]]
            /\ UNCHANGED stage
    /\ UNCHANGED <<loggedIn, cached, view>>

Read(r) ==
    /\ stage[r] = "shown"
    /\ stage' = [stage EXCEPT ![r] = "idle"]
    /\ req' = [req EXCEPT ![r] = NoPage]
    /\ view' = [view EXCEPT ![r] = NoPage]
    /\ UNCHANGED <<loggedIn, templates, cached>>

Next ==
    \/ Expire
    \/ \E b \in Browser : ChangeSession(b)
    \/ \E r \in Request :
        \/ Respond(r) \/ RenderFails(r) \/ Read(r)
        \/ \E b \in Browser, p \in PageName \ {"error"}, h \in {"no", "boosted", "part"} :
              Arrive(r, b, p, h)

Spec == Init /\ [][Next]_vars

-----------------------------------------------------------------------------

(***************************************************************************)
(* A page made for a user who is logged in is sent to that request only:   *)
(* the page cache neither keeps it nor gives it to anyone, with requests,  *)
(* logins and logouts in any order (template_renderer.go:170,              *)
(* middleware/cache.go:27-30).                                             *)
(***************************************************************************)
PersonalPagesAreNotShared ==
    \A r \in Request : stage[r] = "shown" => view[r].isAuth = req[r].isAuth

(***************************************************************************)
(* The template cache never yields a page in the layout of another kind of *)
(* request: its key separates partial and full pages                       *)
(* (template_renderer.go:114-140, 254-294).                                *)
(***************************************************************************)
TemplatesFit ==
    \A r \in Request : stage[r] = "handler" => Render(req[r]).layout = Wanted(req[r])

(***************************************************************************)
(* "HTML stores the complete HTML of the rendered Page"                    *)
(* (template_renderer.go:69).                                              *)
(***************************************************************************)
CachedPageIsComplete == cached # NoPage => cached.layout # "htmx"

=============================================================================
