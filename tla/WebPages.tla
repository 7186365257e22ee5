------------------------------ MODULE WebPages ------------------------------
(***************************************************************************)
(* Two views of the web application's pages that share no state: a         *)
(* behaviour is one of PageCache or one of Cookies.                        *)
(***************************************************************************)
EXTENDS PageCache

CONSTANTS Visitor, Tab, Owner, Msg, Token, None, MaxRequests

VARIABLES
    part,
    jar, kept, phase, request, reply, open, sent, late, setMsgs, drawn, seen, disturbed, mixed

Jar == INSTANCE Cookies WITH Browser <- Visitor

ASSUME JarAssumption == Jar!CookiesAssumption

pageVars == <<loggedIn, templates, cached, stage, req, view>>
jarVars == <<jar, kept, phase, request, reply, open, sent, late, setMsgs, drawn, seen,
             disturbed, mixed>>

PagesInit == part \in {"cache", "cookies"} /\ Init /\ Jar!Init

PagesNext ==
    /\ UNCHANGED part
    /\ \/ part = "cache" /\ Next /\ UNCHANGED jarVars
       \/ part = "cookies" /\ Jar!Next /\ UNCHANGED pageVars

PagesSpec == PagesInit /\ [][PagesNext]_<<part, pageVars, jarVars>>

PagesTypeOK == TypeOK /\ Jar!TypeOK
ShownOnce == Jar!ShownOnce
RefusalsAreExplained == Jar!RefusalsAreExplained

=============================================================================
