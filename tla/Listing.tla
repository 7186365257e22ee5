------------------------------ MODULE Listing ------------------------------
(***************************************************************************)
(* The list of a user's jobs (pkg/handlers/pages.go) and its pager         *)
(* (pkg/page/pager.go). JobAdd and JobDelete write to table jobs and then  *)
(* answer with Home, which queries one page of it: requests overlap        *)
(* between these steps. A reader walks through the pages meanwhile.        *)
(*                                                                         *)
(* A job is the rank of its created_at, which gorm's hook sets before the  *)
(* row is inserted. Rows of other users are not selected and left out.     *)
(***************************************************************************)
EXTENDS Integers, FiniteSets

CONSTANTS
    PerPage,    \* Home: page.NewPager(ctx, 4)
    Told,       \* fetchPosts: pager.SetItems(20)
    Request,
    MaxJobs,    \* bound: jobs ever made
    MaxFaults   \* bound: statements that fail

ListingAssumption ==
    /\ PerPage \in Nat \ {0} /\ Told \in Nat
    /\ MaxJobs \in Nat /\ MaxFaults \in Nat

VARIABLES
    jobs,     \* the user's rows in table jobs
    clock,    \* the newest created_at given out
    gone,     \* history: rows that have been deleted
    faults,   \* statements that have failed
    step,     \* Request -> what its handler does next
    asked,    \* Request -> what is asked
    list,     \* Request -> the list in the response
    walk      \* the reader: history of the pages read so far

vars == <<jobs, clock, gone, faults, step, asked, list, walk>>

Job == 1 .. MaxJobs

(***************************************************************************)
(* pkg/page/pager.go. A page parameter that is absent or no number is 0.   *)
(***************************************************************************)
Pager == [Items : Nat, Page : Nat, ItemsPerPage : Nat \ {0}, Pages : Nat]

NewPager(param, itemsPerPage) ==
    [Items |-> 0, Page |-> IF param > 0 THEN param ELSE 1,
     ItemsPerPage |-> itemsPerPage, Pages |-> 0]

\* Variant: a last page that is not full is not counted.
MutSetItems(p, items) ==
    LET pages == items \div p.ItemsPerPage
    IN  [p EXCEPT !.Items = items, !.Pages = pages,
                  !.Page = IF @ > pages THEN pages ELSE @]

SetItems(p, items) ==
    LET pages == (items + p.ItemsPerPage - 1) \div p.ItemsPerPage
    IN  [p EXCEPT !.Items = items, !.Pages = pages,
                  !.Page = IF @ > pages THEN pages ELSE @]

IsEnd(p) == p.Page >= p.Pages

\* Variant: pages counted from zero.
MutGetOffset(p) == p.Page * p.ItemsPerPage

GetOffset(p) == ((IF p.Page = 0 THEN 1 ELSE p.Page) - 1) * p.ItemsPerPage

-----------------------------------------------------------------------------

\* Variant: oldest first.
MutNewer(t, j) == Cardinality({k \in t : k < j})

\* How many rows of t the query returns before row j: ORDER BY created_at DESC.
Newer(t, j) == Cardinality({k \in t : k > j})

\* Variant: one row more than the pager counts with.
MutSelect(t, p) ==
    {j \in t : GetOffset(p) <= Newer(t, j) /\ Newer(t, j) <= GetOffset(p) + p.ItemsPerPage}

\* LIMIT ItemsPerPage OFFSET GetOffset().
Select(t, p) ==
    {j \in t : GetOffset(p) <= Newer(t, j) /\ Newer(t, j) < GetOffset(p) + p.ItemsPerPage}

HomePager(param) == SetItems(NewPager(param, PerPage), Told)

\* Home: the page and its rows; after an error there are none.
NoView == [page |-> 0, rows |-> {}, failed |-> FALSE]
Fetched(param) ==
    LET p == HomePager(param)
    IN  [page |-> p.Page, rows |-> Select(jobs, p), failed |-> FALSE]
NotFetched(param) == [page |-> HomePager(param).Page, rows |-> {}, failed |-> TRUE]

NoReq == [kind |-> "none", job |-> 0]
NoWalk == [page |-> 0, from |-> {}, gone |-> {}, top |-> 0, seen |-> {}, repeats |-> 0, failed |-> 0]
Params == 0 .. (Told \div PerPage + 2)

TypeOK ==
    /\ jobs \subseteq 1 .. clock /\ clock \in 0 .. MaxJobs
    /\ gone \subseteq (1 .. clock) \ jobs
    /\ faults \in 0 .. MaxFaults
    /\ step \in [Request -> {"idle", "insert", "delete", "list", "shown"}]
    /\ asked \in [Request -> [kind : {"none", "home", "add", "delete"}, job : 0 .. MaxJobs]]
    /\ list \in [Request -> [page : Params, rows : SUBSET Job, failed : BOOLEAN]]
    /\ walk \in [page : Params, from : SUBSET Job, gone : SUBSET Job, top : 0 .. MaxJobs,
                 seen : SUBSET Job, repeats : 0 .. MaxJobs * MaxJobs, failed : 0 .. MaxFaults]

Init ==
    /\ clock \in 0 .. MaxJobs
    /\ jobs = 1 .. clock
    /\ gone = {}
    /\ faults = 0
    /\ step = [r \in Request |-> "idle"]
    /\ asked = [r \in Request |-> NoReq]
    /\ list = [r \in Request |-> NoView]
    /\ walk = NoWalk

-----------------------------------------------------------------------------

Begin(r, next, q) ==
    /\ step[r] = "idle"
    /\ step' = [step EXCEPT ![r] = next]
    /\ asked' = [asked EXCEPT ![r] = q]
    /\ UNCHANGED <<jobs, gone, faults, list, walk>>

\* A form that does not bind, or an id that is no number: nothing but Home.
Home(r) ==
    /\ Begin(r, "list", [kind |-> "home", job |-> 0])
    /\ UNCHANGED clock

\* Variant: a clock that stands still gives a created_at twice.
MutJobAdd(r) ==
    /\ clock < MaxJobs
    /\ Begin(r, "insert", [kind |-> "add", job |-> clock + 1])
    /\ UNCHANGED clock

JobAdd(r) ==
    /\ clock < MaxJobs
    /\ clock' = clock + 1
    /\ Begin(r, "insert", [kind |-> "add", job |-> clock + 1])

JobDelete(r, j) ==
    /\ Begin(r, "delete", [kind |-> "delete", job |-> j])
    /\ UNCHANGED clock

\* The statement of JobAdd or JobDelete. Deleting a row that is not there is
\* no error.
Write(r) ==
    /\ \/ step[r] = "insert" /\ jobs' = jobs \union {asked[r].job} /\ UNCHANGED gone
       \/ /\ step[r] = "delete"
          /\ jobs' = jobs \ {asked[r].job}
          /\ gone' = gone \union ({asked[r].job} \intersect jobs)
    /\ step' = [step EXCEPT ![r] = "list"]
    /\ UNCHANGED <<clock, faults, asked, list, walk>>

\* An error, such as an address that is taken, is only logged.
WriteFails(r) ==
    /\ step[r] \in {"insert", "delete"}
    /\ faults < MaxFaults
    /\ faults' = faults + 1
    /\ step' = [step EXCEPT ![r] = "list"]
    /\ UNCHANGED <<jobs, clock, gone, asked, list, walk>>

Respond(r, v) ==
    /\ step[r] = "list"
    /\ step' = [step EXCEPT ![r] = "shown"]
    /\ list' = [list EXCEPT ![r] = v]
    /\ UNCHANGED <<jobs, clock, gone, asked, walk>>

\* Forms and buttons name no page.
FetchPosts(r) == Respond(r, Fetched(0)) /\ UNCHANGED faults

FetchFails(r) ==
    /\ faults < MaxFaults
    /\ faults' = faults + 1
    /\ Respond(r, NotFetched(0))

Read(r) ==
    /\ step[r] = "shown"
    /\ step' = [step EXCEPT ![r] = "idle"]
    /\ asked' = [asked EXCEPT ![r] = NoReq]
    /\ list' = [list EXCEPT ![r] = NoView]
    /\ UNCHANGED <<jobs, clock, gone, faults, walk>>

(***************************************************************************)
(* The reader asks for page 1 and then for the next page while the pager   *)
(* is not at its end.                                                      *)
(***************************************************************************)
Walked(w, v) ==
    [w EXCEPT !.page = v.page, !.seen = @ \union v.rows,
              !.repeats = @ + Cardinality(v.rows \intersect w.seen),
              !.failed = IF v.failed THEN @ + 1 ELSE @]

Turn(next) ==
    LET w == IF next = 1
             THEN [NoWalk EXCEPT !.from = jobs, !.gone = gone, !.top = Cardinality(jobs \union gone)]
             ELSE walk
    IN  \/ walk' = Walked(w, Fetched(next)) /\ UNCHANGED faults
        \/ /\ faults < MaxFaults
           /\ faults' = faults + 1
           /\ walk' = Walked(w, NotFetched(next))

NextPage ==
    /\ \/ walk.page = 0 /\ Turn(1)
       \/ walk.page > 0 /\ ~IsEnd(HomePager(walk.page)) /\ Turn(walk.page + 1)
    /\ UNCHANGED <<jobs, clock, gone, step, asked, list>>

Next ==
    \/ NextPage
    \/ \E r \in Request :
        \/ Home(r) \/ JobAdd(r) \/ (\E j \in jobs : JobDelete(r, j))
        \/ Write(r) \/ WriteFails(r) \/ FetchPosts(r) \/ FetchFails(r) \/ Read(r)

Spec == Init /\ [][Next]_vars

-----------------------------------------------------------------------------

(***************************************************************************)
(* Pages 1 to Pages show every job up to the pager's number of items once, *)
(* whatever page size and number it is given (pager.go:54-80,              *)
(* pages.go:171-175): a last page that is not full is a page too, and an   *)
(* job is never on two pages or between them.                              *)
(***************************************************************************)
PagesPartition ==
    LET p(k) == SetItems(NewPager(k, PerPage), Told)
        On(j) == {k \in 1 .. p(1).Pages : j \in Select(jobs, p(k))}
    IN  \A j \in jobs :
            /\ \A k, l \in On(j) : k = l
            /\ Cardinality({k \in jobs : k > j}) < Told => On(j) # {}

(***************************************************************************)
(* Whoever adds a job finds it on the first page of the answer, if it was  *)
(* stored, the list could be read and nobody deletes it: no request that   *)
(* overlaps can hide it but by adding newer ones (pages.go:120-127,        *)
(* 166-182).                                                               *)
(***************************************************************************)
FreshJobIsListed ==
    \A r \in Request :
        step[r] = "shown" /\ asked[r].kind = "add" /\ list[r].page = 1 /\ ~list[r].failed =>
            \/ asked[r].job \notin jobs
            \/ asked[r].job \in list[r].rows
            \/ Cardinality({k \in jobs \union gone : k > asked[r].job}) >= PerPage

\* Jobs that were there all along and that the reader has passed over.
Missed == {j \in (walk.from \intersect jobs) \ walk.seen : \E k \in walk.seen : k < j}

(***************************************************************************)
(* A reader who turns the pages while jobs come and go passes over no more *)
(* jobs than were deleted meanwhile, or stood on a page that could not be  *)
(* read, and sees no more again than were added (pages.go:166-182).        *)
(***************************************************************************)
WalksAreExplained ==
    /\ Cardinality(Missed) <= Cardinality(gone \ walk.gone) + PerPage * walk.failed
    /\ walk.repeats <= Cardinality(jobs \union gone) - walk.top

=============================================================================
