# A verification project for Gossiper

Gossiper receives mail for addresses under one hostname and calls a webhook for each. This
directory holds TLA+ models of its processes, the TLC configurations that check them on small
instances, and proofs checked by TLAPS. Source locations are relative to `src/`.

## 1. The system

Three processes share a Postgres database:

    sending MTA --SMTP--> cmd/smtp --insert--> smtp_messages --poll--> cmd/worker --HTTP--> webhook
                                                                         |  \--SMTP--> auto-reply
    browser ----HTTP----> cmd/web  --insert/delete--> jobs  --lookup-----/
                             \--> users, password_tokens, page cache, task queue

An older worker, which is pushed messages over a websocket, is still in `pkg/worker` with its
tests.

| Component | State | Operations | Hard behaviour | What makes it correct |
|---|---|---|---|---|
| SMTP agent, `pkg/smtp` | per session: sender, recipients | MAIL, RCPT, DATA, RSET, QUIT | interleaved sessions, partial inserts, lost connections, crash | a 250 means every accepted recipient has its row; nothing of one mail reaches another |
| Poller, `pkg/worker/poller.go` | the batch, the message in hand, the context, the shutdown channel | poll, look up, call, reply, mark, stop | crash or cancellation between a call and the mark; hanging calls; backlog | each message is tried with the jobs found for it before it is marked; repeats need a fault; nothing is left behind |
| Processor, `pkg/worker/processor.go` | none | select jobs by address and sender | jobs change meanwhile | only matching jobs |
| Websocket worker, `pkg/worker/worker.go`, `client.go` | two channels, a wait group, a derived context | connect, read, dispatch, drain | select among ready channels, leaking goroutines, timeout of the drain | the reader ends, a stop waits for every message in processing or for its timeout |
| Web process, `cmd/web/main.go`, `pkg/services/container.go` | the services made so far, the server and runner goroutines, requests under way | start services, listen, run tasks, cancel, drain, close | the server starts before the task queues are registered; many early ends; nobody waits for the runner | nothing meets half a container; a signal ends the process |
| Task client, `pkg/services/tasks.go` | buffer pool, queue | save (in a transaction, after a delay), receive, run, delete, retry | buffers shared between goroutines; the process ends with tasks running | what is saved is what is run; it runs again only after a fault |
| Tagged cache, `pkg/services/cache.go` | store, tag index | set, get, flush | no lock over both; late notifications | index consistent; a flush removes |
| Accounts, `pkg/handlers/auth.go`, `pkg/services/auth.go` | users, tokens, session cookies, mails | register, verify, log in, log out, forgot, reset | overlapping requests, lost mail, a shared browser | sessions are of verified users; links given out before a reset are dead |
| Job pages and pager, `pkg/handlers/pages.go`, `pkg/page/pager.go` | table jobs | add, delete, list, turn the page | pages cut by OFFSET of a table that changes; writes that fail and are only logged | pages partition the list; who adds a job sees it |
| Page rendering, `template_renderer.go`, `middleware/cache.go` | parsed templates, cached pages | serve, render, cache | full and partial requests, logins between requests | personal pages are not shared |
| Flash messages and CSRF token, `pkg/msg/msg.go`, `router.go` | per browser, a cookie of messages and one token for each directory of URLs | set, show and clear; draw, check | each response replaces a whole cookie; the cached page carries somebody else's token; a goroutine sets a message on a context that is already another request's | a message is shown once; forms are refused only for a reason |
| Forms, mail client, configuration, presentation | per request, or none | | see section 8 | |

`PROJECT.json` lists the hazards of this code line by line, with the properties that watch each.

## 2. Modules

| Module | Models | Extends / instantiates |
|---|---|---|
| `Records` | table `smtp_messages` | |
| `Jobs` | table `jobs` and `ProcessMessage` | `Records` |
| `Delivery` | abstract: what the worker promises per message | `Jobs` |
| `MessagePoller` | `cmd/worker` with poller, webhook sender, replier | `Jobs`; instantiates `Delivery` |
| `MessagePollerProofs` | theorems about `MessagePoller` | `MessagePoller`, `TLAPS` |
| `SmtpServer` | `cmd/smtp`, `pkg/smtp`, and the mail servers that send | `Records` |
| `MailPipeline` | agent, worker and job pages over the shared tables | instantiates `SmtpServer`, `MessagePoller` |
| `TaskQueue` | `pkg/services/tasks.go` and its queue | |
| `WebServer` | `cmd/web/main.go` and the container, from start to end | |
| `WebProcess` | the web process with its task queue | instantiates `WebServer`, `TaskQueue` |
| `TagCache` | `pkg/services/cache.go` and its store | |
| `SocketWorker` | `worker.go`, `client.go`, and the fetch of a message | |
| `Accounts` | authentication | |
| `Listing` | a user's list of jobs and its pager | |
| `PageCache` | GET requests, template cache, page cache | |
| `Cookies` | flash messages and CSRF tokens of browsers with several tabs | |
| `UserTables` | what `Accounts` and `Listing` are together | `Accounts`; instantiates `Listing` |
| `WebPages` | what `PageCache` and `Cookies` are together | `PageCache`; instantiates `Cookies` |
| `SmtpServerProofs`, `WebProcessProofs`, `TagCacheProofs`, `SocketWorkerProofs`, `UserTablesProofs`, `WebPagesProofs` | theorems | the module named, `TLAPS` |
| `MailPipelineProofs` | theorems about the composition | `MailPipeline`, `TLAPS`; instantiates `MessagePollerProofs`, `SmtpServerProofs` |
| `MC*` | instances for TLC | the module named |

`UserTables` and `WebPages` each put two modules side by side: `Accounts` with `Listing`, and
`PageCache` with `Cookies`. The two describe different tables, or different views of the same
requests, and share no variable. The initial state chooses one of them (`part`), and only that one
moves: a run of `MCAccounts` or `MCPages` checks each as a run of its own would, and a theorem about
the union is one about each.

A definition named `Mut...` stands in front of the definition it varies: it is the same code with
one plausible mistake. No specification uses one; each shows that some property would notice.

### State and actions against the code

* **MessagePoller.** `pc` is where the main goroutine is: `idle` in the select of `Start`, `next`
  at the head of the loop over the batch, `send`/`call` in `SendWebhooks`, `reply` in the loop
  over results, `save` at the mark, `down` when the process is not running. The loop variables are
  `batch`, `cur`, `matched`, `todo`; `result` is `webhookResults`. `shutdown` and `ctxDone` are the
  two things the signal goroutine sets, one after the other, while the loop runs: every action
  that queries the database or sends a request is split by `ctxDone`. `calls` and `replies` count
  what has left the process. Webhooks of one message are called in any order, and replies too:
  the query of `GetActiveJobs` has no ORDER BY. Row ids are numbers in the order of `created_at`.
* **SmtpServer.** `phase[c]` is what connection `c`'s goroutine does; `session[c]` the `Session`.
  `table` and `origin` (a history of who stored a row) change row by row. The other half is the
  sending server: it counts `accepted` recipients on its own, may lose the connection, and sends
  a mail again unless it was acknowledged or refused.
* **MailPipeline** is the conjunction of both, with `table` shared and the other variables apart.
* **TaskQueue.** A buffer is a backing array; `mem` its contents. `Save` is split where another
  goroutine can get in: at each `Get`, at each encoding, at the `Put`s, at the `Send`. Reading a
  message through a stale slice yields the other content or garbage, as a race may. A message is
  `pending` in the caller's transaction until that commits, `delayed` if `Wait` or `At` was
  called, `waiting` when it may be received, `running` until the subscriber returns, `ran` until
  its row is deleted. `Stop` is what the end of the process does to it: open transactions roll
  back and messages in hand become visible again.
* **WebServer.** `main` is where the main goroutine is; `init` makes one service per step in the
  order of `NewContainer`, and any that can panic may. The server goroutine is started by
  `BuildRouter` and runs beside `Register` and `StartRunner`. After the signal come `Cancel`,
  `Shutdown`, `Drain` and the deferred `Close`, one service per step. Echo's `Shutdown` is external
  and both outcomes are allowed: it finds nothing to wait for, since `main` gave `StartServer` an
  `http.Server` of its own, or it drains.
* **WebProcess** is the conjunction: a handler must be running to save, the runner to receive, the
  process to commit; when the process ends, by whichever step, the queue sees `Stop`.
* **TagCache.** One action per critical section (`tagIndex` methods) and per store operation.
  `pending` counts notifications the store owes its listener. A set the store refuses
  (`SetRefused`) is followed by `SetTags` all the same, as in the code.
* **SocketWorker.** One program counter each for `Start`, `ReadMessages` and every
  `processMessageAsync`; a select is one action per case, so any ready case may be taken; deferred
  calls run in reverse order. `wg` is the counter of `processingWg`: `Spawn` adds one and starts a
  goroutine per recipient, `Done` takes one away, and `shutdown` waits for zero. A goroutine looks
  up the jobs and then goes round the loop of `SendWebhooks` any number of times, one call in hand
  at a time.
* **Accounts.** Requests that take several statements, or a hash comparison, are split into steps
  (`stage`, `arg`); requests of one browser overlap. Passwords stand for their hashes, a JWT for
  the address it names. A login whose session cannot be saved (`LoginFails`) and a reset that fails
  at a statement (`ResetFails`) end there, with what they had done so far. The message that
  `RegisterSubmit`'s goroutine sets after its mail is in `Cookies`.
* **Listing.** A job is the rank of its `created_at`. `step` is where a request's handler is:
  between the statement that writes and the query that lists, others come in. The pager's functions
  are operators with the code's arithmetic. `walk` is a reader who turns the pages, which takes as
  many requests as there are pages.
* **PageCache.** A request is decided on arrival (middleware, `page.New`) and answered later, by
  the page (`Respond`) or, when its template fails (`RenderFails`), by the error page, whose own
  failure sends nothing.
* **Cookies.** `jar` is what the browser holds, `request` what it sent, `reply` what is on its way
  back: a response carries whole cookies, so one that arrives late undoes what came between. The
  cookie of the CSRF token has no path (`router.go:45`), so the browser keeps one per directory
  (`Dir`), reads and replaces the one of the URL it asks for, and sends all that apply, of which the
  middleware reads the first (`Carried`). A dashboard's forms are sent to `/jobs` and `/jobs/:id`,
  whose responses are parts of a page: they set cookies and show no messages (`AnswerPart`). A page
  that fails after it has taken the messages loses them (`AnswerFailed`). `late` follows the
  `echo.Context` that `RegisterSubmit` hands to its goroutine: the request it belongs to, echo's
  pool once that is answered, any later request that takes it out again; `LateMsg` sets the
  goroutine's message in the session of that request, `LateLost` on none. Out of the model is the
  data race itself, of two goroutines on one context, beyond its outcomes here; that the error page
  fails in its turn is in `PageCache` only. `disturbed` and `mixed` are histories of the events that
  may explain a lost message or a refused form.

## 3. Runs

| Run | Bounds | What it shows |
|---|---|---|
| `poller` | 3 messages, 2 jobs of one address, batches of 2, 1 fault | safety of the worker; it implements `Delivery`; no message left behind; a stop stops |
| `poller_reply` | 1 message | **violated**: replies after any HTTP status |
| `smtp` | 3 mails, 2 connections, 2 tries, 2 recipients at most, 2 faults | what a 250 promises; sessions are separate |
| `pipeline` | 1 mail to 4 recipients, one of them foreign, 2 accepted at most, 3 jobs, 1 connection, 2 tries, 1 fault on each side | end to end bound on calls; only accepted mail; an acknowledged mail is processed |
| `tasks` | 1 request at a time, 1 saver, 2 saves, 2 receives, 1 end of the process, 1 failed deletion | services start and stop in order; how often a task runs, and that it does, however the process ends; a signal ends the process |
| `tasks_concurrent` | 2 savers, 3 saves | **violated**: a task overwritten in the pool |
| `tag_cache` | 2 goroutines, 2 keys, 2 tags, 2 sets, each of them refused or not | index in sync; flush of untouched entries |
| `tag_cache_flush` | 1 goroutine, 3 sets | **violated**: a late notification hides an entry |
| `socket` | 3 messages (2, 0, 1 recipients), channel of 1 | end of `Start`, wait group and drain, reader |
| `accounts` | 2 users, 1 browser, 2 requests, 2 tokens; 4 jobs, pages of 2, 3 items told of, 2 requests and a reader, 1 failed statement | sessions of verified accounts, dead links; pages partition the list, a new job is listed, a reader's losses are explained |
| `pages` | 2 browsers, 2 requests; 2 visitors, 3 tabs, 2 messages, 2 tokens, 4 requests | no personal page shared, templates fit; messages shown once, refusals explained |
| `pages_partial` | 2 browsers, 2 requests | **violated**: a partial in the page cache |

Why the bounds suffice. A fault in the poller has its full effect on one message, and the next one
shows what carries over, so one fault with three messages and batches of two covers a batch that
ends, one that is broken off, and a backlog. Two jobs of one address can replace each other between
lookup and call. In `pipeline` two recipients are accepted, so a mail can be half stored; one is
refused as foreign and one for the limit, and a job watches that one too; of the jobs of the first
one accepts the sender and the other does not. Mails that follow each other on a connection are the
business of `smtp`. In `smtp` the three mails cover a refused recipient between accepted ones, a
repeated recipient, and the limit on recipients; two tries are the least that can duplicate and two
faults let the retry fail as well. Two keys and two tags are the least at which the index can mix up
anything; two sets of one key the least for a replacement, and the violation needs a third only to
keep the first tagged. Two overlapping resets with two links are the least that can race. In `tasks`
one message can be in a transaction while the other runs, and with one saver no buffer is
overwritten, which is the business of `tasks_concurrent`; with two receives a task can fail, succeed
and have its deletion fail. Told of three items with pages of two, the pager has a last page that is
not full and jobs beyond it. In `pages` four requests let a visitor get a page, register, have the
recycled context of that request serve another visitor, and let the latter see the message; or open
`/user`, and `/` and `/dashboard` at once, and send a form. Two tokens are the least that can
disagree. Every bound is a constant of its module: `MaxFaults`, `MaxTries`, `MaxSaves`, `MaxEnds`,
`MaxSets`, `MaxJobs`, `MaxRequests`, `N`, `MaxTokens`, and the sets `Request` and `Msg`.

Deadlock checking is off where the system really may stop: `socket` (every goroutine has ended),
`pages` (every request of the bound has been sent and answered), `tasks` and `tasks_concurrent`
(the saves and ends of the bound are used up, every message has run or is exhausted).

## 4. Properties

*Worker.* `RepeatsNeedAFault`, `RepliesFollowCalls`, `CallsPrecedeMark` (no call once a row is
marked, no mark before its calls), `ImplementsDelivery`, `EveryMessageProcessed`, `StopsWhenTold`.
The delivery is *at least once* for the attempt, not for the success: a webhook that fails is not
retried, whatever `worker.Config.MaxRetries` says, since nothing reads it.

*Agent and pipeline.* `AckedIsStored`, `StoredIsPrefix`, `SenderIsKept`, `CallsAreBounded`,
`CallsAreForAcceptedMail`, `AckedIsProcessed`.

*Web process and tasks.* `ServicesInOrder`, `RunsAreJustified` (a task succeeds once, plus once per
fault, and never before its transaction commits), `SavedTaskRuns`, `SignalEndsProcess`.

*Accounts and jobs.* `SessionsAreVerified`, `RevokedLinksAreDead`, `PagesPartition`,
`FreshJobIsListed`, `WalksAreExplained`.

*Pages.* `PersonalPagesAreNotShared`, `TemplatesFit`, `ShownOnce`, `RefusalsAreExplained`;
*cache.* `IndexInSync`, `FlushRemovesFresh`.

*Websocket worker.* `DrainedUnlessTimeout`, `ReaderEnds`, `StartReturns`. Which value `Start`
returns is left open: see section 6.

Each is stated in words above its definition, with the lines it is about.

## 5. Fairness

* Worker: weak fairness of the running goroutine, because Go schedules it and everything it
  calls returns (queries take the context, the HTTP client has a timeout of 90 s,
  `cmd/worker/main.go:43`); weak fairness of the signal goroutine's second step and of the
  restart (`restart: unless-stopped` in `docker-compose.yml`); strong fairness of each lookup,
  because the database does not refuse the same query for ever. **None** for `SendReply`:
  `net/smtp.SendMail` has no timeout, so both liveness properties except a worker that hangs there.
* Pipeline: the worker's, nothing of the agent.
* Web process: weak fairness of its start after an end (`restart: unless-stopped`) and of the main
  goroutine, whose every wait is bounded (`main.go:72` gives the drain 10 s). Nothing of handlers,
  the server or signals.
* Tasks: weak fairness, for each message, of what must end: the caller's transaction, the delay,
  the subscriber and the deletion; strong fairness of receiving it, because the runner polls for as
  long as the process lives but the one goroutine it has may be busy with another message, or the
  process down, again and again.
* Websocket worker: weak fairness of goroutines that can go on; a read returns only once the
  connection is closed.
* Accounts, job pages, page rendering, cookies and the cache state no liveness: what happens next
  is up to people and their browsers.

## 6. Findings

1. **Replies without success** (`poller_reply`): comments at `pkg/worker/poller.go:101` and `:106`
   speak of successful webhooks; a 404 or 500 has no error and is replied to.
2. **Task buffers** (`tasks_concurrent`): `Save` puts its buffers back before the bytes are sent
   (`pkg/services/tasks.go:167`).
3. **Flush by tag** (`tag_cache_flush`): a deletion notification that comes late purges the tags of
   the entry that has replaced the deleted one (`pkg/services/cache.go:220`).
4. **Partial pages in the cache** (`pages_partial`): the cache key is the URL, also for a page
   rendered in the HTMX layout (`pkg/services/template_renderer.go:187`).

Three more disagreements are steps of the models, and no property is stated that would hide them:

* **Shutdown leaves a connection open.** "Shutdown shuts the Container down and disconnects all
  connections" (`pkg/services/container.go:73`), but the list of what it closes
  (`WebServer.CloseOrder`) has neither the queue's database nor anything else of the task client.
  `main` does not wait for the runner, so closing it there would take it away from running tasks.
* **A cancelled `Start` may return nil.** `pkg/worker/worker_test.go:340-341` expects
  `context.Canceled`. The reader sees the same cancellation and closes both channels
  (`SendAborts`, `CloseChannels`), and if `Start` looks at its select only then it may take the
  closed `msgChan` and return nil (`SelectClosed`) without waiting for the messages in processing.
* **The mail's flash message.** "An email was sent to you to verify your email address"
  (`pkg/handlers/auth.go:345`) is set by a goroutine, mostly after the response to which it belongs:
  it is lost, or lands in the session of whichever visitor's request has the recycled context
  (`Cookies.LateMsg`, `LateLost`). `ShownOnce` promises that the session it lands in shows it once,
  not that it is the right one.

Other things a reader of the code may want to know, about which no text in the repository says
otherwise:

* The pager's buttons ask for `/?page=N` (`templates/pages/home.gohtml:134`, `:139`), the About
  page, not `/dashboard?page=N`; `Listing` models the pages `Home` answers when it is asked.
* The pager is always told of 20 items (`pkg/handlers/pages.go:167`), so the 21st job is never
  listed; a query that fails shows an empty list (`Listing.FetchFails`).
* A cached About page carries the flash messages and the CSRF token of the visitor it was made for
  (`Cookies.FromCache`): the reader's other tabs can no longer send their forms.
* The browser keeps one CSRF cookie for each directory of URLs. Opening `/` and `/dashboard` at once
  with only the cookie of `/user` draws two tokens, and one tab's forms are refused
  (`mixed` in `Cookies.Send`).
* The test of `StartServer`'s error is inverted (`cmd/web/main.go:54`): a port that is taken goes
  unnoticed, and the server's end during a drain ends the process.
* `main` asks for `os.Interrupt` and `os.Kill`; the latter cannot be caught, and the SIGTERM of
  `docker stop` is not asked for, so a container stopped that way does not drain (`WebServer.Kill`).
* `Web.Shutdown` does not know the `http.Server` that `main` made, so it may return at once with
  handlers still running (`WebServer.Shutdown`, first disjunct).
* A form to edit a job is put to `/jobs/:id`, for which the router has no route.

## 7. Proofs

Eight modules hold the proofs. Each theorem is for every value of the constants that satisfies the
named assumptions of its modules (`JobsAssumption`, `PollerAssumption`, `SmtpAssumption`,
`PipelineAssumption`, `WebProcessAssumption`, `TagCacheAssumption`, `SocketAssumption`,
`AccountsAssumption`, `ListAssumption`, `JarAssumption`); TLC evaluates them in the runs. The argument is the same everywhere: an
inductive invariant `IInv`, a lemma per action or group of actions that it is kept, and a theorem
per property that follows from it. The invariants that the runs check are mostly not inductive by
themselves; what has to be added is the interesting part and is given for each module.

`MessagePollerProofs` proves, for every set of messages and jobs, every batch size and every
number of faults: `TypeOK`, `RepeatsNeedAFault`, `RepliesFollowCalls`, `CallsPrecedeMark`, and
`ImplementsDelivery`. That a call is not repeated within a pass depends on what the pass still has
to do. The inductive invariant is the conjunction of

* `TypeOK`;
* `PassShape`: how `pc`, `cur`, `todo`, `calling` and `result` fit together (a job is called at
  most once in a pass because it leaves `todo` when its call begins and has a result after);
* `CallsArePaid`: the calls of a message are bounded by the faults so far plus the pass that is
  running, and a message that is still unprocessed has spent its allowance on faults;
* `RepliesArePaid`: replies lag behind calls, strictly so for a job whose reply is still to come;
* `SettledAreCalled`: a job with a result was called for the current message, was broken, or was
  cut off by a cancelled context, in which case the save will fail.

`InitIInv` and `StepIInv` show it inductive, one lemma per conjunct with one step per action. The
action properties follow from `IInv` and two lemmas on which steps call (`CallingStep`) and which
mark (`MarkingStep`). The refinement maps the message in hand to the resolved one, its `matched`
to what is owed, and the jobs with a result to those tried. `Lookup` implements `Resolve`;
`WebhookReturns` and `SkipWebhook` implement `Try`; `Save` implements `Finish`; `SaveFails` is
`Finish` when the row was written all the same and `GiveUp` when not; `Crash` is `GiveUp`; adding
and deleting jobs is `ChangeJobs`; everything else stutters.

`TagCacheProofs` proves `TypeOK` and `IndexInSync` of the tagged cache for any goroutines, keys,
tags and number of sets, from `TagCacheAssumption`. `IndexInSync` is inductive with the types and
one more fact, that a goroutine between the two halves of a set has an entry to tag. Each of the
three operations of the index has a lemma (`IndexTagsSync`, `PurgeTagsSync`, `PurgeKeysSync`):
they keep the two maps inverse from any index, whichever step calls them, which is why no
interleaving of sets, flushes and notifications can tear them apart. `FlushTheorem` proves
`FlushRemovesFresh`, from a larger invariant, `FlushInv`: an entry is under the one key it was set
under (`Entries`); the index has the tags of an entry whose key was never touched, and neither a
notification nor a flush is about to take them (`Untouched`); and a flush that owes an entry will
find it by its key or its tags, has it among the keys left to delete, or has lost it to a flush that
has (`Owed`). A replaced key leaves the second of these, which is where `tag_cache_flush` breaks.

`SmtpServerProofs` proves `TypeOK`, `AckedIsStored`, `StoredIsPrefix` and `SenderIsKept`. Its
invariant says of every try of a mail which rows are its own: `Holds(table, origin, t, a)` reads
"the rows of try `t`, in their order, are for the recipients `a`". A transaction that is storing
holds the first `next[c] - 1` of its recipients, one that failed some prefix, an acknowledged mail
all of its receipt (`RowsOK`). `SessionsOK` ties the session's fields to the mail, and `TxnsOK`
tells tries apart: no two connections work for the same one, so an insert adds to one prefix only.
A crash or a lost connection drops the session and leaves the rows, which is what a prefix allows.

`MailPipelineProofs` proves `CallsAreForAcceptedMail` for agent, worker and job pages together. The
invariant follows a recipient from the command to the call: sessions hold only recipients of their
mail that RCPT has to accept (`SessionsOK`, with `LimitsOK` for the count that the limit is compared
with), rows only what sessions held (`RowsOK`), and the worker calls only jobs that a row selects
(`CallsOK`), none of which a later step can undo because rows keep their address and sender.
`WorkerTheorem` proves `Spec => Worker!Spec`: every step of the agent is a stored row or a stutter
to the worker, so what `MessagePollerProofs` proves holds within the pipeline.

`AgentTheorem` is the same for the other side. The worker does write to the agent's table, so what
is proved is that the agent, seen through a table whose `processed` columns are hidden
(`Unmarked`), behaves as `SmtpServer` specifies: `Spec => AgentView!Spec`. `PromiseTheorem` brings
the three theorems of `SmtpServerProofs` back to the table as it is, since none of them looks at
the column.

`BoundTheorem` proves `CallsAreBounded`. The property says it without a sum: the rows of a mail that
triggered a job are at most the tries times the mail's mentions of the job's address, and each has
called at most once plus once per fault. The first half is `CountsOK`, which with `IInv` is
inductive: the recipients a session has collected, and the rows a transaction has stored, are
counted per address and never more than the mail's mentions among the commands sent (`CountOK`);
no two connections work on one try, and every row's try is one that was made (`TriesOK`), so the
bound per transaction is a bound per try (`RowsCounted`). The rows of a mail are then told apart by
their try and their rank within it (`RankDiffers`): an injection into a product of two intervals,
which is the bound (`RowsBounded`). The second half is `RepeatsNeedAFault` of the worker, carried
over by `WorkerTheorem`.

`WebProcessProofs` proves `TypeOK`, `ServicesInOrder` and `RunsAreJustified`, for any number of
savers. `IInv` is `TypeOK` with `WebShape` (where `main` is determines which services are up and
which goroutines run), `MessagesOK` (a task's successes are bounded by the faults so far, plus one
while its row is being or has been deleted; a message whose transaction did not commit was not
received) and `NothingRunsAlone` (no task is in hand without a runner).

`SocketWorkerProofs` proves `TypeOK` and `DrainedUnlessTimeout`. The type says that the WaitGroup
does not go below zero, which holds because it counts at least the goroutines between `Spawn` and
`Done` (`Counted`); a drain that saw zero therefore left none behind, and a `Start` that has
returned (`ReturnsOnce`) spawns no more.

`UserTablesProofs` proves, for `Accounts`, `TypeOK`, `SessionsAreVerified` and `RevokedLinksAreDead` with overlapping requests. A login in progress was decided on an account
that is verified and nothing takes that back (`ArgsOK`, with `ArgsAreRecords` for the shape of a
request in flight), and a token once revoked has no row any more and its id is never issued again
(`RevokedAreGone`).

For `Listing` it proves `WebTypeOK`, `PagesPartition`, `FreshJobIsListed` and `WalksAreExplained`,
for every page size, number of items told and number of jobs. All rest on `Newer(jobs, j)`, how
many rows come before `j`: it is strictly decreasing in `j`, so page `p` holds the jobs whose
`Newer` is between `(p - 1) * PerPage` and `p * PerPage - 1`. `PagesPartition` is then the fact that
a number below `Told` is in exactly one such interval. `FreshJobIsListed` needs that a job
in hand is asked for by one request and not stored by another (`AddsOK`). `WalksAreExplained` is not
inductive: it counts what a reader has missed and met again when the walk ends. `WalkOK` counts as
the walk goes. A job not seen yet is `PassedOver` once it stands before the next page, a job seen
is `Ahead` if it stands on it or after it. A deletion moves every older job up by one, so at most
one is passed over; an insertion moves every older job down, so at most one comes ahead; a page
that failed passes over a pageful; and turning a page changes neither but by what it shows. The
bounds `FewPassedOver` and `FewAgain` are the debts so far, and the property is what they say at
the end.

`WebPagesProofs` proves, for `PageCache`, `TypeOK`, `PersonalPagesAreNotShared` and `TemplatesFit`.
A page in the cache was made for nobody in particular (`CachedOK`), a parsed template has the layout
that every request with its key wants (`TemplatesOK`), because requests with one key want one
layout (`KeysAgree`).

For `Cookies` it proves `PagesTypeOK`, `ShownOnce` and `RefusalsAreExplained`, tab by tab. `JarTypes`
are the types, strong enough to say what a tab in each phase has. A browser that is not `mixed`
knows at most one token per directory of pages, and `TokensAgree` says that they agree: the cookie
that goes first (`Current`), its open pages, the requests it sends and the replies on their way to
it, with `/jobs` either without a cookie or with the one of `/`. While it has none, two requests
could each be given a token; that is why a browser that sends a second one without is mixed, and
why the invariant allows it one such request in flight. A message of an undisturbed browser is in
exactly one place: in the cookie, in the session of the request or in the reply that has just taken
it out, or on the page where it was shown (`MsgsAreSomewhere`), and in none but the cookies,
requests and rendered pages of the browser in whose session it was set (`MsgsAreOwned`). A message
that a goroutine has still to set is in nobody's yet, so `LateMsg` may set it for any of them.

Every safety property of the passing runs is a theorem. Only model-checked is liveness
(`EveryMessageProcessed`, `StopsWhenTold`, `AckedIsProcessed`, `SavedTaskRuns`,
`SignalEndsProcess`, `ReaderEnds`, `StartReturns`), since fairness and ENABLED are beyond the prover.

## 8. Not modelled

Forms and their validation, configuration, and presentation (template functions, redirects, logging,
embedded templates): state of one request, read once, or stateless. Modelled in part: the router
(the order of the middleware, the CSRF check, a `BuildRouter` that fails; not its timeout, after
which a handler goes on as if nothing had happened), the mail client (a mail is delivered, skipped or
lost; how it is composed is output) and the example task (registering its queue). No handler of
the repository saves a task yet: `WebProcess` has handlers that do, as `tasks.go` documents.
Parsing of mails, expansion of payload templates and matching of regular expressions are data: a job
accepts a sender or not, its payload can be built or not. Postgres, otter, goqite, echo, go-smtp and
gorilla's sessions are modelled from how the code uses them. One worker process is modelled, as in
`docker-compose.yml`: two would call every webhook twice.

## 9. Plan

Done, in this order: the worker (the core), the agent, their composition, the proofs about the
worker; the web application's task queue, cache, accounts and pages, and the proofs about the
cache's index; then the web process with its container, job pages and pager, flash messages and
CSRF tokens, failing requests, transactions and delays of tasks, and proofs for the agent, the
pipeline, the web process, the websocket worker, accounts and pages; then proofs for the list of
jobs and its pager, for flash messages and CSRF tokens, for the bound on calls from end to end, and
that the agent, too, keeps its specification within the pipeline.

Next, models:
1. An abstract specification of the tagged cache (one map with tags) that `TagCache` implements
   when notifications are prompt.
2. The router's timeout: a handler that goes on after the visitor was answered.
3. One model of `PageCache` and `Cookies`, so that a partial page in the cache brings its token too.

Next, proofs:
1. The steps behind the liveness properties: what a step of the worker brings closer, as a measure
   on `pc`, `batch` and `todo` that no step of others undoes, so that only the fairness is left to
   the runs.
2. For the tagged cache, that it implements the abstract specification of the first plan above.
3. For tasks, how often a message may be received before the queue gives it up.
