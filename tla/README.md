# FlowApp in TLA+

A verification development for FlowApp, a workflow server in Go: TLA+ modules
translated from its source, TLC configurations that check them on small
instances, and theorems that TLAPS checks for every value of the constants.
`PROJECT.json` ties every definition that models code to the lines it stands
for, every run to its properties, every property to a mutant of the code that
breaks it, and every hazard of the code to the properties that watch it.

    tlc -config MCStore.cfg MCStore       # one run
    tlapm StoreProofs.tla                 # the proofs of one module

## 1. The system

FlowApp reads workflow definitions from text files, makes instances of them and
leads people through their steps. One process; all state in memory, each part
written as JSON after every change; browsers call handlers, a minute ticker and
a file watcher run beside them.

| Component | Code | State | Operations |
|---|---|---|---|
| Workflow engine | `internal/engine/engine.go` | steps of an instance: status, needs, choice, times, token, items, trail | create, advance, answer an ask, redeem a gate, edit a checklist, tick |
| Instance store | `internal/store/store.go` | `instances`, one file each, `sync.RWMutex` | every engine call + save; clone, notes, reorder, archive, delete, full reset, load |
| Definitions | `store.go` (`loadDefinitions`, `watchWorkflows`), `internal/dsl` | `definitions`, the directory | first load, watch, debounce, reload |
| Variables | `engine.ApplyVars`, `handler.createInstance` | placeholders in an instance | create, then substitute |
| Notifications | `internal/notifications` | a file for each user, unread counts | add, mark read/unread/all, reset, rebuild |
| Users | `internal/auth/users.go`, `handler.go`, `cmd/server/main.go` | two maps, `users.json`, the store's copy of the administrators' ids | setup, create, edit, delete, profile, password, reset, refresh |
| Login limiter | `internal/auth/ratelimit.go`, `loginSubmit` | attempts by address | allow, reset, cleanup |
| Sessions, CSRF | `internal/auth/session.go`, `csrf.go`, wrappers in `handler.go` | the secret, in memory and in `data/session-secret`; the browsers keep the rest | log in, set up, show a page, check a form, log out, reset, expire |
| Workflow language | `internal/dsl/parser.go` | the parser's current section and step; the search's stack | parse, detect cycles |
| Mailer | `internal/mailer`, `store.SaveMailConfig`, `SetMailer`, `inject` | `mail.json`, two fields of the store, an access token | save, set, send |
| Logger, templates, permissions | ... | none | print, render, check |

How they interact. A handler checks (session, role, CSRF token, permission) and
then calls the store, which takes its lock, calls the engine, and saves. The
engine fires notifications from goroutines that run after the call returns; they
resolve addressees in the users, deliver through the mailer, and reach
`notifications.Store` under a lock of its own. Every wrapper around a handler
looks the session's user up anew. A change of the users starts a
goroutine that copies the administrators' ids into the instance store. The
watcher takes the store's lock for a whole reload.

What is hard here, and where the properties come from:

* *order of calls*: joins, asks and gates interleave with the ticker, and a
  step may be the target of one ask and need another step (Engine, Instance);
* *memory first, file second*: a failed save keeps the change in memory, a
  crash takes it back, and notifications are already out (Store);
* *look, then act*: handlers and goroutines read under one lock and write under
  another (Users, Notifications, RateLimiter);
* *files that change while they are read* (Definitions);
* *shared slices* between a definition and its instances (Vars);
* *one request, several looks*: account, secret and clock change between the
  wrappers of a request; a reset does its three steps one by one (Sessions);
* *no lock at all*: saves of the mail configuration, the two fields of the
  mailer, the token cache (Mail);
* *what the parser lets pass* and the engine then has to live with (Language);
* *promises that only the ticker keeps* (Instance, Store).

## 2. The modules

| Module | Models | Notes |
|---|---|---|
| `Engine` | engine.go as operators: definition, instance and time in, instance out | `Activate`, `Startable`, `Route`, `CompleteStep`, `Recalc`, `Tick`, ... under the code's names; no variables |
| `Instance` | one instance in a running server | one action for each call of the store; `mail` counts what was fired |
| `Lifecycle` | what an instance promises, without the how | abstract specification; `Instance` implements it (`ImplementsLifecycle`) |
| `EngineProofs` | lemmas about the operators of `Engine` | cited by the next two (section 5) |
| `InstanceProofs`, `StoreProofs` | theorems about `Instance` and `Store` | section 5 |
| `Store` | several instances, files, failed writes, crash and restart | uses `Engine`; observers record what replies told |
| `Notifications` | files, unread counts, delivering goroutines, full reset | an action for each stretch under a lock |
| `Users` | accounts, handlers that look and then act, refresh goroutines | `request[r]` is what a handler has seen |
| `Definitions` | files, watcher, debounce, reload file by file, create and clone | `ReadsFile` is one file of a reload |
| `Vars` | a step's notify list and note, shared and own arrays | one placeholder field stands for all |
| `RateLimiter` | the record of one address, logins under way, cleanup | `kept` is the record without cleanup |
| `Sessions` | cookies, form tokens, the secret, wrappers and the handlers that change what they look at | `request[b]` is how far the request of a browser has come |
| `Mail` | saves of `mail.json`, `SetMailer` word by word, calls and their goroutines, `getToken` | an action for each access that another goroutine can come between |
| `Language` | `Parse` line by line, `DetectCycles` need by need | uses `Engine` for what becomes of an accepted document |
| `NotificationsProofs`, `UsersProofs`, `MailProofs` | theorems about the module each is named for | section 5 |
| `HandlerProofs` | theorems about `Sessions`, `RateLimiter` and `Vars` | section 5 |
| `WorkflowProofs` | theorems about `Language` and `Definitions` | section 5 |
| `MC*` | small instances for TLC | |

Correspondence. A call that holds a lock from its first check to its reply is
one action; the guard is the conjunction of its checks, and a call that the code
refuses changes nothing and is no action, with two exceptions: in `Users` a
refused call has still been under way (`Refused`), and `UpdateInstance` refuses a
priority when it has changed the title (`AnnotateRefused`). `recalc`, `activateReady`, the audit
entry and the save are part of the action that performs them. Code that runs
without a lock is split at each point where another goroutine can get in.

Abstractions, all of them:

* step names are unique and a step is its name, as the application's README
  demands; the parser does not enforce it (`Language` has the repeated names,
  and what `DetectCycles` makes of them);
* `needs` never changes but for the sentinel `__ask_target__`, so an instance
  has the Boolean `sentinel` instead of a copy of `needs`;
* a token is unique, so an instance only says whether a step has one;
* texts, labels, sections, comments and the stamps that no decision reads are
  left out; the calls of the store that change only these (`Annotate`) are kept,
  for their way to disk;
* times are numbers; `schedule` counts from the creation, `due` from the
  activation; the code's `time.Now()` is the same `now` within a call;
* a file is replaced by a rename, so it is never half written, and a crash within
  a call is a failed save followed by a crash. `data/session-secret` alone is
  written in place: a write that fails leaves the old secret or none
  (`Generate`); `mail.json` is modelled write by write;
* a workflow's title does not read like another title with a suffix (`A-1` beside
  two files titled `A`): the code would look for a free name among both;
* a line of a document is its keyword and tokens; quotes, blanks, comments and
  the comma glued to a token are left to the tokenizer, which is not modelled;
* a signature is the key it was made with; a cookie or token that has expired
  carries no key, and is refused like one that no secret has signed;
* a look at an account (`GetByID`, `Active`, the role) is one step, although the
  fields are read through a pointer after the lock is given back; accounts are
  saved with every change in `Sessions`, and saves that fail are in `Users`;
* a page with a form is shown to who is logged in, its answer takes its place,
  and a browser has one cookie, one form and one request at a time;
* a mail configuration is the number of its save and whether a mailer can be
  made of it (`graph`, or a type that is empty or unknown). Messages, addresses,
  SMTP and the test mail keep no state;
* a data race is a choice: an interface that is written the first time may be
  seen with one of its words (`Half`, on which a send panics and, in a goroutine,
  ends the process), a string may be seen with the pointer of one and the length
  of another (`Mixed`);
* `activateReady` loops until nothing changes; an activated step is not
  terminal and satisfies nobody's needs, so one pass is enough.

Definitions marked "Mutant" are plausible bugs of the definition that follows
them. They are used by no specification.

## 3. The runs

### Passing

| Run | States | Question |
|---|---|---|
| `MCInstance` | 17,030 | Does every order of calls, ticks and time keep an instance right, and does it implement the life cycle? |
| `MCStore` | 296,601 | Is what was confirmed on disk, and does a scheduled step start, whatever fails and whenever the process dies? |
| `MCNotifications` | 25,718 | Does the badge show the number of unread notifications? |
| `MCUsers` | 916,699 | Do both maps, the file and the copy of the administrators agree? |
| `MCDefinitions` | 59,360 | Are edits of the files always picked up, and names kept apart? |
| `MCVars` | 2,565 | Are placeholders replaced everywhere, whatever is reloaded? |
| `MCRateLimiter` | 163,721 | Are limit and lockout kept, and is cleanup without effect? |
| `MCLanguage` | 2,325,707 | Is a document read as written, are exactly the cycles found, and do accepted ones come to an end? |
| `MCSessions` | 4,438,714 | Are handlers run for users of good standing only, and sessions kept and ended as promised? |
| `MCMail` | 4,776,325 | Is the configuration on disk the one at work, are mails sent with it, and how old can a token get? |

What they show:

* **Instance.** A step has begun only if all it needs is over and its sentinel is
  gone (`NeedsMet`); a target that needs nothing begins only when chosen
  (`RoutedBeforeBegun`); where the targets of an ask are its own, exactly the
  others are skipped (`XorSplit`). The instance is done exactly when every step is over
  (`DoneIffAllTerminal`), each step was completed by the one right call
  (`CompletedOnce`),
  notifications go out once (`NotifiedOnce`), no startable step is left behind
  (`NoneLeftBehind`), and none starts before its time (`NotBeforeSchedule`). In
  definitions without an ask among the targets of an ask, no group of unfinished
  steps of an instance that nobody has archived waits only for itself: one of them
  has a call that is enabled now, or starts with the scheduler, or is a gate whose
  due date has passed and whose link is refused for ever (`NeverStuck`). So a
  lapsed gate holds up what waits for it, and nothing else is ever stuck. With
  ticker and clock running, scheduled steps start and overdue ones are notified of
  (`ScheduledStepStarts`, `OverdueStepNotified`).
  `ImplementsLifecycle` says that steps finish one at a time, that nothing leaves
  a final phase and that the instance closes with its last step.
* **Store.** `AckedIsDurable`: facts told by a successful reply are in the file
  and stay there. `RedeemedOnce`: one confirmation for each link, across crashes.
  `DeletedIsFinal`: what a deletion or a reset has removed does not come back.
  `LinksLead`: without failed saves, a link that was sent has an open or decided
  gate behind it. `ScheduleSurvivesCrash`: again and again there is a moment at
  which no step that is due on disk is left pending.
* **Notifications.** `CountIsExact` and `KeptInOrder`, where no fault and no add
  in the gap of a reset occurs: these exceptions are in the formulas, and each
  of them is a real way to a wrong count (section 4).
* **Users.** `EmailsAgree`, `GoneForGood`; `AdminRemains` as long as requests do
  not overlap, through failed saves and crashes; `AdminsGetCopies` once all
  refreshes are over, however many of them there were at a time, unless a save
  failed or a refresh had read the accounts before they changed and wrote them
  after (`outrun`).
* **Definitions.** `SuffixesInOrder` whatever is edited during a reload,
  `ChangeNotLost`: a difference between files and definitions has an event, a
  timer or a reload on its way; hence `HotReloaded`.
* **Vars.** `NoPlaceholderLeft`, through reloads and crashes.
* **RateLimiter.** Fewer than twice the limit in any period of the window's
  length (`TwiceInWindow`), a lockout is served unless a login from before it
  succeeds (`LockoutServed`), and cleanup changes no answer (`CleanupUnnoticed`).
* **Language.** `ParsedAsWritten` compares what the parser has built after every
  line with what the document says as a whole: which lines belong to which step,
  which of several counts, and which line is the first out of its place.
  `CyclesFound`: the search refuses a document if and only if some steps wait for
  each other, in every order in which Go may go through its map.
  `AcceptedFinishes`: an instance of an accepted document never comes to a dead
  end, by the engine's own operators. Documents that `DetectCycles` has no eye for
  are excepted (`Sensible`, section 4).
* **Sessions.** `InGoodStanding`: a handler runs only for a user who had the right
  it needs since the request came, on a form of his own, although accounts and
  secret may change between the looks. `SessionsLast`: a good session and a good
  form stay good but for expiry, the end of the account, and three steps that the
  formula names: the rotation of the secret, a restart when the secret in memory
  was never on disk, and a restart that cannot read or decode the secret's file and
  writes another one. `ResetEndsSessions`: after a full reset, whatever step of it
  failed and whenever the process died, no session of before is good again, if
  `users.json` could be removed or the secret on disk was the one in use.
* **Mail.** `SavedIsLive`: `mail.json` is whole and its mailer at work whenever no
  save is under way; `MailedByCurrent`: mails go out by the last configuration
  that was acknowledged before them, or a later one. Both for saves that do not
  overlap. `TokenIsFresh`: a token is used before the time it is cached for and three
  times the slowest call of `Send` have passed since it was issued, through the races on the
  cache and however slow the calls are; a mail goes out without a token only if the
  service gave none, and with what is no token only if a call touched the token
  while another wrote it. The bound is exact: TLC refutes any smaller one. It is
  below the hour for which a token is good as long as no call takes more than 100
  seconds, and the code sets no limit to a call (section 4).

### Bounds, and why they are enough

* `MCInstance`: nine definitions of four steps. Four is the least that has a
  fork, two branches and a join with one of them scheduled, or two asks with
  shared targets; the nine are the shapes of the shipped workflows (`Shipped`)
  and the shapes the language admits beside them (`Unusual`: a misspelt name,
  shared targets, nested asks, a target that needs another step). `MaxTime` 3
  passes every schedule and due date and leaves one more unit for lateness. One
  item: required items of one step are independent.
* `MCStore`: two instances (the partial failures of a scheduler round and of a
  reorder need two), two definitions of two steps, one fault, one crash, two
  kinds of notes (a title, which a refused call may change too, and a position). One
  fault suffices to part memory from disk; the later save that brings them
  together again, and the crash before it, are both there. Without symmetry, for
  the sake of the liveness property.
* `MCNotifications`: two users, two notifications, one each of faults, resets
  and crashes: enough for an add on either side of every removal; a read and a write
  that fail in one call need two faults, and are covered by the proofs only.
* `MCUsers`: three accounts, two addresses (an address can be freed and taken
  again), two requests, two refresh goroutines (a third change waits while both
  are under way), one fault, one crash.
* `MCDefinitions`: two files, two titles, two instances, two edits, one
  unreadable file: a reload that is overtaken by an edit, and an edit after it.
* `MCVars`: three instances over two loads: two that share and one that does not.
* `MCRateLimiter`: limit 2, window 3, lockout 5, clock to 12, eight attempts:
  three windows and a lockout, and both boundaries of each.
* `MCLanguage`: seven lines are a section and three steps with a directive each:
  the longest cycle, a fork, a join, an ask with two targets and a need beside it
  fit in. There is one keyword of each kind beside them (a header, a text, a list,
  an item, a flag), and a line refused for each reason; the other keywords of a
  kind differ in the field they fill.
* `MCSessions`: an administrator, a writer and an account to be set up after a
  reset; two browsers, so that one request is overtaken by the other or by its
  own; three secrets (the first, a rotated one, one after a restart), one fault,
  one change of an account, two restarts (one to lose what was not on disk, one
  after what was logged in since).
* `MCMail`: two saves and two mails are enough for each pair that can meet on
  the file, the fields and the cache, with one fault and one restart. A token is cached
  for one unit and the clock goes to 3: a call takes any time, `slowest` observes how
  long the slowest one took, and 3 is the age at which `TokenIsFresh` just holds for calls
  that take one. Once two saves have overlapped the clock stands still (`ClockStops`):
  the first two properties say nothing from then on, and the cache has nothing to do
  with saves.

Deadlock is checked except where the system really may come to rest: in
`MCUsers` (no active account is left to make a request, or all ids are given),
`MCDefinitions` (nobody edits any more), the two `MCVars` runs (all instances
are made), `MCLanguage` (the document is accepted or refused) and `MCSessions`
(nobody can log in).

### Fairness

`SchedulerTick` and `TimePasses` (Instance, Store): the ticker goroutine is
started in `New` and never returns, and the clock goes on to its bound.
`Restart` (Store): a supervisor starts a dead process again; crashes are
bounded. `WatcherStarts`, `EventArrives`, `ReloadBegins \/ ListingFails`,
`ReadsFile \/ ReloadFails`, `ReloadEnds` (Definitions): the watcher goroutine, its
timer and a reload that has begun. All of them weak; nothing a user does is fair.

## 4. Where the code departs from what is said of it

Two runs end in a counterexample, on purpose:

| Run | Property | What happens |
|---|---|---|
| `MCNestedAsk` | `NeverDeadEnd` | an ask that is a target of another ask is skipped; its own targets keep the sentinel and the instance never ends |
| `MCVarsShared` | `SubstitutedThroughout` | `ApplyVars` writes into the definition's slice; the second instance notifies whom the first one named |

Others were met while modelling. They have no run of their own; each is an
exception written into a passing property, or a hazard in `PROJECT.json`:

* a failed save of a step followed by a crash leaves a sent link without a gate
  (`LinksLead` asks for `faults = 0`);
* `FullReset` ignores files it cannot remove, and they are back after a restart
  (`DeletedIsFinal` counts only those removed);
* `MarkRead` counts before it saves, a restart counts nothing for a file that it
  cannot read, and an add in the gap of a reset is not counted (`overtaken` in
  `CountIsExact`);
* `load` takes any error for an empty list, and an add then replaces the file
  (notifications.go:164 against notifications.go:68, "appends"; `faults` in
  `KeptInOrder`);
* a refresh that has read the users before a change may write its old copy of
  the administrators' ids after the change's own refresh, and a failed save
  starts none (`outrun` and `faults` in `AdminsGetCopies`);
* two administrators may delete each other (`overlapped` in `AdminRemains`),
  and two setup forms may both make an administrator;
* a file that is edited between the first load and the start of the watcher is
  not loaded (`missed` in `HotReloaded`);
* the counter of the limiter is a fixed window, not the "rolling window" of
  ratelimit.go:18 (`TwiceInWindow` instead of once), and a success lifts a
  lockout (`lifted` in `LockoutServed`);
* `profileSave` writes back the role, address and state that it read before an
  administrator changed them (handler.go:1637);
* suffixes are given anew at every load, and a clone looks its definition up by
  name: after a reload it may be made from another file (store.go:358 against
  store.go:349, "using the same workflow definition");
* a full reset rotates the secret in memory and removes the file, and the new one
  is never written: who logs in after it is logged out by the next restart,
  although README.md:91 has sessions survive restarts (`SecretMissed` in
  `SessionsLast`);
* a secret that cannot be written is not reported, and one that cannot be read or
  decoded is replaced by another without a word (`SecretMissed` in `SessionsLast`);
* `UpdateInstance` keeps the title of a call that it refuses for its priority, in
  memory until the next save (`AnnotateRefused`);
* when the directory of the definitions cannot be listed, a reload leaves none
  (`ListingFails`);
* the token service may answer with neither a token nor an error: `getToken` returns
  the empty string without an error and the mail is tried with it (`blank`);
* the "session-bound" form tokens of README.md:317 are bound to the user, not to
  the session: after a new log-in of the same user an old page is still good;
* `requireWrite` and `requireAdmin` look the user up again and do not expect
  nobody; the request panics, and net/http ends it (`Looks`);
* README.md:169 marks items `optional` and README.md:192 has them required by
  default; the parser takes `item` for optional, `item!` for required, and the
  word for a part of the text. A `# ...` after a directive is text, too;
* `DetectCycles` looks at needs only. Names that are repeated or given by nobody, a
  step that waits for an answer that waits for the step, and an ask that another
  ask may skip pass it and never end (`Sensible` in `AcceptedFinishes`);
  `findStepByName` returns the last step of a name, not "the first"
  (engine.go:839);
* two saves of the mail configuration share `mail.json.tmp`: one may rename the
  file that the other is writing, and `mail.json` is torn or empty (`overlapped` in
  `SavedIsLive`). A type that is empty or unknown is saved and the old mailer
  goes on until the restart;
* `getToken` takes no lock and sets no timeout: the 55 minutes of graph.go:88 begin
  when the answer has arrived, and with calls that are slow enough a token is used when
  it is over the hour of graph.go:59 (`slowest` in `TokenIsFresh`);
* the overdue notice goes out before its mark is saved, and again after a failed
  save and a restart;
* asks and gates do not look at required items (engine.go:50); a step marked
  `ends` does not end the workflow (engine.go:113); a gate past its due date
  stays a gate that no link opens (`Lapsed` in `NeverStuck`); a target that needs
  another step starts without the answer; archived instances go on ticking,
  although nobody can advance them.

## 5. The proofs

TLC checks the instances of section 3; the theorems hold for every set of steps,
definitions, ids, users and requests, and for every bound. Each of the 35 is
`Spec => []P` for an invariant, or `Spec => A` for an action property or the
refinement, that a run checks.

What is assumed of the constants:

| Module | Assumption | Why |
|---|---|---|
| `Engine`, `Instance` | `NoStep` is no step; there are steps; definitions are well typed, and what they require on a list is on it; `MaxTime` is a number | an instance without steps is never done, as `recalc` runs when a step completes. Nothing about the shape of a definition: it may be cyclic or misspelt |
| `Store` | the same, and finitely many ids | failed writes are counted for each id |
| `RateLimiter` | positive limit and window, the window shorter than the lockout | 5 in 15 minutes, 30 minutes locked (ratelimit.go:30) |
| `Mail` | a token is cached for some time; the bounds are numbers | 55 minutes (graph.go:88). Nothing is assumed about how long a call takes |
| `Users`, `Sessions`, `Notifications` | the bounds are numbers, the first users have a standing | |
| `Vars` | the placeholder is no value that is entered; the bounds are numbers | who enters `{{x}}` for `x` has the placeholder back: the code has nothing to replace it with |
| `Language` | a line is a keyword and a sequence of tokens | nothing else about the lines: names may be repeated, misspelt, joined of several tokens, or the sentinel's |
| `Definitions` | finitely many files, numbered in the order of the directory; `NoWorkflow` is no title; the bounds are numbers | `os.ReadDir` sorts by name |

### Engine and instance

`EngineProofs` has, for each operator of the engine, what it returns (an instance)
and how it may change one. The latter is the preorder `Moves`: what is over stays
as it is, a sentinel does not come back, schedules are kept, and a step that
begins has its needs satisfied in the later instance. `Moves` is transitive, so
calls that chain operators move an instance, too.

`InstanceProofs` reduces a step to "time passes, or the instance becomes what one
of the calls makes of it" (`NextIsCall`). Then, in this order:

* `TypeCorrect`; `JoinWaitsForAll` (`NeedsMet`): satisfied needs stay satisfied,
  because terminal steps stay terminal; `NeverBeforeSchedule`.
* `DoneWhenAllTerminal`, `CompletedByOneCall`, `EachMailOnce`,
  `OnlyScheduledWait`. None is inductive alone. `Inv` adds how each step came to
  its status: an active step waits for the call that its definition asks for
  (`ActiveAsDefined`), a sentinel holds a target back until it is chosen
  (`SentinelHeld`), a skipped step was passed over by a completed ask
  (`SkippedByAsk`), an answered ask left none of its targets pending
  (`AskSettled`), and what needed the step it passed over is skipped, too
  (`LeftOut`).
* `TargetsAwaitRouting` and `SplitExcludes`, from these. The second one
  is stated for definitions that route to the targets from one ask only,
  as other definitions may choose a target that another ask passed over.
* `NoDeadEnd`: in a definition with a rank along needs and asks, take a step of least
  rank in a group that waits only for itself; that there is one is well-founded
  induction over the numbers. It waits for nothing in the group, so for nothing at
  all: if it is pending its needs are satisfied, if it is active the call that its
  definition asks for (`ActiveAsDefined`) is enabled, or its link has lapsed.
* `RefinesLifecycle`: `LifecycleInit` and `LifecycleStep` map the first states and
  each call and tick to a step of `Lifecycle` or to a stutter. Completions are
  the long case: one step is finished, the passed-over ones are dropped, and
  others open, which the abstract module has as one step.

### Store

`Effect` says what a step may do to each id: nothing (`Kept`), a new entry in
memory, on disk as well unless the write fails (`Written`), memory is changed where
no fact is (`Noted`: a title of a refused call), memory only forgets it (`Dropped`), or the file is read (`ReadBack`). Each action is shown to have
that effect, with `Moves` for those that call the engine, and the invariant is
shown once, for any step with that effect. `AckedIsDurable` speaks of the disk;
it is kept only because memory, which the next save writes over the disk, has
everything that was acknowledged (`AckedInMemory`). `RedeemedOnce` needs
that a confirmed gate is completed in both (`RedeemedCompleted`), and `LinksLead`
that both have the same instance until a write fails (`InStep`, `Alike`).

### Notifications

`Counted`: while a reset is under way, files that it will not remove are empty
already and the counts of the others are right. With it `CountsAreExact` is a
case for each stretch under the lock; the counting itself is a set of
lemmas on `Unread` of a list that is appended to, marked or emptied.
`NotificationsStay` shows that every step continues each list (`Keeps`).

### Users

`Stored` has the second map as a function of the first, and one owner for each
address, in memory and in the file; each call of the user store is a `Change` to
accounts that fit, saved or not. `Departed`: what is gone was given and is absent
in both. `OneByOne`: what a request has seen is still so, as long as none
overlapped; with it, whoever asks is an administrator still when he
removes or writes another account, which gives `SomebodyAdministers`. `CopyKept`
is the invariant behind `CopiesGoToAdmins`: what a refresh has read is what there
is, and a copy that is old has a refresh on its way.

### Limiter

`Alike` relates the record to the one that is never cleaned up: they differ
only when window and lockout are past in both. `CleanupNeverNoticed` follows.
`AttemptsAreLimited` needs to know where the counted window began among the
attempts let in (`WindowsCounted`), and that attempts of different windows are
far apart (`WindowsApart`); the attempts of a period then lie within less than
twice the limit of consecutive numbers. The first of them exists by well-founded
induction, the rest is arithmetic of intervals.

### Sessions

`Admitted`: since a request was let pass, its user has had no right that it does not
know of, and when the handler runs the form is one of that user. `KeysInOrder`:
secrets grow, and a start finds the one in memory unless it was never saved.
`EndedForGood`: a session ends with its account, also in the file, or with its
secret. `GoodSessionsLast` needs `KeysInOrder`: the secret changes at
a rotation only, and a start finds the same one if it was saved.

### Mail

`OneSave`: a save that is alone finds the temporary file and the fields of the
store as it left them. `AckedAtWork`: the acknowledged configuration, or a later
one, is at work and was when a call read the fields. `TokensFresh` relates
five times, namely when a call began, when its token was issued, until when it
is cached, the clock, and how long the slowest call took (`slowest`). Two calls of
`getToken` may store each other's time with the other's token, so the bound is two
answers wide, and the send is the third.

### Language

`SearchInv` is the invariant of the depth-first search. The stack is a path of needs
without repetition (`StackIsPath`); of a name under visit, the needs that were passed
are left, or the one above it (`PassedAreLeft`); what was left needs only what was left
(`LeftIsClosed`), and no set of names that were left is a circle (`LeftIsAcyclic`).
A need that is under visit closes a circle on the stack (`CircleOnStack`), so a
document that is refused has one. When nothing is under visit any more all names are
left, so an accepted one has none. The search never sees where in the map it began,
and no order is assumed. Needs for the sentinel's name count for nothing, as in the code.

`ReadAsWritten` compares the parser, which goes through a document once, with what the
document says as a whole. That the parser has what is written is not inductive: a line
goes into the step that is current, and it must be shown that this is the step whose
body has not ended (`StillOpen`). With that in the invariant (`Written`) the proof is
about a document with one line more (`Longer`): what is picked grows by that line or
not at all (`PickedNext`, `LatestNext`), every step says what it said but the open one
(`StepNext`), which changes as `Directed` says (`StepGrows`), and a line is refused if
and only if it is out of its place in the longer document (`RefusedIfMisplaced`), which
leaves the lines before it where they are (`WellFormedStays`).

### Definitions

`Loaded`, what the files say as a whole, is a recursive function on sets of files. Its
equation is established first: `LoadsNext` extends the functions that obey the
equation on the files below `n`, and by induction on `n`, in the form that a set of
numbers has a least member, there is one for all files (`LoadedIs`). `FreeSuffix` shows by
counting that a title always has a suffix left, and `RegisterKeeps` that registering
the next file keeps the suffixes in the order of the files, without a gap.
`SuffixesStayInOrder` needs that a reload reads in that order (`ReadInOrder`).
`ChangesNotLost` needs what a reload that nothing disturbed has got so far: exactly what
the files it has read say (`ReadUndisturbed`).

### Variables

`PlaceholdersReplaced` is inductive with the types and the fact that values are asked
only for instances that are there (`AskedIsThere`). The point is the shared array: a
substitution may fill another instance's list, and never puts a placeholder back; a
failed save leaves a file from before, and `SavedAsShown` has what a good one writes.

### What stays model-checked

* *Liveness* is out of the prover's reach: `ScheduledStepStarts`,
  `OverdueStepNotified`, `ScheduleSurvivesCrash`, `HotReloaded`.
* `AcceptedFinishes` of `Language` follows the engine through all instances that calls
  lead to: a recursive function over sets of instances.

## 6. Not modelled

* *Tokenizer*: quotes and blanks; `Language` begins with its tokens.
* *Permissions and pages*: who may see or complete what, and rendering. The
  wrappers, and the handlers that look and then act on users, logins, sessions and
  new instances, are in `Sessions`, `Users`, `RateLimiter` and `Vars`.
* *Mailer*: SMTP, the making of messages and the test mail; they keep no state.
* *Passwords*: `Authenticates` takes the right one for granted.
* *Logger, templates, builder*: output only.

## 7. Plan

Done: engine and instance with abstract life cycle; store; notifications; users;
definitions; variables; limiter; language; sessions; mail; the theorems of
section 5.

Next, in this order:

1. *Permissions*: who may start, see and complete, across an edit of the user
   between the page and the call.
2. *Composition*: `Store` with `Notifications` across a full reset.
