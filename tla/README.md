# Verification of atlassian-cli

TLA+ models of `atl-jira`, `atl-conf` and `atl-bb`, model-checked with TLC on
small instances and, where it says so below, proved with TLAPS for every value
of the constants. Every definition is translated from the Go source;
`PROJECT.json` maps it to the lines it stands for.

    tlc -config Commands.cfg MCCommands.tla      # one run
    tlapm CommandsProofs.tla                     # one module of proofs

Contents: 1 the system, 2 what makes each part correct, 3 the modules, 4 the
runs and their bounds, 5 fairness, 6 the proofs, 7 where documents and code
disagree, 8 what is assumed and what is left out, 9 the plan.

## 1. The system

Three binaries share everything but their command trees. A run expands aliases,
finds its command, resolves a site profile, obtains a credential, sends one or
more signed requests and renders the answer; it exits with a code that
classifies any error. There is no daemon: what outlives a run are two JSON
documents and the OS keychain, and what overlaps are runs of the binaries, each
a process of its own.

| Component | State | Operations | What is hard |
|---|---|---|---|
| `internal/cli/oauth_provider.go` | the refresh lock file; the bundle of the site | the credential provider, `acquireRefreshLock` | concurrent runs, a crash between rotation and save, timeouts racing slow holders |
| `internal/oauth` | none (the endpoint's is remote) | `Exchange`, `Refresh`, `AccessibleResources`, `Expired` | answers lost after they took effect, omitted fields |
| the callback server of `auth login` | the port on two loopback families, one result channel | `listenLoopback`, `oauthCallbackHandler`, `runOAuthLogin`, `resolveCloudID` | handlers next to the main goroutine, tabs of other logins, users and services that never answer |
| `internal/secrets` | keychain entries, `credentials.json` | `Save`, `Get`, `Has`, `Set`, `Delete` | read-modify-write of one document by several runs, fallback between backends |
| `internal/config` | `config.json` | `Load`, `Save` | whole-document read-modify-write without a lock |
| `internal/cli/auth.go`, `alias.go` | those two documents and the keychain | `auth login`, `logout`, `default`, `status`; `alias set`, `delete` | several documents changed one after the other; a failure in between |
| `internal/cli` (`root`, `alias`, `extension`) | none | alias expansion, dispatch, the extension fallback, exit codes | aliases and `PATH` that change during the run, cycles, a child's failure |
| `internal/cli` (`api`, `client`), `internal/httpclient`, `auth`, `apperr` | none | target resolution, signing, status classification | where a credential may travel; timeout against refusal |
| `internal/restutil` and the product clients | none (cursor of a loop) | `FollowAll`; offset, token and link cursors; the ancestor walk | off-by-one at the last page, the page cap, lists that change meanwhile |
| `internal/confcmd`, `jiracmd`, `bbcmd` | none | commands of one or several requests | names looked up first, read-edit-write of versioned content, writes whose answer is lost |
| `internal/output` | none | `Render` | a projection that does not fit, after the write is made |
| `internal/resolve`, `git`, `browser` | none | parsing references and remotes, one external command | precedence of what was typed, paths in which a keyword occurs twice |

Shared state is the only interaction between runs: the lock file, `config.json`,
`credentials.json`, the keychain and the remote services. Within a run everything
is sequential, apart from the callback server of `auth login`.

## 2. What makes each part correct

| Component | Correct when |
|---|---|
| OAuth refresh | the rotating refresh token is never spent twice nor lost; a user is told to log in again only when the grant really is gone; a crashed run's lock file neither blocks others nor lets two in |
| Login, logout, default, aliases | a profile finds its own secret, a stored secret has a profile, the default site exists; each command is one edit of `config.json` or none |
| OAuth login | only a code of the run's own request is exchanged, once; the browser has its page; the grant stored is of the site meant; a login ends |
| Stored credentials as a whole | what a login, a logout and the refreshes of product runs do to one site's secret destroys nothing of another's; a run signs with the token of the site it addresses; a removed secret does not return |
| Repository targets | a command never acts on another repository or workspace than the one typed; inference follows the documented order |
| References | browsing shows what was referred to |
| Dispatch | what is quoted stays one word; what is typed arrives; an extension on `PATH` is found; each failure is reported once, with a code of its own; an alias that cannot be expanded is never stored |
| Commands | the exit code tells the truth about the write; bad input is refused unsent; a command acts on what its name stood for; the credential stays with the site |
| `--all` | nothing that was there all along is missed, nothing repeated; the cap is honest; the loop ends |
| Ancestors | the chain is whole and in order; a loop in the service's answers fails instead of being listed |
| Content edits | an edit changes what it names and nothing else, at one moment; its report is true; no text is cleared unasked |

Each is threatened by the hazards listed, with the line where they bite, in
`PROJECT.json`; every property below is aimed at some of them.

## 3. The modules

Every module states its own abstraction in its head comment. A definition whose
name ends in `Bug` is a wrong variant of the one below it: each property is
checked to fail once such a variant takes the right one's place.

**OAuthRefresh** (`oauth_provider.go`, `oauth.go`, the two stores of
`secrets.go`). A process per run; `pc` is the place in `oauthCredentialProvider`
and `acquireRefreshLock`, `bundle`, `locked`, `staleIn`, `waited` and `reclaimed`
are the locals of the same purpose. Each file-system, keychain and network step
is an action: `CreateLock`, `FindLock`, `Inspect`, `ReclaimLock`, `FallAsleep`,
`WakeUp`, `GiveUp`, `ReuseRefreshed`, `SendRefresh`, `ReceivePair`,
`SaveKeyring`, `LoadFile`, `WriteFile`, `Release`; those that can fail have an
action for it (`LockFails`, `SaveFails`, ...), among them the two removals of the
lock file whose error the code ignores, `ReclaimFails` and `ReleaseFails`.
`leftover` remembers that a run ended and its lock file stayed, by a crash or by
such a removal. `Grant` and `Reject` are the token endpoint, which rotates the refresh token; `Crash`, `Lapse` and `Tick` are
the environment. Time is an age or a countdown that advances only while every
run waits. `stored` holds every site's bundle; sites of `FileSite` share one
document, so a write of one rewrites the others from `snap`.

**AuthStore** (`auth.go`, `alias.go`, `config.go`, `secrets.go`) and **SiteRegistry**,
what it implements. A process per command; `config` is `config.json`, `vault` the
keychain and `credentials.json`, `cfg` and `doc` a command's copies of the two
documents. A command goes through `Save` (keychain, else file), `Load`, the edit,
`Save` and the clean-up of a superseded secret, each read and each write a step;
`Stops` is a failed step or a killed process. SiteRegistry says the same of
`config.json` alone: one whole edit per command.

**Credentials** (`client.go`, `api.go`, `oauth_provider.go`, `secrets.go`), which
composes AuthStore (`Auth == INSTANCE AuthStore`) with product runs over the same
keychain and `credentials.json`. A run reads its profile (`StartRun`), then, for
each request, its secret (`Get`), and if that is a pair about to lapse takes the
lock (`Acquire`) or goes on without it (`Bypass`), reads again, refreshes and
writes back (`Reread`, `Refreshed`, `SaveKeyring`, `LoadFile`, `WriteFile`). What
OAuthRefresh tells in detail, the lock file and its timeouts, is coarse here:
`Bypass` is free to happen whenever a run wants the lock, and stands for the
45 seconds that are over, a file that cannot be created and a holder taken for a
crashed one; `unlocked` holds the runs that do so. `origin` remembers which login
a pair goes back to; `met` and `crossed` note which runs and sites an auth
command, or a refresh without the lock, got in the way of, since nothing in the
code prevents that.

**OAuthLogin** (`runOAuthLogin` and what it calls). A run per login; `pc` is the
place of its main goroutine up to AuthStore's first step, `chan` and `once` are
`resultCh` and the handler's `sync.Once`, `due` is the deadline of the context.
`visit` is the list of callbacks the browser makes, each with a handler of its own
(`Connect`, `ShowPage`, `Signal`); `holder` says who listens on which family.
`Consent`, `Repeat`, `Miss` and `OtherProgram` are the user, the browser and the
rest of the machine.

**FollowLoop** (`restutil.go`): the cap, the page counter and the outcome that the
loops behind `--all` have in common; the next two modules extend it.

**Pagination** (`FollowAll` and the `-All` methods). `cursor`, `page` and `got`
are the loop's variables; the four styles are the ways in which callers find the
next cursor: an offset with a total, the same with `isLast`, a token or link that
stands for the last item, and a link that carries an offset or the number of a
page. Only the service knows which of the last two its links are. `Answer` and `Edit` are the service and its other users; a service
with `lost` hands out any cursor at all.

**AncestorWalk** (`GetPageAncestorsAll`). `above` is the tree, as the chain above
each content; `type` its types; `id`, `kind`, `items`, `seen` and `page` are the
walk's variables, `batch` the answer at hand. `AnswerAbove` is the service, `Move`
another user. Its names differ from those of Pagination (`WalkNext`, `walkVars`), so
that one module can hold the proofs about both loops.

**ContentEdit** (`runContentEdit` and its callers) and **SharedContent**, what it
implements. A process per edit; `get`, `getADF` and `put` are the requests under
way. The service holds the content and takes an update of the next version only
(`Accept`), possibly long after the run gave up; `Others`, `Delete` and `Restore`
are other users. SharedContent applies each edit to the content as it is then; whether the content
is in the trash may come from what the edit looked at, `cur` of its run.

**Apperr** (`apperr/error.go`): the categories and their exit codes, which Dispatch
and Commands share.

**Dispatch** (`cli.Run`, `alias.go`, `extension.go`). One run from `os.Args` to its
exit code: `Load`, `Replace`, `Malformed` and `Settle` are `expandAliases`;
`Help`, `Command`, `ExecCommand` and `Fallback` are what cobra makes of the
arguments; `RunExtension` is the second look at `PATH` and the child. Meanwhile
`Outside` lets another run store or delete aliases, the user edit the file, and
extensions come and go. Cobra is external: a command line is a sequence of words,
flags are words of their own, and an unknown word is complained of where cobra
does, also as an argument of a command that takes none.

**CommandLine** (`splitCommandLine`): `Scan` is one round of the loop over the
characters, from a record of the loop's variables to the next; `Loop` is all of
them, a function of the number of characters read. A module of operators, as are
the next three. **AliasInput** extends it beside Dispatch and says in which state an
expansion is split.

**RepoTarget** (`resolveRepoTarget`, `resolveWorkspace`, `git.go`): from argument,
flags and checkout to the target, or none. **References** (`resolve/*.go`,
`browse.go`): from what was typed, cut into words, to the resource, and from that
to the canonical URL. **CommandInput** extends both beside Commands: a run of
`atl-bb` at its local checks is where a target is chosen, and a run of `browse` is
where a reference is resolved.

**Target** (`httpclient.APIBase`, `ResolveURL`, `allowedOrigins`, `auth.Validate`):
operators from a profile and a reference to the origin a request goes to, or the
category it is refused with.

**Commands** (`jiracmd`, `confcmd`, `bbcmd`, `atl-* api`, `SiteClient`,
`httpclient.do`, `output.Render`). One run of any product command, told by its
shape: what its local checks can fail with, the name it looks up (an account, a
transition, a space, a build, a branch, the link of an attachment), whether it
reads or writes, and how it renders. `Catalogue` lists the shapes of all
commands, one operator per command file. The run goes through `Check`,
`BuildClient`, `LookUp` and `LookedUp`, `Request`, one of `Served`, `Refused`,
`Moved` and `Silence`, and `Render`; `Apply` is the service carrying out the
write, in time or after the run has given up, and `Others` changes what the name
stands for. Several requests of one lookup (the pages searched for a build
number) count as one.

`MC…` modules give the constants small values; `…Proofs` modules hold the proofs.

## 4. The runs

All deadlock checks are off because every module describes runs that end.

| Run | Shows | Bounds, and why they are enough |
|---|---|---|
| `oauth_faults` | single flight under the lock; the grant is kept; reports are honest; stores only advance | two slots, three runs, two sites in one file, a crash, any I/O failure, the ignored ones of removing the lock file too. Two runs at a time make every race over one lock file; the third run finds what the first two left; two sites are what one rewrite of the document can mix up |
| `oauth_live` | every run ends, whatever lock file is left | the same with one site, under `FairSpec` |
| `auth_edits` | profiles and secrets match; `config.json` is edited as SiteRegistry says; the default site exists | four commands, one after another or two at a time, two sites, one alias, two failures. What holds without overlap only says so: its guard is `overlapped`, that two commands ever ran at once. The default site is kept through any overlap, and two commands at a time make every race of one read and one write. Login, move to another backend and logout of one site are three commands; the fourth is about another site or a repetition |
| `pages_edits` | `--all` misses and repeats nothing it need not, the cap is honest, the loop ends | up to four items in each style of paging, pages of one or two, a cap of three pages (100 in the code), two changes: first, middle and last page differ, the cap falls inside, on and beyond the end |
| `ancestors` | the chain is whole, in order and without repetition, or honestly refused | every chain of up to three above the page, every way to give each of three types, batches of one or two, a cap of two requests, two moves, which build what other trees there are |
| `content_edit` | edits are atomic partial updates and truthfully reported | two edits with all flags, one version by others in between. What one edit can lose to another needs one other; versions are compared, never counted |
| `dispatch` | arguments arrive, extensions are found, failures are reported once, stored aliases expand; quoted words are split as quoted | two quoted words of up to two characters each in every way to quote them, and two texts of up to three: every pair of states of the splitter that a character can connect; three aliases, depth limit 2 (8 in the code), fifteen command lines, one change during the run: chains within, at and beyond the limit, cycles, flags before and after, `extension exec` with and without arguments |
| `commands` | the exit code and the write, bad input, names and targets; which repository; what is browsed | all arguments and flags of up to three parts in every checkout with up to two remotes; paths of up to four segments (five under `/wiki`) over the words each parser looks for, so that every keyword occurs where it counts, where it does not, and twice; all shapes of the catalogue, all profiles over two sites, the gateway and Bitbucket, two things a name can stand for, one change of its meaning |
| `credentials` | what refreshes, logins and logouts may destroy of each other's, and nothing else | two product runs, with the lock or without it, one auth command at a time, two sites in two backends, one failure, three secrets issued in all: one login and one refresh of its pair, or two refreshes in a row, next to what the other site has |
| `oauth_login` | the right code, page, site and end | two logins on one port, the second with `--cloud-id`; two callbacks in any of their answers, to either run, once or twice; another program that takes and leaves a family; five answers of accessible-resources |
| `oauth_queue` | a counterexample to a comment, see 7 | three runs of one site, nothing crashes |
| `auth_logout_overlap` | a counterexample to a document | two commands at a time |

RightTarget, BrowsesSame and SplitsIntoWords speak of pure functions. Their guard
picks one state of the run in which the function is called, so that TLC evaluates
them once for all inputs and not in every state.

Each module has a type invariant `TypeOK`, which says more than types where there
is more to say: that a command which clears a secret has found a profile
(AuthStore), that a run has an outcome exactly when it is done (ContentEdit), that
a request that needs a name is made with one (Commands), that no call outlives its
timeout (OAuthRefresh). It is proved where the module has proofs and is no property of a
run; add it to a `.cfg` after changing a module.

Properties that name an exception say what the code does not promise. So
`Honoured` in OAuthRefresh excludes the histories in which the best-effort lock
was bypassed or taken from a live holder, and two properties of their own say
when that can happen; `torn` and `residue` in AuthStore mark what a failure
half-way leaves; `EveryItem` excludes removals in a list paged by offset, page number or such a link.
In Credentials, `crossed` marks the sites whose secret two had in hand at once: a
login or logout and a refresh, or two refreshes one of which went without the lock,
either on one site or both between reading and rewriting `credentials.json`.
Nothing serializes them, either may undo the other, and the properties say that
this is the only way, next to a login or logout that got half-way (`torn`,
`residue`) and a rotated pair that was lost (`dropped`). The comment of each
property names the exceptions it makes.

## 5. Fairness

Three runs use it. `OAuthRefresh!FairSpec` is weakly fair to each run's own
steps, since the operating system schedules every process, and to `Tick`, since
time passes; it asks nothing of the service or of other runs. A refresh call ends
because `http.Client` has a timeout. `Pagination!FairSpec` is weakly fair to
`Answer ∨ Fail`, because a request ends one way or the other (same timeout), and
to the steps of the loop, which never sleeps. A run with `--timeout 0` has no such
bound and is outside this claim. `OAuthLogin!FairSpec` is weakly fair to `Own`,
the steps of each run's main goroutine, and to `Deadline`, the timer of its
context. It asks nothing of the user, the browser or the service: an exchange may
never be answered, and `CutOff` (a call whose context is done returns) ends it.
That context carries the login's own deadline, so `--timeout 0` does not matter
here.

## 6. The proofs

TLAPS proves the following for every value of the constants that satisfies the
`ASSUME` of the module, all of them conditions the code fulfils: sentinels differ
from values, bounds are natural numbers, `RefreshTimeout < LockTimeout` (30 s and
45 s), an accepted alias has at least one word, exit statuses are below 256. In
RepoTarget: texts and lists of remotes are sequences, and no remote is called `""`
or `"."` (git refuses the names; `.` as an upstream means a local branch). In
References: a path is a sequence of words, no word is both an issue key and a
project key (only the regular expression of the first asks for a hyphen), a number
is also a slug and a space key, and a URL names a host.

- **OAuthRefreshProofs**: all safety properties of the module. The order of the
  argument is the order of the file. `LockInv`: while no live holder was robbed,
  a run that counts on the lock file is its owner, and while nobody bypassed it,
  every run in the critical region counts on it; hence `OneRefresher`. `AgeInv`
  and `CallInv`: while every run that ended took its lock file with it, the file is no
  older than its holder's call, which the timeout keeps below staleness; hence
  `RaceNeedsLeftover`. A crash is not the only way to leave one: a removal that
  fails in silence does it too. `LocalsInv` and
  `SecretInv` need no lock; `GrantInv` uses it: a run's bundle is the stored one
  until the answer comes, and then the service's latest, and a loaded document is
  the stored one until it is written. From it follow the grant, the honest
  re-authentication, the needed refresh and the advancing store.
- **AuthStoreProofs**: `TypeOK` and `DefaultConfigured` for any overlap, the
  others without it. `JobInv` says what a command at each step was called for,
  `SoundInv` that no copy of `config.json` has a dangling default. `SerialInv`
  says that one command runs at a time and its copies equal the files, that a
  profile finds its secret or a command is about to see to it, and that a stored
  secret is owned or about to be removed. The invariants themselves are not
  inductive: between the two writes of a command they are false.
  `Serial` is proved as a refinement: initial states to initial states, every
  step to a step of SiteRegistry or a stutter.
- **ContentEditProofs**: all three and the types, `AtomicEdits` as a refinement. `ReadInv` and
  `SentInv`: a version names one title and one body for good, so an update of the
  next version is the merge of the edit with the content as it is, also when it
  arrives late; its status is the one that was read.
- **DispatchProofs**: all five and the types. `HandInv`: a broken alias, stored or loaded, was
  written by hand. `VoiceInv`: nothing is reported before the end. `MissInv`: an
  extension not on `PATH` now was off it at some time. `KeptInv`: the tail of what
  was typed is the tail of the arguments through every expansion.
  The fifth is SplitsIntoWords, where TLC has words of two characters and the
  theorems words of any length: `QuotedArrives` and `SplitsAtSpaces`. The loop over
  one text and another is the loop over the second from where the first ends
  (`LoopJoin`); the words that a state has already change nothing but themselves
  (`LoopWith`); a text that splits leaves the loop, after one more space, as it was
  at the start but for its words (`Completed`). In quotes, or escaped, each
  character of a word adds just itself (`LoopEscaped`, `LoopSingle`). These are
  inductions over texts; `OverSeq` makes one from the least counterexample, over a
  set of texts in place of a predicate, which no backend could instantiate.
- **CommandsProofs**: all six and the types. Four follow from one invariant of five parts:
  `GivenInv` (the command is one of the catalogue: links are read, and `api` looks
  nothing up), `StageInv` (what has been asked at each step, of whom), `NameInv`
  (what was found was once the only match), `WireInv` (the state of the write at
  each step) and `CodeInv`. `SendableAllowed` and `UnsentLater` are the facts about
  targets: what is sent goes to an allowed origin, and a profile that served for a
  lookup is not refused as bad input later.
  The other two are facts about operators, for all arguments, flags, checkouts and
  references. `ActsAsTold` and `InfersTheFirst` go through what may be typed and
  set, case by case (`RightTargets`). `BrowsingReturns`: for each product and kind
  of resource, the place at which the parser finds its keyword in a path is the
  first that fits, a least element; the canonical path has the same words there,
  and one keyword only, so that reading it gives the same resource
  (`BrowsesTheSame`).

- **OAuthLoginProofs**: the three safety properties. `CallInv`: a code is that of
  the callback that first bore it, and names its request for good. `PortInv`: who
  listens and who has handlers has not returned. `HeardInv`: what is signalled has
  its page. `CodeInv`: a run past the callback holds a code of its own request, and
  a code in use was submitted by that request's run, which is past its exchange;
  the invariant is needed because a code alone does not say who may still submit
  it. An exchange may use the code up and its answer still be lost (`CallFails`). `CloudInv`: `ResolveCloudID` found the one site that fits.

- **PaginationProofs**: the three safety properties of Pagination. A cursor stands
  for the last item collected (`CursorInv`), an offset, counted by the caller or
  handed out in a link, for the number of items before the next page (`OffsetInv`, in two halves: insertions break one, removals the other).
  `Window` is the fact about ranks behind it: a page from an offset on ends exactly
  where the next one begins. `LastInv` and `CapInv` say what the last page, and the
  page at the cap, leave.
  And both of AncestorWalk, for any tree, moves included. `WalkInv` (checked with
  TLC before it was proved) is the types, that the walk asks by the type of what it
  asks for, and four parts: what is above something in a chain is the upper part of
  that chain (`TreeInv`), so that no chain has a circle; everything collected is
  remembered, once (`MetInv`); every batch was worth a request (`WalkCapInv`); and
  while nothing has moved, what is above the place where the walk is and what was
  collected make the chain above the page (`AtRestInv`).

- **CredentialsProofs**: all four safety properties, for any number of sites, runs
  and refreshes, with auth commands that do not overlap (`~Overlap`; what they do to
  one another when they do is AuthStore's subject). The properties are not
  inductive: between two writes of a command, or between a rotation and the save,
  they are false. `FoundInv` and `OwnedInv` say which command or which run is then
  about to make them true, `SecretInv` and `RefreshOf` what that one knows of the
  place it will write to, `CrossInv` that a command and a refresh that met on a site,
  and two refreshes that met because one went without the lock, have been noted,
  which is why each of the two may rely on what it has read elsewhere (`DocInv`). `ApartInv`, that the backends never hold the same secret,
  keeps a refresh from using up the pair of the other one. `MetInv`: a run that
  met nobody still has the stored profile, and tokens of its login. `LoginInv` and
  `AgeInv` order the logins: the login under way is the latest, and a secret that a
  profile leads to is never of an earlier login than the profile; hence `UseMatches`. `AuthKeeps` and
  `RunQuiet` are the frame: a step that keeps to its site keeps all the rest.

Only model-checked: liveness (`RunEnds`, `LoopEnds`, `LoginEnds`), which needs
fairness and ENABLED, out of this prover's reach. The two runs of 7 and the three
formulas stated there are counterexamples and have nothing to prove.

## 7. Where documents and code disagree

The first two are runs that TLC is expected to fail.

- `oauth_queue`: a run that queues behind two slow but live holders outlasts its
  45 seconds and refreshes without the lock; the comment at
  `oauth_provider.go:27` says that happens only after a crash.
- `auth_logout_overlap`: a logout writes back the `config.json` it loaded before
  another command's save, and removes that command's profile too
  (docs/command-contract.md:252 says exactly the named one).

The next three are stated in their modules and false; add them to the `.cfg` of
`commands` (the last one as `RightTarget` is, in CommandInput) to see the
counterexample.

- `InputBeforeRequest`: a transition that does not exist, an attachment without a
  link and a build without a UUID are `invalid_input` after a request
  (docs/access-error-model.md:44, docs/consuming.md:93 say before any).
- `SuccessIsDone`: net/http follows a redirected write with a GET, whose success
  is reported as that of the write (docs/consuming.md:88).
- `InfersOnlyUnnamed`: a blank argument (an unset variable in quotes) puts `--repo`
  out of force, and `--workspace` for commands on a workspace, and the target comes
  from the checkout (`bbcmd.go:108` and `:162`; the comment at `:102` and
  docs/command-contract.md:779 say that it does so only when nothing is passed).

Seen while modelling: a removal between two pages of an offset-paged list makes
`--all` skip an item that was always there (docs/command-contract.md:128-129 says
it holds every item; `EveryItem` states the exception). A service whose last page
still bears a token or link has `FollowAll` refuse a set it holds whole, if that page
is the last one the cap allows (the comment at `restutil.go:182` says the aggregate is
incomplete then; `CapIsHonest` states the exception). A secret left in the other
backend by a clean-up that only warned survives a later logout
(docs/command-contract.md:252; `NoLeftover` states the exception). The extension
fallback also answers cobra's complaint about an argument of a command that takes
none, so `atl-jira version version` runs an extension named `version`, although
docs/command-contract.md:383 speaks of an unknown top-level command. An `error` in
a callback ends the login before its `state` is looked at (`auth.go:654`;
docs/command-contract.md:216-218 says the state is validated), so the denied tab
of one login ends another on the same port. A tab can say "Authorized" although
the login has timed out: when the deadline and the callback are both there, the
select may take either. A branch whose upstream is a URL, or a remote that was
removed, stops inference (`git.go:70`), although docs/command-contract.md:782 has it
go on to `origin`; `InfersFirst` states the exception.

## 8. What is assumed, and what is left out

Of the services: a token endpoint that rotates refresh tokens on use; lists in a
fixed order; versions of content that only an edit raises; space keys that are
unique and accounts found by email that have an id (`users.go:61` does not look);
statuses 401, 403, 404 and 429 mean that nothing was done. Of the operating
system: exclusive creation and renaming of a file are atomic; a read sees a whole
document.

Of OAuth: a client secret and a refresh token of two different logins may or may
not be accepted together; a code is good once and only with its verifier.

Every hazard of `PROJECT.json` has a property. Some hazards the code does not
prevent: a half-way login or logout, a clean-up that failed, two writers of one
secret, a name that changes after its lookup. There the property excepts the case
and says that it is the only one; the hazard's note says so. That an edit may take content out of
the trash, or put it back, is bounded and not excluded: AtomicEdits allows it only if
the content was trashed or restored after the run had read it.

Not modelled: paths, payloads, field lists and the text of output; which of
`--site`, `ATL_SITE` and the default site wins (three lines without a state); the
listing commands of auth, alias and extension, which change nothing; the
opener of the browser, completion, documentation generation and release scripts,
which keep no state; the generation of state and verifier, which is random; a Jira
data center that is not at the root of its host, in References.

## 9. The plan

Done, in this order because the grant and the stored profiles are what a user
cannot get back: OAuthRefresh; SiteRegistry and AuthStore; Pagination;
AncestorWalk; SharedContent and ContentEdit; Apperr and Dispatch; Target and
Commands; Credentials; OAuthLogin; RepoTarget, References and CommandLine.

Proved, in the order of the modules: every safety and action property that a
run checks.

Left: the precedence of `--site`, `ATL_SITE` and the default.
