# A TLA+ model of bbcli

`bbcli` is a command-line client of Bytebase for people and coding agents. A
command is one short-lived process: it picks a server, reads credentials from a
file that all processes of the user share, calls the server's API and prints
JSON. What can go wrong lies between processes (they share two files and a
single-use refresh token), between a process and the server (answers get lost,
other users change the data) and, in a login, between a browser, a terminal and
a clock. The modules here model those parts, TLC checks them on small
instances, and TLAPS proves every safety property, and the refinement of three
abstract specifications, for any number of processes, servers and names.

Paths below are relative to the repository; modules are in this directory.

## 1. Inventory

| Component (source) | State it keeps | Operations | Hard behaviour | What makes it correct | Module |
|---|---|---|---|---|---|
| Credential store (`store.rs`) | `tokens.json` and its lock | `load`, `get`, `edit_tokens` (read, call, write under the lock), `save_credentials`, `remove` | read-modify-write across a network call; kill or full disk during the in-place rewrite; unlocked readers | an edit is atomic, never loses another server's entry, never puts an older pair back | `TokenStore`, `SharedCredential` |
| API client (`client.rs`) | credentials in memory | `load`, `call`, `post`, `ensure_fresh`, `refresh`, replay after a 401 | several processes refresh one single-use token; what is in memory is stale | no live token orphaned, no dead one presented, replay with a new token, a call executed at most once | `TokenStore` |
| OAuth2 endpoints (`oauth.rs`) | the grant on the server | `exchange_code`, `refresh`, `revoke` | the server rotates and the answer is lost | as above | `TokenStore` |
| Contexts (`store.rs`, `main.rs`) | `config.yaml` and its lock | login, logout and `config use` edit it after (or having read) `tokens.json` | two files under two locks, no transaction; a rewrite in place | contexts follow credentials; edits keep each other's contexts; the active context exists; the default moves only on purpose | `Contexts`, `ServerRegistry` |
| Login flow (`oauth.rs`, `main.rs`) | listener, stdin, deadline | `wait_for_code`, `classify`, `parse_pasted` | three sources race in one `select`; peers may be silent or stray | only this attempt's code is exchanged; no callback lost to the deadline; it ends | `LoginFlow`, `LoginDecision` |
| `change propose` (`change.rs`) | sheets and plans on the server | create a sheet, a plan, run and poll its checks | a later step fails, an answer is lost, checks never end | nothing made is left unnamed; the verdict is the server's; it ends | `ChangePropose` |
| Database resolution (`resolve.rs`) | the entries listed so far | page through `ListDatabases`, match in tiers | databases and data sources change between two calls | a name is never guessed; a refusal is true; a replica is preferred | `Lookup` |
| `query`, `schema` (`query.rs`, `schema.rs`) | one answer | one call with a limit; a second fetch for candidates | truncation at the boundary; a filter that hides everything | `truncated` is a fact; the table shown is the only one meant | `Lookup` |
| Server selection (`main.rs`) | none | flag, environment, `.bbcli`, active context | it reads a file that is being written, and its answer is stale when used | the server picked by a context is a logged-in one | `Contexts` |
| `install-skill` (`agent_skill.rs`) | one file | write it unless it was edited | a file that cannot be read is taken for missing | an edit is never overwritten silently | not modelled |
| Offline catalog (`search.rs`, `skill`) | none | print embedded text | none | conversions only | not modelled |
| `vendor/`, `scripts/` | | data, the mock server of the end-to-end test | | | not modelled; the reference for the server's side |

How they interact: every command that calls the API goes through server
selection and `ApiClient::load`; `ApiClient` and the store share `tokens.json`
with every other process, and the lock on it is held while the OAuth server is
called. `login` runs the login flow, exchanges the code, then edits
`tokens.json` and after that `config.yaml`; `logout` edits `tokens.json`, then
`config.yaml`, then revokes. `query`, `schema` and `change propose` resolve the
database and call the API through the client.

`PROJECT.json` lists the hazards of this code at the lines where they bite, with
the properties that cover each, or the reason why none does.

## 2. The modules and the code

Each module's definitions are tied to source lines in `PROJECT.json` ("map").
An `MC…` module EXTENDS its module and adds only symmetry and values for TLC; a
`…Proofs` module EXTENDS its module and holds the theorems about it (section 4).
`SharedCredential`, `ServerRegistry` and `LoginDecision` are abstract: what users
are promised, without processes, locks, files, sockets or clocks. They model no
code; `TokenStore`, `Contexts` and `LoginFlow` implement them.
Some operators are used by no action (`GrantStale` before `Grant`, `DropFirst`
before `DropContexts`, `OnlyLast` before `Extended`, …): each is a plausible slip
in the definition that follows it. The "mutants" in `PROJECT.json` put it in
that definition's place, and the property named there then fails in its run,
which shows that the property depends on the code.

### `TokenStore`: the credential protocol

Processes run one command each (`api`, `login` or `logout`) on one server. A
server's grants are generations 1, 2, 3, …: generation *n* is the *n*-th pair of
access and refresh token it issued. `file` is what `tokens.json` says per
server, `torn` that its bytes do not parse, `lock` the flock, `live` the
generation whose refresh token the server accepts; `dead` and `near` say which
access tokens are rejected and which are within the refresh margin. `pc` names
the function a process is in:

    api:    load -> ensure_fresh -> post  (401) -> edit_tokens (forced) -> ... -> post
                         |-> edit_tokens -> refresh -> write_locked -> writing -> post
    login:  exchange_code -> edit_tokens -> write_locked -> writing -> config
    logout: edit_tokens -> write_locked -> writing -> config -> revoke

The lock is taken in `edit_tokens` with a read of the file (`snap`), the server
is called in `refresh` while it is held, and the write puts the whole map back
in two steps, as `write_locked` truncates and rewrites in place. Every step can be
followed by a kill or an I/O error (`Fail`), every answer can be lost.

Abstractions: a half-written file never parses (a torn file that happens to
parse is left out); the server is the single-use, rotating one of
`scripts/e2e_test.py`, except that the old access token may stay valid or not;
the fallback of `token_request` for servers that do not rotate is left out; the
edit of `config.yaml` is one step, detailed in `Contexts`.

### `SharedCredential`: what the protocol promises

The abstract specification of each server's refresh token, without processes,
locks or files: the newest pair is in the store, carried by the one process that
is about to store or revoke it, lost by a failure, or revoked (`place`). Its
actions say where a pair may go: the server issues the next one; its carrier
stores it; logout takes it out; the server drops a grant only when the store does
not have it; a process that was overtaken may put a superseded pair over an older
one, never over the live one, and never one that a logout took out before; a
half-written file loses all of them. Two properties follow from it alone:
`Consistent` (the stored pair was granted; it is the newest one exactly when that
is in place) and `LifeOfAPair` (a pair leaves the store only for a newer one, with
a logout or with the whole file, and once lost or revoked never comes back).

`TokenStore` implements it under the mapping at its `Cred`: `stored` is `file`,
`issued` is itself, `place` is computed from `live`, `file`, `lost` and
`Wrecked`, and a server that has two login processes (one after the other, too) is
`contended`, for which nothing is promised (`SingleLogin`). `CredentialRefined` says
so, and runs on one server and on two: a command may change one server's pair only. Every abstract
action is used: without any one of them the refinement fails.

### `Contexts`: which server is meant

`creds` is the key set of `tokens.json`, `config` is `config.yaml` with version,
`current-context` and contexts. A command that edits both first edits or reads
`tokens.json` in one step (`AtomicEdit` of `TokenStoreProofs` is the reason one
step is enough), then takes the lock of `config.yaml`, reads it, writes the new
contents over the old ones and cuts the file to its new length:

    login:  Login            -> config -> write -> writing -> idle
    use:    Use              -> config -> write -> writing -> idle
    logout: Select -> RemoveCreds -> config -> write -> writing -> idle
    api:    Select -> Load -> idle

`Select` is `resolve_server`: the flag or environment, then `.bbcli`, then the
active context, each a name or a URL, on a `config.yaml` read without the lock.
Between the write and the cut the file is the new contents followed by the rest
of the old (`Tailed`): it does not parse, or removed contexts are back. A reader
may meet it so, and a crash leaves it so (`FailTorn`). Writing the bytes is one
step: `write_all` of a file this small is a single system call in practice. A
command that cannot read the file ends, which changes no state.

History variables mark the servers two commands edited at the same time
(`raced`), those an edit failed on half-way (`broken`) and the processes whose
server was logged out since they picked it (`overtaken`). What a name or URL
normalizes to is left out: names and servers are distinct values, and a name that
is no context is the URL of a server nobody knows (`NoServer`).

### `ServerRegistry`: what the two files promise together

The abstract specification of `config.yaml` and the key set of `tokens.json` as
one registry: the servers known, the contexts, the active one. Every change is
one step: `Know` and `Forget` a server, `Save` and `Activate` a context. A logout
is two: the server is forgotten and is `leaving` until its contexts are dropped,
all at once, the active one with them. A server that two commands edited at the
same time, or an edit failed on, is `doubtful`: `Save`, `Drop` and `Return` may
leave contexts of it that nothing vouches for, and only of it. A failure may
`Wreck` the contexts for good.

`Contexts` implements it (`RegistryRefined`): `known` is `creds`, `leaving` the
servers of which a logout is between its two files (`Leaving`), `doubtful` is
`raced` and `broken` together, `whole` that no crash has left `config.yaml`
unreadable. What is hidden are the locks, the stale reads, the version of the file
and what stands after its new contents until it is cut. Without any one of the
abstract actions the refinement fails. `Consistent` and `ContextsStand` (a context
of a known server stays until the server is forgotten, or its name is given to
another known server) follow from the abstract specification alone.

### `LoginFlow`: callback, paste and deadline

One login. Connections arrive in any number, a few at a time, and wait to be
accepted in order; the process reads one head at a time, with no deadline while it
reads; stdin delivers one line, end of file or an error. `tokio::select!` polls its
branches in random order, so of a line on stdin, a connection and a deadline that
are all there, any may be taken, save that a connection goes before the deadline.
The ten minutes pass (`Clock`) while the process waits for somebody, not while it
has something to do at once: what it does then takes no time to speak of. A
redirect is a record of what `classify` looks at: is there an error, whose state,
is there a code. PKCE, HTML and URL parsing are left out.

### `LoginDecision`: what a login promises

The abstract specification of a login: redirects arrive from peers or are pasted,
and the first one the login looks at decides it: its code is exchanged if it is
this attempt's (`Own`), else the login is refused. It times out only when no peer
has an unanswered redirect, may be abandoned, and stores once it is granted. A
pasted redirect has no such right: one that waits behind a slow connection may lose
to the deadline (`LoginPasteLate`).

`LoginFlow` implements it (`DecisionRefined`): `phase` is read off `pc` and
`result`, `arrived` off the requests of open connections (`Brought`), `pasted` off
the line on stdin, and `choice` is `taken`. Hidden are the queue, who is being
read, silent peers, other pages and lines that are no redirect. So a redirect means
the same by whichever way it comes, and no callback is overtaken by the deadline. Here,
too, each abstract action is needed. `FirstDecides` follows from the abstract
specification: a redirect that gets its answer decides the login, and the choice
stands.

### `ChangePropose`: a sheet, a plan and its checks

The attempts of an agent to propose a change. Any call may be refused, executed
with its answer lost, or (the creates) answered without a name. The server's
checks run beside it and end at any time, or never; the trigger may start them
again, and then what they ended with before no longer counts (`reached`). That a
call is executed at most once is `TokenStore`'s subject. `told` is what the agent
has been told of.

### `Lookup`: resolution, query and schema

One `query` or `schema` command against a server whose databases come and go.
A name is what the tiers of `match_databases` make of it (`TIER`). Before the tiers
the server applies the filter of the request (`Admissible`): `--instance` and
`--project`, and `name.contains`, of which `FILTERS` says what it may let through.
The API description (CEL) and the mock server of `scripts/e2e_test.py` have it mind
the case and look at the whole resource name, while tiers 2 and 3 ignore the case.
Where the server does so, a database that the tiers would match never reaches them:
`Emp` may be resolved to `Emp_x` beside `emp_y`, and `EMPLOYEE` refused beside
`employee`, against the rule at the top of `resolve.rs`. What the real server does is
not in the repository, so no property is claimed about what it hides: `NeverAPick`
and `RefusalIsTrue` speak of what the filter lets through. The server lists in a
fixed order, a page
token is a position in it, and a page may be shorter than asked for: a database
that is there throughout is listed once. Were a token an offset instead, a drop
during the listing could hide a database from it; the API description says
neither. An entry says which data sources its instance declares; the choice is
made from it and used in a later call, by when they may have changed (a data
source is its type: two of one type are interchangeable). Tables are whatever they are when they are fetched, so the second fetch
(for candidates) may see others. Arguments only one step reads (`--limit`,
`--schema`, `--table`, `--include`) are chosen in that step. The
contents of rows and what is printed of a table are left out.

### How they compose

The modules meet at interfaces small enough to be assumed rather than composed:
`Contexts` uses the edit of `tokens.json` as a step, `LoginFlow` ends where
`TokenStore`'s `login` begins, and `ChangePropose` and `Lookup` see a call that is
executed at most once and may fail. Section 6 has the plan for composing a whole
login.

## 3. The runs

Passing runs:

| Run | Instance | What it shows |
|---|---|---|
| `TokenStore` | 3 processes of any command, 1 server, 1 call each | `SnapshotIsCurrent`: the read-modify-write is atomic across the network call in it. `LiveTokenAccounted`: the live refresh token is in the file or with the one process about to store or revoke it, unless a failure lost it. `NeverBurnsDeadToken`, `ReplayUsesNewToken`, `ProactiveAdoptsFresh`: what a process that gets the lock does with the pair it finds. `ExecutedAtMostOnce`: replay does not repeat a call that ran. `TornOnlyByFailure`, `NeverRollsBack`: what can happen to the file. `OneCarrier`: no two commands are about to store or revoke one live pair. `CredentialRefined`: all of it is what `SharedCredential` promises |
| `TokenStoreServers` | 2 processes (1 and 2 calls), 2 servers | entries of other servers survive an edit (`LiveTokenAccounted`, `CredentialRefined`); a command runs out of steps (`CommandsAdvance`: with each one, less is left to do, replays included); under fairness `WaiterGetsLock`, and `CarriedSettles`: a pair that only one process holds is stored, revoked or lost in the end |
| `Contexts` | 2 processes, 2 servers, 2 names | `ActiveContextExists`; `NoDanglingContext` and `SelectedIsLoggedIn` outside races, failures and a logout that is not done; `ContextsKept`: a write or a crash touches only what its command is about; `DefaultMovesOnPurpose`: the default goes only where a login or `config use` sends it, and is given up only by a logout of it; `RegistryRefined`: all of it is what `ServerRegistry` promises |
| `LoginFlow` | 2 connections at a time with any request, any stdin | `CodeIsBound`, `LoginEnds`; `TimeoutMeansNoCallback`: no redirect that came to the listener loses to the deadline (a pasted one may); `DecisionRefined`: the first redirect looked at decides, whichever way it came |
| `ChangePropose` | 2 attempts, 3 polls | `ResourcesNamed`, `VerdictIsTheServers`, `AttemptEnds`; `AttemptAdvances`: every call brings the end nearer, within the budget of polls |
| `Lookup` | 5 databases on 3 instances in 2 projects, 2 server filters, 2 per page, 2 changes | `NeverAPick` and `RefusalIsTrue` among what the server lets through, `ReplicaFirst`, `TruncatedIsExact`, `TableIsTheOne`, `LookupEnds` |

Runs that end in a violation, each of something the repository says of itself:

| Run | Claim | What happens |
|---|---|---|
| `ForcedRefresh` | the loser of the lock adopts the winner's pair (comment in `client.rs`) | after a 401 it adopts the pair and rotates it once more: a needless rotation, no loss |
| `LogoutUndone` | logout removes the local credentials (README) | a process that loaded them before, and refreshes after, stores a live pair again |
| `ContextsDangling` | no context references missing credentials (comment on `remove`) | a login and a logout of one server overlap, each between its two files |
| `LoginSilentPeer` | login waits up to ten minutes and takes whichever comes first | a connection that says nothing stops the deadline and stdin for as long as it stays open |
| `LoginPasteLate` | login takes whichever arrives first, the callback or the pasted redirect (README) | a redirect is pasted in time while a slow connection is read, the deadline passes, and the random `select` ends the login with a timeout |
| `ProposeUnnamed` | a failure names every resource created so far (`change.rs`) | a create whose answer is lost has made a resource the error does not name |

`PROJECT.json` "findings" quotes the lines.

### Bounds, and why they are enough

- `TokenStore`: a refresh has one winner, one loser and one process that reads or
  edits meanwhile, so three processes of any command show every interleaving of
  roles; a process makes one call there. In `TokenStoreServers` one of two makes
  a second call, which meets a pair that somebody else rotated since its first. A
  second server matters only as another entry of the same map. Generations are
  bounded by the number of commands. The theorems drop these bounds.
- `Contexts`: two processes are what it takes to interleave one edit with
  another; two names and two servers let a context move and let two contexts
  point at one server. Processes run commands without end.
- `LoginFlow`: a browser's preconnect and the redirect make two open connections;
  an answered one makes room for the next, so that streams of them are endless.
  `accept` comes before the deadline in the `select`: a login that never runs out
  of connections to accept does not end, which `LoginEnds` and `WaitIsBounded`
  except (`EndlessConnections`). One connection is enough for `LoginPasteLate`.
- `ChangePropose`: a second attempt shows what the first left behind; three polls
  let the checks end before, between and after them.
- `Lookup`: two pages, and two changes, so that a rename can fall between them;
  of the instances one declares an admin source and may have a replica, one has
  both and one has none; the ids cover each tier and none of them, one id is in two
  instances; a project spans instances and is a part of one; one filter lets
  everything through, the other minds the case and hides two of the three matches
  that are not exact;
  there is an engine with named schemas, one without, and one that has them and
  is not in the compiled list. `TABLE_LIMIT`, `CANDIDATE_CAP` and the fetch limit
  are 1 with 2 tables per schema, which puts the boundary inside the instance.

### Fairness

- `TokenStore` (`WaiterGetsLock`, `CarriedSettles`): weak fairness on `Bounded(p)`, the local steps and the OAuth
  requests, which have a timeout of 30 s (`OAUTH_TIMEOUT`). None on API calls,
  which may hang for ever by default, on users, or on failures: the lock is held
  across OAuth requests only, so none is needed for `WaiterGetsLock`. The
  fairness makes a waiter that finds the lock free again and again take it in
  the end only because commands are finite in number; the kernel promises no
  order among waiters.
- `LoginFlow`: weak fairness on the program and on the clock. `FairSpec` adds
  that every peer says something or closes in the end; without that
  (`SilentPeersSpec`) the claim of `LoginSilentPeer` fails.
- `ChangePropose` and `Lookup`: weak fairness on the command's own calls. They end
  with `--timeout`; without it a call may hang for ever, and so may the command.
  The server's checks and the agent are not fair. In `Lookup` a page that is not
  the last one moves the token forward, and the databases change finitely often.

## 4. What is proved

The proofs are in a module of their own per component. All of them hold for every
value of the constants: any processes, servers and names, any number of calls,
connections and attempts, any listing, page size and limit. Each inductive
invariant (`SafetyInv`, `CarrierInv`, `LostInv`, `ApartInv`, `TornInv`) holds on
TLC's instances of section 3 too, but no run is spent on them, since the theorems
say more.

### `TokenStoreProofs`

| Theorem | States |
|---|---|
| `TypeCorrect` | `Spec => []TypeOK` |
| `Safety` | `Spec => []SafetyInv`, the inductive invariant |
| `AtomicEdit` | `[]SnapshotIsCurrent` |
| `TokenNeverOrphaned` | `[]LiveTokenAccounted` |
| `NoTokenBurned` | `[]NeverBurnsDeadToken` |
| `ReplayIsNew` | `[]ReplayUsesNewToken` |
| `AtMostOnce` | `[]ExecutedAtMostOnce` |
| `WholeUnlessFailure` | `[]TornOnlyByFailure` |
| `ProactiveIsLazy` | `[]ProactiveAdoptsFresh` |
| `NoRollback` | the action property `NeverRollsBack` |
| `StepsAreBounded` | the action property `CommandsAdvance` |

The argument. `TypeOK` is inductive by itself (it includes that no file, process
or snapshot holds a generation not yet issued). `SafetyInv` has eight parts and
`LiveTokenAccounted`:

- `LockInv`: the holder of the lock is exactly the process in the critical
  section, its snapshot is the file, and a torn file is its doing. This gives
  `AtomicEdit`, and `WholeUnlessFailure` with it.
- `RoleInv` and `CallInv`: where each command can be, and what a call's rejected
  generation and execution count say there. They give `ReplayIsNew` and
  `AtMostOnce`.
- `RefreshInv`: what the process under the lock holds, relative to the file: the
  pair adopted from it before the request, a newer one after it. It gives
  `ProactiveIsLazy`, and `NoRollback` for refreshes.
- `LoginInv` and `WriterInv`: a login's pair is the live one and nobody else's;
  what a refresh is about to store is live unless a login, a logout or a failure
  came between. `LiveTokenAccounted` is not inductive without them: a write
  could otherwise replace the file's live pair by a dead one.
- `OnlyCallsInv`: where only API calls are made, an entry and a live grant stay.
  It gives `NoTokenBurned`.

`CommandsAdvance` needs one invariant more, `BudgetInv` (a process never has more
calls made than it will make): `StepsLeft` counts the steps ahead on the longest
way through the command, the one replay after a 401 and the calls to come, and
every step of a process takes at least one off. It is the safety half of
termination: no command can go round for ever, and what is left to liveness is
that it is not stuck (`WaiterGetsLock`, which TLC checks).

Each part is preserved by every action (one lemma per part, one step per
action); the theorems about runs follow by PTL.

### `SharedCredentialProofs`: `TokenStore` implements `SharedCredential`

| Theorem | States |
|---|---|
| `CarrierSafety`, `LostSafety` | `[]CarrierInv`, `[]LostInv` |
| `Implements` | `Spec => CredentialRefined`: the refinement itself |
| `CarriedByOne` | `[]OneCarrier` |
| `Consistency` | `[]Consistent` of `SharedCredential` |
| `LifeOfAPair` | the action property of that name of `SharedCredential` |

`SafetyInv` is not enough for the refinement: that a logout's revocation and a
refresh's write of one server cannot be mistaken for each other needs `CarrierInv`.
What a logout has taken out of the file does not come back, it is older than
what a refresh is about to store, and while a refresh is about to store there is a
live token. `LostInv` says that what a failure has lost is in nobody's hands and
not in the file, and that two logouts never set out to revoke the same pair; a
carrier is then the only one (`CarriedByOne`), and a stale write is strictly
older than the live pair. `Implements` then has one lemma per kind of step: initial states map
to initial states, a grant, a write, a revocation (or its failure) and the end of
a command that carried a pair map to the abstract step of that name, and
everything else (locks, waits, API calls, unlocked reads) to a stutter.
`Consistency` and `LifeOfAPair` are proved of the abstract specification, where
they take a case per abstract action, and hold of the code's protocol because
that implements it.

### `ContextsProofs`

| Theorem | States |
|---|---|
| `TypeCorrect` | `[]TypeOK`: among others, a process has read `config.yaml` exactly while it holds the lock |
| `Safety` | `[]SafetyInv`, the inductive invariant |
| `ActiveContext` | `[]ActiveContextExists` |
| `NoDangling` | `[]NoDanglingContext` |
| `SelectedLoggedIn` | `[]SelectedIsLoggedIn` |
| `OthersKept` | the action property `ContextsKept` |
| `DefaultMoves` | the action property `DefaultMovesOnPurpose` |

The argument. `EditedFacts` and `TailedFacts` say what an edit, and the tail of a
write, make of a file. `ReadInv` says that the holder of the lock works on what
the file says, and that between write and truncation the file is the result of
its edit; so a context that comes back with a tail is one that a logout dropped
(`TailIsALogout`), which the two action properties and `SelectedLoggedIn` rest on.
`CredsInv` says that a login or `config use` on its way to `config.yaml` is of a
logged-in server unless a logout of it came between, and `DanglingInv` that a
context without credentials has a logout on its way that will drop it. Neither
`NoDanglingContext` nor `SelectedIsLoggedIn` is inductive without them.

### `ServerRegistryProofs`: `Contexts` implements `ServerRegistry`

| Theorem | States |
|---|---|
| `Separation` | `[](ApartInv /\ TornInv)` |
| `Implements` | `Spec => RegistryRefined`: the refinement itself |
| `Consistency` | `[]Consistent` of `ServerRegistry` |
| `ContextsStand` | the action property of that name of `ServerRegistry` |

`SafetyInv` of `Contexts` says nothing of who edits a server beside whom, and the
mapping of `leaving` needs it: that a logout's drop ends the leaving of its server
unless the server is doubtful. `ApartInv`: two commands that edit one server at
the same time have raced. `TornInv`: a torn file is held by nobody. `LeavingSame`
and `LeavingLess` say how a step changes `Leaving`; with them there is one lemma per
kind of step. The edit of `tokens.json` maps to `Know` or `Forget`, the write of
`config.yaml` to `Save`, `Activate` or `Drop`, a failure to `Doubt`, `Return` or
`Wreck`, and selections, reads, locks and the cut of the file to stutters.
`Consistency` and `ContextsStand` are again proved of the abstract specification
and carried over by `Implements`.

### `LoginFlowProofs`, `ChangeProposeProofs`, `LookupProofs`

| Module | Theorems |
|---|---|
| `LoginFlowProofs` | `TypeCorrect`, `Safety`, `CodeBound` (`[]CodeIsBound`), `NoCallbackLost` (`[]TimeoutMeansNoCallback`), `Implements` (`DecisionRefined`), `Consistency`, `FirstDecides` |
| `ChangeProposeProofs` | `TypeCorrect`, `Safety`, `NothingOrphaned` (`[]ResourcesNamed`), `VerdictIsTrue` (`[]VerdictIsTheServers`), `AttemptsAreBounded` (`AttemptAdvances`) |
| `LookupProofs` | `TypeCorrect`, `Safety`, `NeverPicks` (`[]NeverAPick`), `RefusalsTrue` (`[]RefusalIsTrue`), `ReplicaPreferred` (`[]ReplicaFirst`), `TruncationExact` (`[]TruncatedIsExact`), `TableTheOne` (`[]TableIsTheOne`) |

- `LoginFlow`: `OpenInv`, an open connection is in the queue or being read, is what
  makes an empty queue mean that no peer has brought a redirect; `ResultInv`, what a
  login that is over or exchanges has as its result, is what `phase` is read off.
  `Implements` has a lemma per kind of step: a peer's request, a pasted line, the
  judging of each, the deadline, failures and the store. `Consistency` and
  `FirstDecides` are proved of `LoginDecision` and carried over.
- `ChangePropose`: `StageInv`, the process has the names it is about to use, and
  `RunInv`, what a run has ended with is on record since it was last started. `BudgetInv`, no time has gone
  before the first poll, makes `AttemptAdvances` hold: a call moves the attempt to
  a later stage or spends part of the poll budget, a refused poll included.
- `Lookup`: `PagesInv`, a database that stayed and comes before the page token is
  among the entries, and `EntriesInv`, there is one entry of each. With an empty
  token nothing that stayed is left out (`LastPage`), and then the best tier of
  the entries is the best tier of what stayed (`MatchFacts`). For the tables,
  `AnswersFacts` says what an answer under a limit holds, `FirstFacts` that names
  all of which are among the first n are at most n, and `SectionFacts`, from the
  two, that a section is cut exactly when a table is missing from it.
  `CandidatesInv` carries the refusal of a table over the second fetch.

### Assumptions

- `TokenStore`: `NoProc \notin Proc` and `MaxCalls \in [Proc -> Nat \ {0}]` (a
  command that calls the API makes a call).
- `Contexts`: `Default` is a name and `NoName` is none (`NamesAssumption`); servers
  and names are distinct values and `NoServer` is no server (`ServersAssumption`);
  `NoProc \notin Proc`.
- `LoginFlow`: `NoConn \notin Conn`. `ChangePropose`: attempts and budget are
  positive.
- `Lookup`: the listing is a sequence without repetitions (`ListingAssumption`:
  the server lists in one fixed order), tiers are 1 to 4 and every filter lets the
  exact matches through (`TierAssumption`: `name.contains` of the input holds of
  them, case or no case), a database has a project (`ProjectAssumption`),
  the engines compiled in as having named schemas do have them
  (`EngineAssumption`), data sources are of the two types (`SourcesAssumption`),
  limits are positive, and tables and schemas are finite (`LimitsAssumption`).

Nothing else is assumed finite. TLC evaluates each assumption on its instances.

### What is only model-checked

Liveness (`WaiterGetsLock`, `CarriedSettles`, `LoginEnds`, `AttemptEnds`,
`LookupEnds`): liveness under fairness is beyond TLAPS here. `StepsAreBounded` and
`AttemptsAreBounded` prove that commands and attempts cannot go round for ever,
not that they move. Every safety and action property and every refinement of a
passing run is proved.

## 5. What is not modelled

- The offline catalog (`search`, `skill`), the flattening of cells, URL
  normalization, HTML pages, PKCE, JSON and Connect error formats: conversions
  without state or interaction.
- `install-skill`: one process reads one file, compares it with the embedded text
  and writes it. Nothing runs beside it, and a unit test covers each outcome.
- `status` and `config view`, which print what they read. Their unlocked reads
  may meet a half-written file, as `TokenStore`'s `LoadFails` and `Contexts`'
  `Select` do.
- A `tokens.json` that happens to parse although it is half-written.
- The default after a logout: `README.md:239-240` of the repository has the most
  recent login as the default where no context is active, and
  `default_server_from` (`store.rs:346`) looks at the active context only. Log in to
  A, to B, log out of B, and no server is selected although A is logged in. It takes
  one process and no interleaving, so no run is spent on it.
- The server, beyond what the client relies on.

## 6. Plan

1. Composition of a whole login: `LoginFlow`, then `TokenStore`'s `login`, then
   `Contexts`' `Login`, in one specification, with the property that a login that
   reports success has left a credential and a context that points at it. The
   abstract specifications are what it would be composed of: `LoginDecision`
   stores only after `granted`, which is `SharedCredential`'s `Issue` and `Store`
   and `ServerRegistry`'s `Know`.
2. An abstract specification of name resolution, in which the whole listing is one
   look at a set of databases that has all that stayed, and that `Lookup`
   implements; and the progress of a listing as an action property, in the way of
   `AttemptAdvances`.
