------------------------------ MODULE TokenStore ------------------------------
(***************************************************************************)
(* The credential protocol of bbcli: several bbcli processes share          *)
(* tokens.json (store.rs), each refreshes a single-use refresh token at the *)
(* server (client.rs, oauth.rs) and posts API calls with the access token.  *)
(*                                                                          *)
(* A grant of a server is a generation 1, 2, 3, ...; generation n stands    *)
(* for the n-th access/refresh token pair it issued, 0 for no credentials.  *)
(* A process runs one command on one server: "api" (any command that calls  *)
(* the API), "login" or "logout".  A killed process, an I/O error and a     *)
(* lost reply all end the command, so they need no bound of their own.      *)
(***************************************************************************)
EXTENDS Naturals

CONSTANTS
    Proc,      \* bbcli processes
    Server,    \* normalized server URLs, the keys of tokens.json
    NoProc,    \* the holder of the lock when it is free
    MaxCalls   \* API calls each process makes at most (bound of the model)

ASSUME NoProcAssumption == NoProc \notin Proc
ASSUME MaxCallsAssumption == MaxCalls \in [Proc -> Nat \ {0}]

VARIABLES
    \* the disk
    file,      \* the last whole contents of tokens.json: Server -> generation
    torn,      \* TRUE while the bytes on disk do not parse
    lock,      \* holder of the exclusive flock on tokens.json
    \* the server and the clock
    issued,    \* pairs granted so far
    live,      \* generation whose refresh token the server accepts, 0 for none
    dead,      \* access tokens of generations up to this one are rejected
    near,      \* generations up to this one expire within the refresh margin
    \* the processes
    cmd, srv,  \* command and server, fixed when the process starts
    pc,        \* where the process is, named after the function it is in
    mem,       \* credentials in memory
    snap,      \* tokens.json as parsed under the lock
    sent,      \* generation this call was rejected with (401), 0 for none
    calls,     \* API calls begun
    ran,       \* API calls the server executed for this process
    \* history
    lost       \* the server's live refresh token was dropped by a process

disk == <<file, torn>>
server == <<issued, live>>
clock == <<dead, near>>
client == <<mem, snap, sent, calls, ran>>
vars == <<file, torn, lock, issued, live, dead, near, cmd, srv, pc, mem, snap,
          sent, calls, ran, lost>>

Command == {"api", "login", "logout"}
Finished == {"ok", "failed"}
Label == {"load", "ensure_fresh", "edit_tokens", "refresh", "write_locked",
          "writing", "post", "exchange_code", "config", "revoke"} \cup Finished

(***************************************************************************)
(* Where a process of each command is the only holder of the token in its   *)
(* memory: between the server's answer and the end of its write-back, or,   *)
(* for logout, between the removal and the revocation.                      *)
(***************************************************************************)
CustodyAt == [api    |-> {"write_locked", "writing"},
              login  |-> {"edit_tokens", "write_locked", "writing"},
              logout |-> {"config", "revoke"}]

Custody(p) == /\ pc[p] \in CustodyAt[cmd[p]]
              /\ mem[p] # 0
              /\ mem[p] = live[srv[p]]

Start == [api |-> "load", login |-> "exchange_code", logout |-> "edit_tokens"]

Nothing == [s \in Server |-> 0]

Init == /\ file \in [Server -> {0, 1}]
        /\ torn = FALSE
        /\ lock = NoProc
        /\ issued = file
        /\ live = file
        /\ dead = Nothing
        /\ near = Nothing
        /\ cmd \in [Proc -> Command]
        /\ srv \in [Proc -> Server]
        /\ pc = [p \in Proc |-> Start[cmd[p]]]
        /\ mem = [p \in Proc |-> 0]
        /\ snap = [p \in Proc |-> Nothing]
        /\ sent = [p \in Proc |-> 0]
        /\ calls = [p \in Proc |-> 0]
        /\ ran = [p \in Proc |-> 0]
        /\ lost = [s \in Server |-> FALSE]

-----------------------------------------------------------------------------
Goto(p, l) == pc' = [pc EXCEPT ![p] = l]

LockKept(p) == lock' = lock
ReleaseLock(p) == lock' = IF lock = p THEN NoProc ELSE lock

\* A command that ends takes its memory with it.
End(p, l) == /\ Goto(p, l)
             /\ mem' = [mem EXCEPT ![p] = 0]
             /\ snap' = [snap EXCEPT ![p] = Nothing]
             /\ sent' = [sent EXCEPT ![p] = 0]

\* An error return or a kill: the guard is dropped (or the kernel drops it),
\* nothing is written, and a token only this process held is gone with it.
Quit(p) == /\ End(p, "failed")
           /\ ReleaseLock(p)
           /\ lost' = [lost EXCEPT ![srv[p]] = @ \/ Custody(p)]

\* A token response of the server: it issues the next pair, which replaces the
\* current refresh token; older access tokens may or may not stay valid.
GrantStale(s) == /\ issued' = [issued EXCEPT ![s] = @ + 1]
                 /\ live' = [live EXCEPT ![s] = issued[s]]
                 /\ UNCHANGED clock
Grant(s) == /\ issued' = [issued EXCEPT ![s] = @ + 1]
            /\ live' = [live EXCEPT ![s] = issued[s] + 1]
            /\ \E d \in {dead[s], issued[s]} : dead' = [dead EXCEPT ![s] = d]
            /\ near' = near

-----------------------------------------------------------------------------
(* ApiClient::load and the proactive check *)

\* store::get reads tokens.json without the lock.
Load(p) ==
    /\ pc[p] = "load"
    /\ ~ torn
    /\ file[srv[p]] # 0
    /\ mem' = [mem EXCEPT ![p] = file[srv[p]]]
    /\ calls' = [calls EXCEPT ![p] = 1]
    /\ Goto(p, "ensure_fresh")
    /\ UNCHANGED <<disk, lock, server, clock, cmd, srv, snap, sent, ran, lost>>

\* A rewrite in progress does not parse; a missing entry is "not logged in".
LoadFails(p) ==
    /\ pc[p] = "load"
    /\ torn \/ file[srv[p]] = 0
    /\ Quit(p)
    /\ UNCHANGED <<disk, server, clock, cmd, srv, calls, ran>>

Fresh(p, c) == c > near[srv[p]]

EnsureFresh(p) ==
    /\ pc[p] = "ensure_fresh"
    /\ Goto(p, IF Fresh(p, mem[p]) THEN "post" ELSE "edit_tokens")
    /\ UNCHANGED <<disk, lock, server, clock, cmd, srv, client, lost>>

-----------------------------------------------------------------------------
(* The locked read-modify-write of tokens.json *)

MayLockAlways == TRUE
MayLock == lock = NoProc

\* The entry a process works on once it holds the lock: a refresh adopts what
\* is stored and keeps its own copy only when the entry is gone, login inserts
\* the pair it was granted, logout takes the entry out.
OwnCopy(p) == IF cmd[p] = "logout" THEN file[srv[p]] ELSE mem[p]
Adopted(p) == CASE cmd[p] = "api" /\ file[srv[p]] # 0 -> file[srv[p]]
                [] cmd[p] = "logout"                  -> file[srv[p]]
                [] OTHER                              -> mem[p]

\* Only the proactive path (no 401 in this call) trusts the local expiry.
SkipsForced(p) == cmd[p] = "api" /\ Fresh(p, Adopted(p))
SkipsNever(p) == FALSE
SkipsRefresh(p) == cmd[p] = "api" /\ sent[p] = 0 /\ Fresh(p, Adopted(p))

\* take_lock, read_locked and the decision taken on what was read: nobody
\* writes between the three, so each outcome is one step.
EditTokens(p) ==
    /\ pc[p] = "edit_tokens"
    /\ MayLock
    /\ ~ torn
    /\ ~ SkipsRefresh(p)
    /\ lock' = p
    /\ snap' = [snap EXCEPT ![p] = file]
    /\ mem' = [mem EXCEPT ![p] = Adopted(p)]
    /\ Goto(p, IF cmd[p] = "api" THEN "refresh" ELSE "write_locked")
    /\ UNCHANGED <<disk, server, clock, cmd, srv, sent, calls, ran, lost>>

\* The adopted pair is fresh: the file is left unchanged and the lock released.
AdoptFresh(p) ==
    /\ pc[p] = "edit_tokens"
    /\ MayLock
    /\ ~ torn
    /\ SkipsRefresh(p)
    /\ mem' = [mem EXCEPT ![p] = Adopted(p)]
    /\ Goto(p, "post")
    /\ UNCHANGED <<disk, lock, server, clock, cmd, srv, snap, sent, calls, ran, lost>>

\* What is read under the lock does not parse: an error, never a reset.
EditTokensFails(p) ==
    /\ pc[p] = "edit_tokens"
    /\ MayLock
    /\ torn
    /\ Quit(p)
    /\ UNCHANGED <<disk, server, clock, cmd, srv, calls, ran>>

\* OAuth2Client::refresh under the lock: the server takes only the live token.
Refresh(p) ==
    /\ pc[p] = "refresh"
    /\ mem[p] = live[srv[p]]
    /\ Grant(srv[p])
    /\ mem' = [mem EXCEPT ![p] = issued[srv[p]] + 1]
    /\ lost' = [lost EXCEPT ![srv[p]] = FALSE]
    /\ Goto(p, "write_locked")
    /\ UNCHANGED <<disk, lock, cmd, srv, snap, sent, calls, ran>>

\* Any other token is an error, which leaves the file untouched.
RefreshRejected(p) ==
    /\ pc[p] = "refresh"
    /\ mem[p] # live[srv[p]]
    /\ Quit(p)
    /\ UNCHANGED <<disk, server, clock, cmd, srv, calls, ran>>

\* write_locked rewrites in place: between the first byte and set_len the
\* file is neither the old nor the new contents.
BeginWriteUnlocked(p) ==
    /\ pc[p] = "write_locked"
    /\ torn' = TRUE
    /\ ReleaseLock(p)
    /\ Goto(p, "writing")
    /\ UNCHANGED <<file, server, clock, cmd, srv, client, lost>>
BeginWrite(p) ==
    /\ pc[p] = "write_locked"
    /\ torn' = TRUE
    /\ Goto(p, "writing")
    /\ UNCHANGED <<file, lock, server, clock, cmd, srv, client, lost>>

\* What the process writes: the file as it read it, with its own entry changed.
Entry(p) == IF cmd[p] = "logout" THEN 0 ELSE mem[p]
ContentsUnchanged(p) == IF cmd[p] = "api" THEN snap[p]
                        ELSE [snap[p] EXCEPT ![srv[p]] = Entry(p)]
ContentsAlone(p) == [Nothing EXCEPT ![srv[p]] = Entry(p)]
Contents(p) == [snap[p] EXCEPT ![srv[p]] = Entry(p)]

EndWrite(p) ==
    /\ pc[p] = "writing"
    /\ file' = Contents(p)
    /\ torn' = FALSE
    /\ ReleaseLock(p)
    /\ snap' = [snap EXCEPT ![p] = Nothing]
    /\ Goto(p, IF cmd[p] = "api" THEN "post" ELSE "config")
    /\ UNCHANGED <<server, clock, cmd, srv, mem, sent, calls, ran, lost>>

-----------------------------------------------------------------------------
(* API calls *)

ReplaysNever(p) == FALSE
Replays(p) == sent[p] # 0

\* The server executes the request and answers: the command is done.
PostExecuted(p) ==
    /\ pc[p] = "post"
    /\ mem[p] > dead[srv[p]]
    /\ ran' = [ran EXCEPT ![p] = @ + 1]
    /\ End(p, "ok")
    /\ UNCHANGED <<disk, lock, server, clock, cmd, srv, calls, lost>>

\* The same, and the command has another call to make.
PostThenCall(p) ==
    /\ pc[p] = "post"
    /\ mem[p] > dead[srv[p]]
    /\ calls[p] < MaxCalls[p]
    /\ ran' = [ran EXCEPT ![p] = @ + 1]
    /\ calls' = [calls EXCEPT ![p] = @ + 1]
    /\ sent' = [sent EXCEPT ![p] = 0]
    /\ Goto(p, "ensure_fresh")
    /\ UNCHANGED <<disk, lock, server, clock, cmd, srv, mem, snap, lost>>

\* The server executes the request and the answer does not arrive (--timeout,
\* a broken connection): an error, never a second attempt.
PostResend(p) ==
    /\ pc[p] = "post"
    /\ mem[p] > dead[srv[p]]
    /\ ran' = [ran EXCEPT ![p] = @ + 1]
    /\ UNCHANGED <<disk, lock, server, clock, cmd, srv, pc, mem, snap, sent,
                   calls, lost>>
PostReplyLost(p) ==
    /\ pc[p] = "post"
    /\ mem[p] > dead[srv[p]]
    /\ ran' = [ran EXCEPT ![p] = @ + 1]
    /\ Quit(p)
    /\ UNCHANGED <<disk, server, clock, cmd, srv, calls>>

\* 401: a forced refresh, and then one replay.
PostRejected(p) ==
    /\ pc[p] = "post"
    /\ mem[p] <= dead[srv[p]]
    /\ ~ Replays(p)
    /\ sent' = [sent EXCEPT ![p] = mem[p]]
    /\ Goto(p, "edit_tokens")
    /\ UNCHANGED <<disk, lock, server, clock, cmd, srv, mem, snap, calls, ran, lost>>

\* A second 401 is the command's error.
ReplayRejected(p) ==
    /\ pc[p] = "post"
    /\ mem[p] <= dead[srv[p]]
    /\ Replays(p)
    /\ Quit(p)
    /\ UNCHANGED <<disk, server, clock, cmd, srv, calls, ran>>

-----------------------------------------------------------------------------
(* login and logout *)

\* exchange_code, outside any lock: the new pair exists before it is stored.
Exchange(p) ==
    /\ pc[p] = "exchange_code"
    /\ Grant(srv[p])
    /\ mem' = [mem EXCEPT ![p] = issued[srv[p]] + 1]
    /\ lost' = [lost EXCEPT ![srv[p]] = FALSE]
    /\ Goto(p, "edit_tokens")
    /\ UNCHANGED <<disk, lock, cmd, srv, snap, sent, calls, ran>>

\* The server issues a pair, and the answer is lost, unreadable or later than
\* OAUTH_TIMEOUT: the new pair is nowhere.
TokenReplyLost(p) ==
    /\ \/ pc[p] = "refresh" /\ mem[p] = live[srv[p]]
       \/ pc[p] = "exchange_code"
    /\ Grant(srv[p])
    /\ End(p, "failed")
    /\ ReleaseLock(p)
    /\ lost' = [lost EXCEPT ![srv[p]] = TRUE]
    /\ UNCHANGED <<disk, cmd, srv, calls, ran>>

\* The locked edit of config.yaml (module Contexts) ends a login, and a logout
\* that found nothing to remove.
EditConfig(p) ==
    /\ pc[p] = "config"
    /\ cmd[p] = "login" \/ mem[p] = 0
    /\ End(p, "ok")
    /\ UNCHANGED <<disk, lock, server, clock, cmd, srv, calls, ran, lost>>

\* Logout goes on to revoke what it removed.
EditConfigThenRevoke(p) ==
    /\ pc[p] = "config"
    /\ cmd[p] = "logout" /\ mem[p] # 0
    /\ Goto(p, "revoke")
    /\ UNCHANGED <<disk, lock, server, clock, cmd, srv, client, lost>>

\* The server drops the grant if the token is its current one ...
Revoke(p) ==
    /\ pc[p] = "revoke"
    /\ mem[p] = live[srv[p]]
    /\ live' = [live EXCEPT ![srv[p]] = 0]
    /\ dead' = [dead EXCEPT ![srv[p]] = issued[srv[p]]]
    /\ End(p, "ok")
    /\ UNCHANGED <<disk, lock, issued, near, cmd, srv, calls, ran, lost>>

\* ... and answers 200 to any other token as well.
RevokeUnknown(p) ==
    /\ pc[p] = "revoke"
    /\ mem[p] # live[srv[p]]
    /\ End(p, "ok")
    /\ UNCHANGED <<disk, lock, server, clock, cmd, srv, calls, ran, lost>>

\* A failed revocation is reported and tolerated: the grant stays.
RevokeFails(p) ==
    /\ pc[p] = "revoke"
    /\ End(p, "ok")
    /\ lost' = [lost EXCEPT ![srv[p]] = @ \/ Custody(p)]
    /\ UNCHANGED <<disk, lock, server, clock, cmd, srv, calls, ran>>

-----------------------------------------------------------------------------
(* Failures and the passage of time *)

\* A kill at any point, or an I/O or network error where the process is.  Its
\* lock goes with it; a rewrite it had begun stays as it is.
Fail(p) ==
    /\ pc[p] \notin Finished
    /\ Quit(p)
    /\ UNCHANGED <<disk, server, clock, cmd, srv, calls, ran>>

\* The pairs issued so far come within the refresh margin of their expiry.
Tick(s) ==
    /\ near[s] < issued[s]
    /\ near' = [near EXCEPT ![s] = issued[s]]
    /\ UNCHANGED <<disk, lock, server, dead, cmd, srv, pc, client, lost>>

\* The access tokens issued so far are rejected from now on: they expired, or
\* the server changed its secret.
Reject(s) ==
    /\ dead[s] < issued[s]
    /\ dead' = [dead EXCEPT ![s] = issued[s]]
    /\ UNCHANGED <<disk, lock, server, near, cmd, srv, pc, client, lost>>

-----------------------------------------------------------------------------
\* Steps that the process takes by itself within a bounded time: local work,
\* and OAuth requests, which carry OAUTH_TIMEOUT.
Bounded(p) == \/ Load(p)
              \/ LoadFails(p)
              \/ EnsureFresh(p)
              \/ EditTokens(p)
              \/ AdoptFresh(p)
              \/ EditTokensFails(p)
              \/ Refresh(p)
              \/ RefreshRejected(p)
              \/ BeginWrite(p)
              \/ EndWrite(p)
              \/ EditConfig(p)
              \/ EditConfigThenRevoke(p)
              \/ Revoke(p)
              \/ RevokeUnknown(p)

\* Steps that nothing forces: a user's authorization, an API call that may
\* hang for ever (no deadline by default), lost replies and failures.
Unbounded(p) == \/ Exchange(p)
                \/ PostExecuted(p)
                \/ PostThenCall(p)
                \/ PostReplyLost(p)
                \/ PostRejected(p)
                \/ ReplayRejected(p)
                \/ TokenReplyLost(p)
                \/ RevokeFails(p)
                \/ Fail(p)

Next == \/ \E p \in Proc : Bounded(p) \/ Unbounded(p)
        \/ \E s \in Server : Tick(s) \/ Reject(s)

Spec == Init /\ [][Next]_vars

Fairness == \A p \in Proc : WF_vars(Bounded(p))

FairSpec == Spec /\ Fairness

-----------------------------------------------------------------------------
(* Correctness *)

\* Every variable holds a value of its kind, and no process or file holds a
\* generation the server has not issued.
TypeOK ==
    /\ torn \in BOOLEAN
    /\ lock \in Proc \cup {NoProc}
    /\ issued \in [Server -> Nat]
    /\ file \in [Server -> Nat]
    /\ live \in [Server -> Nat]
    /\ dead \in [Server -> Nat]
    /\ near \in [Server -> Nat]
    /\ cmd \in [Proc -> Command]
    /\ srv \in [Proc -> Server]
    /\ pc \in [Proc -> Label]
    /\ mem \in [Proc -> Nat]
    /\ snap \in [Proc -> [Server -> Nat]]
    /\ sent \in [Proc -> Nat]
    /\ calls \in [Proc -> Nat]
    /\ ran \in [Proc -> Nat]
    /\ lost \in [Server -> BOOLEAN]
    /\ \A s \in Server : /\ file[s] <= issued[s]
                         /\ live[s] \in {0, issued[s]}
    /\ \A p \in Proc : mem[p] <= issued[srv[p]]
    /\ \A p \in Proc, s \in Server : snap[p][s] <= issued[s]

Critical == {"refresh", "write_locked", "writing"}

\* Read-modify-write is atomic: from the read under the lock to the end of the
\* write, across the network call in between, the process holds the lock and
\* what it read is still what the file says (edit_tokens, locked_edit).
SnapshotIsCurrent ==
    \A p \in Proc : pc[p] \in Critical => lock = p /\ snap[p] = file

\* Servers of one login at most.  It rules out two login processes of a server even
\* when one has ended before the other begins: a login replaces the grant of an
\* earlier one, whose process may still hold the older pair.  The properties that
\* name it say nothing of a server with two.
SingleLogin(s) == \A p, q \in Proc :
    (cmd[p] = "login" /\ cmd[q] = "login" /\ srv[p] = s /\ srv[q] = s) => p = q

Wrecked == torn /\ lock = NoProc

Accounted(s) == \/ live[s] = 0
                \/ lost[s]
                \/ Wrecked
                \/ file[s] = live[s]
                \/ \E p \in Proc : srv[p] = s /\ Custody(p)

\* The server's live refresh token is never orphaned by an interleaving of
\* commands: it is in the file, or with the one process that is about to store
\* or revoke it, or a failure dropped it (a file left torn counts as one).  Of
\* servers with one login process at most, see SingleLogin.
LiveTokenAccounted ==
    \A s \in Server : SingleLogin(s) => Accounted(s)

\* ... with one process only: no two commands are ever about to store or revoke
\* the same live pair (remove takes the entry out under the lock, refresh_locked
\* keeps the lock until its pair is written).
OneCarrier ==
    \A p, q \in Proc :
        srv[p] = srv[q] /\ SingleLogin(srv[p]) /\ Custody(p) /\ Custody(q) => p = q

OnlyCalls(s) == \A p \in Proc : srv[p] = s => cmd[p] = "api"

\* Processes that only make API calls never burn a dead refresh token: the one
\* a process presents is the live one unless a failure lost that.
NeverBurnsDeadToken ==
    \A p \in Proc : /\ pc[p] = "refresh"
                   /\ OnlyCalls(srv[p])
                   /\ ~ lost[srv[p]]
                   => mem[p] = live[srv[p]]

\* The replay after a 401 carries another access token than the one that was
\* rejected.
ReplayUsesNewToken ==
    \A p \in Proc : pc[p] = "post" /\ Replays(p) => mem[p] > sent[p]

\* The server executes each API call of a process at most once, replay and lost
\* answers included.
ExecutedAtMostOnce ==
    \A p \in Proc : ran[p] <= calls[p] /\ (pc[p] = "post" => ran[p] < calls[p])

\* Without a failure the file can be parsed whenever the lock is free, so a
\* command that takes the lock never meets a half-written file.  A kill in the
\* middle of the write does leave it torn: that is shown, not ruled out.
TornOnlyByFailure ==
    torn => \/ lock \in Proc /\ pc[lock] = "writing"
            \/ \E p \in Proc : pc[p] = "failed" /\ Wrecked

\* A proactive refresh rotates only what is about to expire: never a stored
\* pair that another process has just rotated.
ProactiveAdoptsFresh ==
    \A p \in Proc : pc[p] = "refresh" /\ ~ Replays(p) =>
        mem[p] <= near[srv[p]] /\ file[srv[p]] <= near[srv[p]]

\* A write never puts back an older pair than the stored one.
NeverRollsBack ==
    [][\A s \in Server : SingleLogin(s) /\ file'[s] # 0 => file'[s] >= file[s]]_vars

\* A process that waits for the lock gets it, though the holder calls the
\* server, may be killed, and others may hang in API calls.
WaiterGetsLock ==
    \A p \in Proc : pc[p] = "edit_tokens" ~> pc[p] # "edit_tokens"

\* After a 401 as well, a process that finds a newer pair in the file adopts it
\* and does not rotate again (what refresh_locked's comment says).
ForcedRefreshAdopts ==
    \A p \in Proc : pc[p] = "refresh" /\ Replays(p) => mem[p] <= sent[p]

\* No interleaving makes a command retry, wait and refresh without end: each of
\* its steps, one that executes a call included, brings it nearer its end.  It
\* has at most eleven per API call, six for a call with a proactive refresh and
\* five for the replay with a forced one, and five in a login or logout.
Ahead == [api    |-> [load |-> 7, ensure_fresh |-> 6, edit_tokens |-> 5, refresh |-> 4,
                      write_locked |-> 3, writing |-> 2, post |-> 1],
          login  |-> [exchange_code |-> 5, edit_tokens |-> 4, write_locked |-> 3,
                      writing |-> 2, config |-> 1],
          logout |-> [edit_tokens |-> 5, write_locked |-> 4, writing |-> 3,
                      config |-> 2, revoke |-> 1]]

ReplayAhead(p) == IF cmd[p] = "api" /\ sent[p] = 0 THEN 5 ELSE 0
CallsAhead(p) == IF cmd[p] = "api" THEN 11 * (MaxCalls[p] - calls[p]) ELSE 0
StepsLeft(p) == IF pc[p] \in Finished THEN 0
                ELSE Ahead[cmd[p]][pc[p]] + ReplayAhead(p) + CallsAhead(p)

CommandsAdvance ==
    [][\A p \in Proc : pc'[p] # pc[p] \/ ran'[p] # ran[p] =>
          StepsLeft(p)' \in 0 .. StepsLeft(p) - 1]_vars

\* Once a logout has succeeded and nobody logs in, no credentials are stored
\* (what the README's row for logout says).
LogoutSticks ==
    \A p \in Proc :
        /\ cmd[p] = "logout" /\ pc[p] = "ok"
        /\ \A q \in Proc : cmd[q] = "login" => srv[q] # srv[p]
        => file[srv[p]] = 0

-----------------------------------------------------------------------------
(* The abstract specification *)

Place(s) == CASE live[s] = 0                      -> "none"
              [] live[s] # 0 /\ (lost[s] \/ Wrecked) -> "lost"
              [] live[s] # 0 /\ ~ lost[s] /\ ~ Wrecked ->
                   IF file[s] = live[s] THEN "stored" ELSE "carried"

Cred == INSTANCE SharedCredential WITH
    contended <- {s \in Server : ~ SingleLogin(s)},
    stored <- file,
    place <- [s \in Server |-> Place(s)]

\* Locks, refreshes, logins, logouts and failures amount to what
\* SharedCredential allows: a live pair leaves the store only when it is
\* replaced, taken out by a logout or lost with the file.
CredentialRefined == Cred!Spec

\* Under fairness a pair that only one process holds does not stay there: it
\* is stored, revoked or lost, whatever the other processes do.
CarriedSettles ==
    \A s \in Server :
        SingleLogin(s) /\ Place(s) = "carried" ~> Place(s) # "carried"

-----------------------------------------------------------------------------
(* The inductive invariant behind the theorems of TokenStoreProofs *)

\* The lock, the critical section and the half-written file go together.
LockInv ==
    /\ \A p \in Proc : lock = p <=> pc[p] \in Critical
    /\ \A p \in Proc : pc[p] \in Critical => snap[p] = file
    /\ \A p \in Proc : pc[p] = "writing" => torn
    /\ torn /\ lock # NoProc => pc[lock] = "writing"
    /\ Wrecked => \E p \in Proc : pc[p] = "failed"

\* Where each command can be, and where it has credentials in memory.
Calling == {"ensure_fresh", "edit_tokens", "refresh", "write_locked", "writing",
            "post"}

RoleInv == \A p \in Proc :
    /\ pc[p] \in {"load", "ensure_fresh", "refresh", "post"} => cmd[p] = "api"
    /\ pc[p] = "exchange_code" => cmd[p] = "login"
    /\ pc[p] = "config" => cmd[p] # "api"
    /\ pc[p] = "revoke" => cmd[p] = "logout"
    /\ cmd[p] = "api" /\ pc[p] \in Calling => mem[p] # 0
    /\ cmd[p] = "login" /\ pc[p] \in CustodyAt.login => mem[p] # 0

\* The progress of an API call: what was rejected, what was executed.
CallInv == \A p \in Proc :
    /\ sent[p] <= issued[srv[p]]
    /\ pc[p] = "load" => ran[p] = 0
    /\ cmd[p] # "api" => sent[p] = 0
    /\ pc[p] \in {"load", "ensure_fresh"} => sent[p] = 0
    /\ pc[p] \in {"write_locked", "writing", "post"} /\ sent[p] # 0
           => mem[p] > sent[p]
    /\ ran[p] <= calls[p]
    /\ cmd[p] = "api" /\ pc[p] \in Calling => ran[p] < calls[p]

\* What a process under the lock works on, relative to the file.
RefreshInv == \A p \in Proc :
    /\ pc[p] = "refresh" /\ file[srv[p]] # 0 => mem[p] = file[srv[p]]
    /\ pc[p] = "refresh" /\ sent[p] = 0 => mem[p] <= near[srv[p]]
    /\ cmd[p] = "api" /\ pc[p] \in CustodyAt.api => mem[p] > file[srv[p]]
    /\ cmd[p] = "logout" /\ pc[p] \in {"write_locked", "writing"}
           => mem[p] = file[srv[p]]

HasLogin(s) == \E q \in Proc :
    cmd[q] = "login" /\ srv[q] = s /\ pc[q] \in CustodyAt.login

\* A login's new pair is the live one and known to nobody else until stored.
LoginInv == \A p \in Proc :
    SingleLogin(srv[p]) /\ cmd[p] = "login" /\ pc[p] \in CustodyAt.login =>
        /\ mem[p] = live[srv[p]]
        /\ file[srv[p]] # mem[p]
        /\ \A q \in Proc \ {p} : srv[q] = srv[p] => mem[q] # mem[p]

\* What a refresh is about to store is live, unless a login replaced it since,
\* a logout revoked it or a failure lost its successor.
WriterInv == \A p \in Proc :
    SingleLogin(srv[p]) /\ cmd[p] = "api" /\ pc[p] \in CustodyAt.api =>
        \/ mem[p] = live[srv[p]]
        \/ live[srv[p]] = 0
        \/ lost[srv[p]]
        \/ HasLogin(srv[p])

\* Where only API calls are made, a server that granted anything has a live
\* grant, and the file an entry for it.
OnlyCallsInv == \A s \in Server : OnlyCalls(s) =>
    live[s] = issued[s] /\ (issued[s] # 0 => file[s] # 0)

SafetyInv == /\ LockInv
             /\ RoleInv
             /\ CallInv
             /\ RefreshInv
             /\ LoginInv
             /\ WriterInv
             /\ OnlyCallsInv
             /\ LiveTokenAccounted

-----------------------------------------------------------------------------
\* The part of the invariant that only the refinement needs: what a logout has
\* taken out does not come back, and is older than what a refresh is storing.
Revoking(p) == cmd[p] = "logout" /\ pc[p] \in CustodyAt.logout
Storing(p) == cmd[p] = "api" /\ pc[p] \in CustodyAt.api

CarrierInv ==
    /\ \A p \in Proc : Revoking(p) /\ mem[p] # 0 /\ SingleLogin(srv[p])
           => file[srv[p]] # mem[p]
    /\ \A p, q \in Proc : Revoking(p) /\ Storing(q) /\ srv[p] = srv[q]
           => mem[p] < mem[q]
    /\ \A q \in Proc : Storing(q) => live[srv[q]] # 0

\* A pair is with one process at most, and one that a failure has lost is
\* neither in the file nor with anybody.
LostInv == \A s \in Server : SingleLogin(s) =>
    /\ \A p, q \in Proc :
          /\ p # q /\ srv[p] = s /\ srv[q] = s
          /\ Revoking(p) /\ Revoking(q) /\ mem[p] # 0
          => mem[p] # mem[q]
    /\ lost[s] /\ live[s] # 0 =>
          /\ file[s] # live[s]
          /\ \A p \in Proc : srv[p] = s => ~ Custody(p)
=============================================================================
