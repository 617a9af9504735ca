------------------------------- MODULE Contexts -------------------------------
(***************************************************************************)
(* Which servers bbcli knows, and which one a command works on: the keys of *)
(* tokens.json and the contexts of config.yaml.  login, logout and `config  *)
(* use` edit one file after the other, each under that file's own lock;     *)
(* every command that picks a server reads config.yaml without the lock and *)
(* tokens.json later.  Commands of several processes interleave in between. *)
(*                                                                          *)
(* The locked edit of tokens.json is one step here (TokenStoreProofs proves *)
(* it atomic); that of config.yaml is a read, a write over the old bytes    *)
(* and a truncation, since config.yaml is this module's subject.            *)
(***************************************************************************)
EXTENDS Naturals

CONSTANTS
    Proc,      \* bbcli processes
    Server,    \* normalized server URLs
    Name,      \* context names
    Default,   \* the name an unnamed login uses
    NoName,    \* current-context: ""
    NoServer,  \* the target of a name that is no context
    NoProc     \* the holder of a free lock

ASSUME NamesAssumption == Default \in Name /\ NoName \notin Name
ASSUME ServersAssumption == NoServer \notin Server /\ Name \cap Server = {}
ASSUME NoProcAssumption == NoProc \notin Proc

CONFIG_VERSION == 1

VARIABLES
    creds,   \* servers with an entry in tokens.json
    config,  \* config.yaml as last written: [version, current, contexts]
    torn,    \* TRUE once a failed write has left bytes that do not parse
    lock,    \* holder of the lock on config.yaml
    pc,      \* where the process is in its command
    job,     \* what the process does: [cmd, on (a server or a name), name]
    seen,    \* `config use`: keys of tokens.json as read at its start
    read,    \* config.yaml as parsed under the lock
    raced,   \* history: servers two commands edited at the same time
    broken,  \* history: servers an edit failed on half-way
    overtaken  \* history: processes whose server was logged out under them

files == <<creds, config, torn>>
history == <<raced, broken, overtaken>>
vars == <<creds, config, torn, lock, pc, job, seen, read, raced, broken, overtaken>>

NoContexts == [n \in Name |-> NoServer]
EmptyConfig == [version |-> 0, current |-> NoName, contexts |-> NoContexts]
NoJob == [cmd |-> "none", on |-> NoServer, name |-> NoName]

Config == [version : Nat, current : Name \cup {NoName},
           contexts : [Name -> Server \cup {NoServer}]]
Job == [cmd : {"none", "api", "login", "logout", "use"},
        on : Server \cup Name \cup {NoServer}, name : Name \cup {NoName}]

\* No file yet, or one that a newer bbcli has written.
Init == /\ creds = {}
        /\ config \in [version : {0, CONFIG_VERSION + 1}, current : {NoName},
                       contexts : {NoContexts}]
        /\ torn = FALSE
        /\ lock = NoProc
        /\ pc = [p \in Proc |-> "idle"]
        /\ job = [p \in Proc |-> NoJob]
        /\ seen = [p \in Proc |-> {}]
        /\ read = [p \in Proc |-> EmptyConfig]
        /\ raced = {}
        /\ broken = {}
        /\ overtaken = {}

-----------------------------------------------------------------------------
\* default_server_from: the target of the active context, if there is one.
DefaultServer(c) == IF c.current = NoName THEN NoServer
                                          ELSE c.contexts[c.current]

\* load_config refuses a file of a newer version.
Loads(c) == c.version <= CONFIG_VERSION

Editing == {"config", "write", "writing"}
InFlight(s) == {p \in Proc : pc[p] \in Editing /\ job[p].on = s}
LoggingOut(s) == {p \in InFlight(s) : job[p].cmd = "logout"}

Goto(p, l) == pc' = [pc EXCEPT ![p] = l]

\* An edit of both files begins with tokens.json.
BeginEdit(p, s) == /\ Goto(p, "config")
                   /\ raced' = IF InFlight(s) = {} THEN raced
                                                  ELSE raced \cup ({s} \cap Server)

\* A login that has its tokens stores them; its --context is taken as a URL.
Login(p, s, n) ==
    /\ pc[p] = "idle"
    /\ job' = [job EXCEPT ![p] = [cmd |-> "login", on |-> s, name |-> n]]
    /\ creds' = creds \cup {s}
    /\ BeginEdit(p, s)
    /\ UNCHANGED <<config, torn, lock, seen, read, broken, overtaken>>

\* `config use` reads tokens.json before it takes the lock on config.yaml.
Use(p, target) ==
    /\ pc[p] = "idle"
    /\ job' = [job EXCEPT ![p] = [cmd |-> "use", on |-> target, name |-> NoName]]
    /\ seen' = [seen EXCEPT ![p] = creds]
    /\ BeginEdit(p, target)
    /\ UNCHANGED <<files, lock, read, broken, overtaken>>

-----------------------------------------------------------------------------
(* Server selection *)

Selectors == Name \cup Server \cup {NoName}

\* --context or BBCLI_SERVER, then the nearest .bbcli file, then the default.
Selector(explicit, project) == IF explicit # NoName THEN explicit ELSE project

\* resolve_server on the contents c: the context used, if any, and the server.
\* A name that is no context passes for a URL, of a server nobody knows.
Resolved(c, sel) ==
    LET name == IF sel = NoName THEN c.current ELSE sel
    IN IF name \in Name /\ c.contexts[name] # NoServer
         THEN [on |-> c.contexts[name], name |-> name]
         ELSE [on |-> IF sel \in Server THEN sel ELSE NoServer, name |-> NoName]

\* New contents written over longer old ones are followed by the rest of the
\* old until set_len: what parses at all may bring removed contexts back.
Tailed(old, new) ==
    {[new EXCEPT !.contexts = [n \in Name |->
          IF new.contexts[n] = NoServer /\ n \in back THEN old.contexts[n]
                                                     ELSE new.contexts[n]]]
        : back \in SUBSET Name}

\* What a read without the lock may find, when it does not fail.
Readable == IF \E p \in Proc : pc[p] = "writing" THEN Tailed(read[lock], config)
                                                ELSE {config}

\* Commands that call the API, and logout, first pick their server.  One that
\* cannot (nothing configured, a file that does not parse or is newer) ends.
Select(p, cmd, sel) ==
    /\ pc[p] = "idle"
    /\ ~ torn
    /\ \E c \in Readable :
        LET r == Resolved(c, sel) IN
        /\ Loads(c)
        /\ sel = NoName => r.on # NoServer
        /\ job' = [job EXCEPT ![p] = [cmd |-> cmd, on |-> r.on, name |-> r.name]]
        /\ overtaken' = IF LoggingOut(r.on) = {} THEN overtaken \ {p}
                                                ELSE overtaken \cup {p}
    /\ Goto(p, "selected")
    /\ UNCHANGED <<files, lock, seen, read, raced, broken>>

\* Logout removes the credentials of the server it picked.
RemoveCreds(p) ==
    /\ pc[p] = "selected"
    /\ job[p].cmd = "logout"
    /\ creds' = creds \ {job[p].on}
    /\ BeginEdit(p, job[p].on)
    /\ overtaken' = (overtaken \ {p}) \cup
           {q \in Proc \ {p} : pc[q] = "selected" /\ job[q].on = job[p].on}
    /\ UNCHANGED <<config, torn, lock, job, seen, read, broken>>

-----------------------------------------------------------------------------
(* What an edit of config.yaml makes of the contents c it read: the set of   *)
(* possible results, empty when the command bails out.                       *)

Inserted(c, n, s) == [version |-> CONFIG_VERSION, current |-> n,
                      contexts |-> [c.contexts EXCEPT ![n] = s]]

SaveContext(p, c) == {Inserted(c, job[p].name, job[p].on)}

DropKeepsCurrent(p, c) ==
    {[version |-> CONFIG_VERSION,
      contexts |-> [n \in Name |-> IF c.contexts[n] = job[p].on THEN NoServer
                                   ELSE c.contexts[n]],
      current |-> c.current]}
DropFirst(p, c) ==
    LET n == CHOOSE m \in Name : c.contexts[m] = job[p].on
    IN IF \E m \in Name : c.contexts[m] = job[p].on
         THEN {[version |-> CONFIG_VERSION,
                contexts |-> [c.contexts EXCEPT ![n] = NoServer],
                current |-> IF c.current = n THEN NoName ELSE c.current]}
         ELSE {c}
DropContexts(p, c) ==
    LET kept == [n \in Name |-> IF c.contexts[n] = job[p].on THEN NoServer
                                ELSE c.contexts[n]]
        active == c.current # NoName /\ kept[c.current] # NoServer
    IN {[version |-> CONFIG_VERSION, contexts |-> kept,
         current |-> IF active THEN c.current ELSE NoName]}

\* A context's name is activated as it is.  A URL needs credentials; it takes
\* any one context that points at it (map order), or else "default".
UseContext(p, c) ==
    LET t == job[p].on
        pointing == {n \in Name : c.contexts[n] = t}
    IN CASE t \in Name /\ c.contexts[t] # NoServer ->
              {Inserted(c, t, c.contexts[t])}
         [] t \in seen[p] ->
              {Inserted(c, n, t) : n \in IF pointing = {} THEN {Default} ELSE pointing}
         [] OTHER -> {}

Edited(p, c) == CASE job[p].cmd = "login"  -> SaveContext(p, c)
                  [] job[p].cmd = "logout" -> DropContexts(p, c)
                  [] job[p].cmd = "use"    -> UseContext(p, c)

-----------------------------------------------------------------------------
Finish(p) == /\ Goto(p, "idle")
             /\ job' = [job EXCEPT ![p] = NoJob]
             /\ seen' = [seen EXCEPT ![p] = {}]
             /\ read' = [read EXCEPT ![p] = EmptyConfig]
             /\ lock' = IF lock = p THEN NoProc ELSE lock

MayLockAlways == TRUE
MayLock == lock = NoProc

\* take_lock and read_locked.
ReadConfigLenient(p) ==
    /\ pc[p] = "config"
    /\ MayLock
    /\ lock' = p
    /\ read' = [read EXCEPT ![p] = IF torn THEN EmptyConfig ELSE config]
    /\ Goto(p, "write")
    /\ UNCHANGED <<files, job, seen, history>>
ReadConfig(p) ==
    /\ pc[p] = "config"
    /\ MayLock
    /\ ~ torn
    /\ lock' = p
    /\ read' = [read EXCEPT ![p] = config]
    /\ Goto(p, "write")
    /\ UNCHANGED <<files, job, seen, history>>

\* write_locked: the new contents go over the old ones ...
WriteConfig(p) ==
    /\ pc[p] = "write"
    /\ config' \in Edited(p, read[p])
    /\ Goto(p, "writing")
    /\ UNCHANGED <<creds, torn, lock, job, seen, read, history>>

\* ... and set_len cuts what is left of them.
TruncateNothing(p) ==
    /\ pc[p] = "writing"
    /\ config' \in Tailed(read[p], config)
    /\ Finish(p)
    /\ UNCHANGED <<creds, torn, history>>
Truncate(p) ==
    /\ pc[p] = "writing"
    /\ Finish(p)
    /\ UNCHANGED <<files, history>>

\* The edit bails out: nothing is written.
Bail(p) ==
    /\ pc[p] = "write"
    /\ Edited(p, read[p]) = {}
    /\ Finish(p)
    /\ UNCHANGED <<files, history>>

\* ApiClient::load finds the credentials or says "not logged in"; what the
\* command does with them is module TokenStore.
Load(p) ==
    /\ pc[p] = "selected"
    /\ job[p].cmd = "api"
    /\ Finish(p)
    /\ UNCHANGED <<files, history>>

\* A kill, an I/O error, or a config.yaml that does not parse, after the edit
\* of tokens.json.
Fail(p) ==
    /\ pc[p] \in {"config", "write"}
    /\ broken' = broken \cup ({job[p].on} \cap Server)
    /\ Finish(p)
    /\ UNCHANGED <<files, raced, overtaken>>

\* The same between the write and the truncation: what is left on the disk
\* parses or does not.
FailTorn(p) ==
    /\ pc[p] = "writing"
    /\ \/ torn' = TRUE /\ config' = config
       \/ torn' = torn /\ config' \in Tailed(read[p], config)
    /\ broken' = broken \cup ({job[p].on} \cap Server)
    /\ Finish(p)
    /\ UNCHANGED <<creds, raced, overtaken>>

Next == \E p \in Proc :
    \/ \E s \in Server, n \in Name : Login(p, s, n)
    \/ \E t \in Server \cup Name : Use(p, t)
    \/ \E cmd \in {"api", "logout"}, explicit, project \in Selectors :
           Select(p, cmd, Selector(explicit, project))
    \/ RemoveCreds(p)
    \/ Load(p)
    \/ ReadConfig(p)
    \/ WriteConfig(p)
    \/ Truncate(p)
    \/ Bail(p)
    \/ Fail(p)
    \/ FailTorn(p)

Spec == Init /\ [][Next]_vars

-----------------------------------------------------------------------------
(* Correctness *)

\* Every variable holds a value of its kind, and a process has read config.yaml
\* exactly while it holds the lock.
TypeOK ==
    /\ creds \subseteq Server
    /\ config \in Config
    /\ lock \in Proc \cup {NoProc}
    /\ torn \in BOOLEAN
    /\ pc \in [Proc -> {"idle", "selected"} \cup Editing]
    /\ job \in [Proc -> Job]
    /\ seen \in [Proc -> SUBSET Server]
    /\ read \in [Proc -> Config]
    /\ raced \subseteq Server
    /\ broken \subseteq Server
    /\ overtaken \subseteq Proc
    /\ \A p \in Proc : pc[p] \in {"write", "writing"} <=> lock = p

\* The active context, if any, exists: commands that resolve the default server
\* never follow a name that is gone.
ActiveContextExists ==
    config.current # NoName => config.contexts[config.current] # NoServer

Dangling(s) == s \notin creds /\ \E n \in Name : config.contexts[n] = s

\* A context without credentials comes only from a logout that is not done yet,
\* from two edits of its server at the same time or from one that failed
\* between the two files or within config.yaml.
NoDanglingContext ==
    \A s \in Server \ (raced \cup broken) : LoggingOut(s) = {} => ~ Dangling(s)

\* A command that picked its server by a context, unlocked and perhaps in the
\* middle of another's write, finds it logged in, unless a logout of it was
\* under way or came since (or one of the cases above).
SelectedIsLoggedIn ==
    \A p \in Proc :
        /\ pc[p] = "selected" /\ job[p].name # NoName
        /\ p \notin overtaken
        /\ job[p].on \notin raced \cup broken
        => job[p].on \in creds

\* Concurrent commands do not clobber each other's contexts: a write changes
\* only contexts its own command is about, and so does a failed one.
About(p, n) == \/ job[p].cmd = "login" /\ job[p].name = n
               \/ job[p].cmd = "logout" /\ job[p].on \in {config.contexts[n],
                                                          config'.contexts[n]}
               \/ job[p].cmd = "use" /\ config'.contexts[n] = job[p].on

ContextsKept ==
    [][\A n \in Name : config'.contexts[n] # config.contexts[n] =>
          \E p \in Proc : lock = p /\ About(p, n)]_vars

\* The default server moves only to the server of a login or a `config use`, and
\* is given up only by a logout of it: no other command, no failure and no
\* stale write sends later commands elsewhere.
Goal(p) == IF job[p].on \in Name THEN config.contexts[job[p].on] ELSE job[p].on

DefaultMovesOnPurpose ==
    [][DefaultServer(config') # DefaultServer(config) =>
          \E p \in Proc :
              /\ lock = p
              /\ IF job[p].cmd = "logout"
                   THEN /\ DefaultServer(config) = job[p].on
                        /\ DefaultServer(config') = NoServer
                   ELSE DefaultServer(config') = Goal(p)]_vars

\* What the comment on store::remove says: no context references missing
\* credentials (once every command has ended, and none has failed).
ContextsHaveCredentials ==
    (\A p \in Proc : pc[p] = "idle") /\ broken = {} =>
        \A s \in Server : ~ Dangling(s)

-----------------------------------------------------------------------------
(* Contexts implements ServerRegistry: a server is leaving while a logout has *)
(* still to drop its contexts, and the version, the locks and the half-written *)
(* states are hidden.                                                          *)

Leaving == {s \in Server : \E p \in LoggingOut(s) : pc[p] \in {"config", "write"}}

Registry == INSTANCE ServerRegistry WITH
    known <- creds,
    contexts <- config.contexts,
    active <- config.current,
    leaving <- Leaving,
    doubtful <- raced \cup broken,
    whole <- ~ torn

\* For all that several processes edit two files one after the other, every
\* login, logout and `config use` has, on the servers that no two commands met
\* and none failed on, the effect of single steps on one registry.
RegistryRefined == Registry!Spec

-----------------------------------------------------------------------------
(* The inductive invariant behind the theorems of ContextsProofs *)

\* What each command works on, and with what name.
JobInv == \A p \in Proc :
    /\ pc[p] = "selected" =>
          /\ job[p].cmd \in {"api", "logout"}
          /\ job[p].on \in Server \cup {NoServer}
          /\ job[p].name # NoName => job[p].on \in Server
    /\ pc[p] \in Editing =>
          \/ job[p].cmd = "login" /\ job[p].on \in Server /\ job[p].name \in Name
          \/ job[p].cmd = "logout" /\ job[p].on \in Server \cup {NoServer}
          \/ job[p].cmd = "use" /\ job[p].on \in Server \cup Name

\* The holder of the lock works on what the file says, until it has written.
ReadInv == \A p \in Proc :
    /\ pc[p] = "write" => read[p] = config
    /\ pc[p] = "writing" => config \in Edited(p, read[p])

\* A login or `config use` on its way to config.yaml is of a logged-in server,
\* unless a logout of it came between.
PointsAtCreds(p) == /\ job[p].on \in Server \ raced
                    /\ \/ job[p].cmd = "login"
                       \/ job[p].cmd = "use" /\ job[p].on \in seen[p]

CredsInv == \A p \in Proc :
    pc[p] \in Editing /\ PointsAtCreds(p) => job[p].on \in creds

\* A context without credentials is still to be dropped by the logout.
DanglingInv ==
    \A s \in Server \ (raced \cup broken) : Dangling(s) =>
        \E p \in LoggingOut(s) : pc[p] \in {"config", "write"}

SafetyInv == /\ JobInv
             /\ ReadInv
             /\ CredsInv
             /\ DanglingInv
             /\ ActiveContextExists
             /\ SelectedIsLoggedIn
=============================================================================
