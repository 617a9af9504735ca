---------------------------- MODULE ContextsProofs ----------------------------
(* Theorems about Contexts, for every set of processes, servers and names. *)
EXTENDS Contexts, TLAPS

(***************************************************************************)
(* What the operators on config.yaml do.                                   *)
(***************************************************************************)
Active(c) == c.current # NoName => c.contexts[c.current] # NoServer

\* A file with a tail says the same, except for contexts it may bring back.
LEMMA TailedFacts ==
  ASSUME NEW old \in Config, NEW new \in Config, NEW c \in Tailed(old, new)
  PROVE  /\ c \in Config
         /\ c.version = new.version /\ c.current = new.current
         /\ \A n \in Name : \/ c.contexts[n] = new.contexts[n]
                            \/ new.contexts[n] = NoServer /\ c.contexts[n] = old.contexts[n]
<1>1. PICK back \in SUBSET Name :
        c = [new EXCEPT !.contexts = [n \in Name |->
                IF new.contexts[n] = NoServer /\ n \in back THEN old.contexts[n]
                                                           ELSE new.contexts[n]]]
  BY DEF Tailed
<1> DEFINE both == [n \in Name |-> IF new.contexts[n] = NoServer /\ n \in back
                                     THEN old.contexts[n] ELSE new.contexts[n]]
<1>2. /\ c.version = new.version /\ c.current = new.current
      /\ c.contexts = both
  BY <1>1 DEF Config
<1>3. both \in [Name -> Server \cup {NoServer}]
  BY DEF Config
<1>4. c = [version |-> new.version, current |-> new.current, contexts |-> both]
  BY <1>1 DEF Config
<1>5. c \in Config
  BY <1>3, <1>4 DEF Config
<1> QED
  BY <1>2, <1>5

\* An edit yields a whole file whose active context exists, and changes only
\* contexts its command is about.
LEMMA EditedFacts ==
  ASSUME JobInv, NEW p \in Proc, pc[p] \in Editing, seen[p] \subseteq Server,
         NEW c \in Config, NEW d \in Edited(p, c)
  PROVE  /\ d \in Config /\ Active(d)
         /\ job[p].cmd = "login" => \A n \in Name :
               d.contexts[n] # c.contexts[n] => n = job[p].name /\ d.contexts[n] = job[p].on
         /\ job[p].cmd = "logout" => \A n \in Name :
               IF c.contexts[n] = job[p].on THEN d.contexts[n] = NoServer
                                            ELSE d.contexts[n] = c.contexts[n]
         /\ job[p].cmd = "use" => \A n \in Name :
               d.contexts[n] # c.contexts[n] =>
                  job[p].on \in seen[p] /\ d.contexts[n] = job[p].on
         /\ job[p].cmd = "logout" /\ Active(c) /\ DefaultServer(d) # DefaultServer(c) =>
               DefaultServer(c) = job[p].on /\ DefaultServer(d) = NoServer
         /\ job[p].cmd # "logout" =>
               DefaultServer(d) = IF job[p].on \in Name THEN c.contexts[job[p].on] ELSE job[p].on
<1> USE NamesAssumption, ServersAssumption DEF Config, Active, DefaultServer, CONFIG_VERSION
<1>0. /\ NoName \notin Name /\ Default \in Name
      /\ NoServer \notin Server /\ Name \cap Server = {}
  OBVIOUS
<1>1. CASE job[p].cmd = "login"
  <2>1. job[p].on \in Server /\ job[p].name \in Name
    BY <1>1 DEF JobInv
  <2>2. d = Inserted(c, job[p].name, job[p].on)
    BY <1>1 DEF Edited, SaveContext
  <2> QED
    BY <1>0, <1>1, <2>1, <2>2 DEF Inserted
<1>2. CASE job[p].cmd = "logout"
  <2> DEFINE kept == [n \in Name |-> IF c.contexts[n] = job[p].on THEN NoServer
                                    ELSE c.contexts[n]]
             active == c.current # NoName /\ kept[c.current] # NoServer
  <2>1. d = [version |-> CONFIG_VERSION, contexts |-> kept,
             current |-> IF active THEN c.current ELSE NoName]
    BY <1>2 DEF Edited, DropContexts
  <2>2. kept \in [Name -> Server \cup {NoServer}]
    OBVIOUS
  <2>3. d \in Config /\ Active(d)
    BY <2>1, <2>2
  <2>4. \A n \in Name : IF c.contexts[n] = job[p].on THEN d.contexts[n] = NoServer
                                            ELSE d.contexts[n] = c.contexts[n]
    BY <2>1
  <2>5. Active(c) /\ DefaultServer(d) # DefaultServer(c) =>
               DefaultServer(c) = job[p].on /\ DefaultServer(d) = NoServer
    BY <2>1
  <2> QED
    BY <1>2, <2>3, <2>4, <2>5
<1>3. CASE job[p].cmd = "use"
  <2> DEFINE t == job[p].on
             pointing == {n \in Name : c.contexts[n] = t}
  <2>1. t \in Server \cup Name
    BY <1>3 DEF JobInv
  <2>2. CASE t \in Name /\ c.contexts[t] # NoServer
    <3>1. d = Inserted(c, t, c.contexts[t])
      BY <1>3, <2>2 DEF Edited, UseContext
    <3> QED
      BY <1>0, <1>3, <2>2, <3>1 DEF Inserted
  <2>3. CASE ~ (t \in Name /\ c.contexts[t] # NoServer) /\ t \in seen[p]
    <3>1. t \in Server /\ t \notin Name
      BY <1>0, <2>3
    <3>2. PICK n \in Name : d = Inserted(c, n, t)
      BY <1>0, <1>3, <2>3 DEF Edited, UseContext
    <3> QED
      BY <1>0, <1>3, <2>3, <3>1, <3>2 DEF Inserted
  <2>4. CASE ~ (t \in Name /\ c.contexts[t] # NoServer) /\ t \notin seen[p]
    BY <1>3, <2>4 DEF Edited, UseContext
  <2> QED
    BY <2>2, <2>3, <2>4
<1> QED
  BY <1>1, <1>2, <1>3 DEF JobInv

-----------------------------------------------------------------------------
(***************************************************************************)
(* Types and jobs.                                                         *)
(***************************************************************************)
LEMMA InitType == Init => TypeOK /\ JobInv
<1> SUFFICES ASSUME Init PROVE TypeOK /\ JobInv
  OBVIOUS
<1>1. NoJob \in Job
  BY DEF NoJob, Job
<1>2. EmptyConfig \in Config /\ config \in Config
  BY DEF Init, EmptyConfig, NoContexts, Config, CONFIG_VERSION
<1>3. TypeOK
  BY <1>1, <1>2, NoProcAssumption DEF Init, TypeOK
<1>4. JobInv
  BY DEF Init, JobInv, Editing
<1> QED
  BY <1>3, <1>4

\* The end of a command leaves well-typed blanks.
LEMMA FinishType ==
  ASSUME TypeOK, NEW p \in Proc, Finish(p)
  PROVE  /\ lock' \in Proc \cup {NoProc}
         /\ pc' \in [Proc -> {"idle", "selected"} \cup Editing]
         /\ job' \in [Proc -> Job]
         /\ seen' \in [Proc -> SUBSET Server]
         /\ read' \in [Proc -> Config]
         /\ \A q \in Proc : pc'[q] \in {"write", "writing"} <=> lock' = q
<1>1. NoJob \in Job /\ EmptyConfig \in Config
  BY DEF NoJob, Job, EmptyConfig, NoContexts, Config
<1> QED
  BY <1>1, NoProcAssumption DEF TypeOK, Finish, Goto

\* What the selection finds is a server or none; by a context it is a server.
LEMMA ResolvedFacts ==
  ASSUME NEW c \in Config, NEW sel \in Selectors
  PROVE  LET r == Resolved(c, sel) IN
         /\ r.on \in Server \cup {NoServer}
         /\ r.name \in Name \cup {NoName}
         /\ r.name # NoName => /\ r.on \in Server /\ r.name \in Name
                               /\ c.contexts[r.name] = r.on
<1> DEFINE name == IF sel = NoName THEN c.current ELSE sel
<1>1. CASE name \in Name /\ c.contexts[name] # NoServer
  <2>1. Resolved(c, sel) = [on |-> c.contexts[name], name |-> name]
    BY <1>1 DEF Resolved
  <2> QED
    BY <1>1, <2>1 DEF Config
<1>2. CASE ~ (name \in Name /\ c.contexts[name] # NoServer)
  <2>1. Resolved(c, sel) = [on |-> IF sel \in Server THEN sel ELSE NoServer,
                            name |-> NoName]
    BY <1>2 DEF Resolved
  <2> QED
    BY <2>1
<1> QED
  BY <1>1, <1>2

LEMMA ReadableFacts ==
  ASSUME TypeOK, NEW c \in Readable
  PROVE  /\ c \in Config
         /\ \/ c = config
            \/ /\ lock \in Proc /\ pc[lock] = "writing"
               /\ c \in Tailed(read[lock], config)
<1>1. CASE \E p \in Proc : pc[p] = "writing"
  <2>1. PICK p \in Proc : pc[p] = "writing"
    BY <1>1
  <2>2. lock = p /\ c \in Tailed(read[lock], config)
    BY <1>1, <2>1 DEF TypeOK, Readable
  <2>3. c \in Config
    BY <2>2, TailedFacts DEF TypeOK
  <2> QED
    BY <2>1, <2>2, <2>3
<1>2. CASE ~ \E p \in Proc : pc[p] = "writing"
  BY <1>2 DEF TypeOK, Readable
<1> QED
  BY <1>1, <1>2

\* What p makes of the contents c it reads.
Picks(p, cmd, sel, c) ==
    LET r == Resolved(c, sel) IN
    /\ job' = [job EXCEPT ![p] = [cmd |-> cmd, on |-> r.on, name |-> r.name]]
    /\ overtaken' = IF LoggingOut(r.on) = {} THEN overtaken \ {p}
                                            ELSE overtaken \cup {p}
    /\ [cmd |-> cmd, on |-> r.on, name |-> r.name] \in Job
    /\ r.on \in Server \cup {NoServer}
    /\ r.name # NoName => r.on \in Server /\ r.name \in Name /\ c.contexts[r.name] = r.on

LEMMA SelectJob ==
  ASSUME TypeOK, NEW p \in Proc, NEW cmd \in {"api", "logout"},
         NEW sel \in Selectors, Select(p, cmd, sel)
  PROVE  \E c \in Readable : Picks(p, cmd, sel, c)
<1>1. PICK c \in Readable :
         LET r == Resolved(c, sel) IN
         /\ job' = [job EXCEPT ![p] = [cmd |-> cmd, on |-> r.on, name |-> r.name]]
         /\ overtaken' = IF LoggingOut(r.on) = {} THEN overtaken \ {p}
                                                 ELSE overtaken \cup {p}
  BY DEF Select
<1>2. c \in Config
  BY ReadableFacts
<1>3. LET r == Resolved(c, sel) IN
         /\ r.on \in Server \cup {NoServer}
         /\ r.name \in Name \cup {NoName}
         /\ r.name # NoName => r.on \in Server /\ r.name \in Name /\ c.contexts[r.name] = r.on
  BY <1>2, ResolvedFacts
<1> QED
  <2>1. [cmd |-> cmd, on |-> Resolved(c, sel).on, name |-> Resolved(c, sel).name] \in Job
    BY <1>3 DEF Job
  <2> QED
    BY <1>1, <1>3, <2>1 DEF Picks

LEMMA SelectorIsOne ==
  ASSUME NEW e \in Selectors, NEW f \in Selectors PROVE Selector(e, f) \in Selectors
BY DEF Selector

LEMMA NextJob == TypeOK /\ JobInv /\ [Next]_vars => JobInv'
<1> SUFFICES ASSUME TypeOK, JobInv, [Next]_vars PROVE JobInv'
  OBVIOUS
<1> USE DEF TypeOK, files, history, Goto, BeginEdit, Editing
<1>1. ASSUME NEW p \in Proc, NEW s \in Server, NEW n \in Name, Login(p, s, n)
      PROVE  JobInv'
  BY <1>1 DEF Login, JobInv
<1>2. ASSUME NEW p \in Proc, NEW t \in Server \cup Name, Use(p, t) PROVE JobInv'
  BY <1>2 DEF Use, JobInv
<1>3. ASSUME NEW p \in Proc, NEW cmd \in {"api", "logout"}, NEW sel \in Selectors,
             Select(p, cmd, sel)
      PROVE  JobInv'
  <2>1. PICK c \in Readable : Picks(p, cmd, sel, c)
    BY <1>3, SelectJob
  <2>2. pc' = [pc EXCEPT ![p] = "selected"]
    BY <1>3 DEF Select
  <2> QED
    BY <2>1, <2>2 DEF JobInv, Picks
<1>4. ASSUME NEW p \in Proc, RemoveCreds(p) \/ ReadConfig(p) \/ WriteConfig(p) PROVE JobInv'
  BY <1>4 DEF RemoveCreds, ReadConfig, WriteConfig, JobInv
<1>5. ASSUME NEW p \in Proc, Load(p) \/ Truncate(p) \/ Bail(p) \/ Fail(p) \/ FailTorn(p)
      PROVE  JobInv'
  BY <1>5 DEF Load, Truncate, Bail, Fail, FailTorn, Finish, JobInv
<1>6. CASE UNCHANGED vars
  BY <1>6 DEF vars, JobInv
<1> QED
  BY <1>1, <1>2, <1>3, <1>4, <1>5, <1>6, SelectorIsOne DEF Next

LEMMA NextType == TypeOK /\ JobInv /\ [Next]_vars => TypeOK'
<1> SUFFICES ASSUME TypeOK, JobInv, [Next]_vars PROVE TypeOK'
  OBVIOUS
<1> USE DEF TypeOK, files, history, Goto, BeginEdit
<1>1. ASSUME NEW p \in Proc, NEW s \in Server, NEW n \in Name, Login(p, s, n)
      PROVE  TypeOK'
  <2>1. [cmd |-> "login", on |-> s, name |-> n] \in Job
    BY DEF Job
  <2> QED
    BY <1>1, <2>1 DEF Login, Editing
<1>2. ASSUME NEW p \in Proc, NEW t \in Server \cup Name, Use(p, t) PROVE TypeOK'
  <2>1. [cmd |-> "use", on |-> t, name |-> NoName] \in Job
    BY DEF Job
  <2> QED
    BY <1>2, <2>1 DEF Use, Editing
<1>3. ASSUME NEW p \in Proc, NEW cmd \in {"api", "logout"}, NEW sel \in Selectors,
             Select(p, cmd, sel)
      PROVE  TypeOK'
  <2>1. PICK c \in Readable : Picks(p, cmd, sel, c)
    BY <1>3, SelectJob
  <2> QED
    BY <1>3, <2>1 DEF Select, Picks
<1>4. ASSUME NEW p \in Proc, RemoveCreds(p) PROVE TypeOK'
  BY <1>4 DEF RemoveCreds, Editing
<1>5. ASSUME NEW p \in Proc, ReadConfig(p) PROVE TypeOK'
  BY <1>5, NoProcAssumption DEF ReadConfig, MayLock, Editing
<1>6. ASSUME NEW p \in Proc, WriteConfig(p) PROVE TypeOK'
  <2>1. config' \in Config
    BY <1>6, EditedFacts DEF WriteConfig, Editing
  <2> QED
    BY <1>6, <2>1 DEF WriteConfig, Editing
<1>7. ASSUME NEW p \in Proc, Load(p) \/ Truncate(p) \/ Bail(p) PROVE TypeOK'
  BY <1>7, FinishType DEF Load, Truncate, Bail
<1>8. ASSUME NEW p \in Proc, Fail(p) PROVE TypeOK'
  BY <1>8, FinishType DEF Fail
<1>9. ASSUME NEW p \in Proc, FailTorn(p) PROVE TypeOK'
  <2>1. config' \in Config /\ torn' \in BOOLEAN
    BY <1>9, TailedFacts DEF FailTorn
  <2> QED
    BY <1>9, <2>1, FinishType DEF FailTorn
<1>10. CASE UNCHANGED vars
  BY <1>10 DEF vars
<1> QED
  BY <1>1, <1>2, <1>3, <1>4, <1>5, <1>6, <1>7, <1>8, <1>9, <1>10, SelectorIsOne DEF Next
-----------------------------------------------------------------------------
(***************************************************************************)
(* What the holder of the lock has read, and what its write loses.         *)
(***************************************************************************)
LEMMA SameEdit ==
  ASSUME NEW p \in Proc, job'[p] = job[p], seen'[p] = seen[p], read'[p] = read[p]
  PROVE  Edited(p, read[p])' = Edited(p, read[p])
BY DEF Edited, SaveContext, DropContexts, UseContext, Inserted

LEMMA NextRead == TypeOK /\ ReadInv /\ [Next]_vars => ReadInv'
<1> SUFFICES ASSUME TypeOK, ReadInv, [Next]_vars, NEW q \in Proc
             PROVE  /\ pc'[q] = "write" => read'[q] = config'
                    /\ pc'[q] = "writing" => config' \in Edited(q, read[q])'
  BY DEF ReadInv
<1> USE DEF files, history, Goto, BeginEdit
<1>1. ASSUME UNCHANGED config, pc'[q] \in {"write", "writing"} => pc'[q] = pc[q],
             pc[q] \in {"write", "writing"} => /\ job'[q] = job[q] /\ seen'[q] = seen[q]
                                               /\ read'[q] = read[q]
      PROVE  /\ pc'[q] = "write" => read'[q] = config'
             /\ pc'[q] = "writing" => config' \in Edited(q, read[q])'
  BY <1>1, SameEdit DEF ReadInv
<1>2. ASSUME NEW p \in Proc, NEW s \in Server, NEW n \in Name, Login(p, s, n)
      PROVE  /\ UNCHANGED config
             /\ pc'[q] \in {"write", "writing"} => pc'[q] = pc[q]
             /\ pc[q] \in {"write", "writing"} =>
                   job'[q] = job[q] /\ seen'[q] = seen[q] /\ read'[q] = read[q]
  BY <1>2 DEF Login, TypeOK
<1>3. ASSUME NEW p \in Proc, NEW t \in Server \cup Name, Use(p, t)
      PROVE  /\ UNCHANGED config
             /\ pc'[q] \in {"write", "writing"} => pc'[q] = pc[q]
             /\ pc[q] \in {"write", "writing"} =>
                   job'[q] = job[q] /\ seen'[q] = seen[q] /\ read'[q] = read[q]
  BY <1>3 DEF Use, TypeOK
<1>4. ASSUME NEW p \in Proc, NEW cmd \in {"api", "logout"}, NEW sel \in Selectors,
             Select(p, cmd, sel)
      PROVE  /\ UNCHANGED config
             /\ pc'[q] \in {"write", "writing"} => pc'[q] = pc[q]
             /\ pc[q] \in {"write", "writing"} =>
                   job'[q] = job[q] /\ seen'[q] = seen[q] /\ read'[q] = read[q]
  <2>1. PICK c \in Readable : Picks(p, cmd, sel, c)
    BY <1>4, SelectJob
  <2> QED
    BY <1>4, <2>1 DEF Select, Picks, TypeOK
<1>5. ASSUME NEW p \in Proc, \/ RemoveCreds(p) \/ Load(p) \/ Truncate(p) \/ Bail(p)
                             \/ Fail(p)
      PROVE  /\ UNCHANGED config
             /\ pc'[q] \in {"write", "writing"} => pc'[q] = pc[q]
             /\ pc'[q] \in {"write", "writing"} =>
                   job'[q] = job[q] /\ seen'[q] = seen[q] /\ read'[q] = read[q]
  BY <1>5 DEF RemoveCreds, Load, Truncate, Bail, Fail, Finish, TypeOK
<1>6. ASSUME NEW p \in Proc, ReadConfig(p)
      PROVE  /\ pc'[q] = "write" => read'[q] = config'
             /\ pc'[q] = "writing" => config' \in Edited(q, read[q])'
  BY <1>6, NoProcAssumption DEF ReadConfig, MayLock, TypeOK
<1>7. ASSUME NEW p \in Proc, WriteConfig(p)
      PROVE  /\ pc'[q] = "write" => read'[q] = config'
             /\ pc'[q] = "writing" => config' \in Edited(q, read[q])'
  <2>1. q # p => pc'[q] \notin {"write", "writing"}
    BY <1>7 DEF WriteConfig, TypeOK
  <2>2. q = p => pc'[q] = "writing" /\ config' \in Edited(p, read[p])'
    BY <1>7, SameEdit DEF WriteConfig, TypeOK
  <2> QED
    BY <2>1, <2>2
<1>8. ASSUME NEW p \in Proc, FailTorn(p)
      PROVE  pc'[q] \notin {"write", "writing"}
  BY <1>8 DEF FailTorn, Finish, TypeOK
<1>9. CASE UNCHANGED vars
  BY <1>1, <1>9 DEF vars
<1> QED
  BY <1>1, <1>2, <1>3, <1>4, <1>5, <1>6, <1>7, <1>8, <1>9, SelectorIsOne, SameEdit
     DEF Next, ReadInv

\* A context that comes back with the tail of a write was dropped by a logout.
LEMMA TailIsALogout ==
  ASSUME TypeOK, JobInv, ReadInv, NEW p \in Proc, pc[p] = "writing",
         NEW c \in Tailed(read[p], config), NEW n \in Name,
         c.contexts[n] # config.contexts[n]
  PROVE  /\ job[p].cmd = "logout" /\ c.contexts[n] = job[p].on
         /\ config.contexts[n] = NoServer
<1>1. read[p] \in Config /\ config \in Config
  BY DEF TypeOK
<1>2. config.contexts[n] = NoServer /\ c.contexts[n] = read[p].contexts[n]
  BY <1>1, TailedFacts
<1>3. config \in Edited(p, read[p]) /\ pc[p] \in Editing /\ seen[p] \subseteq Server
  BY DEF ReadInv, TypeOK, Editing
<1>4. job[p].cmd # "login"
  <2>1. job[p].cmd = "login" => job[p].on \in Server
    BY <1>3 DEF JobInv
  <2> QED
    BY <1>1, <1>2, <1>3, <2>1, EditedFacts, ServersAssumption
<1>5. job[p].cmd # "use"
  BY <1>1, <1>2, <1>3, EditedFacts, ServersAssumption
<1>6. job[p].cmd = "logout"
  BY <1>3, <1>4, <1>5 DEF JobInv
<1> QED
  BY <1>1, <1>2, <1>3, <1>6, EditedFacts

\* What a write of the holder of the lock does, seen from the file.
LEMMA WriteFacts ==
  ASSUME TypeOK, JobInv, ReadInv, NEW p \in Proc, WriteConfig(p)
  PROVE  /\ lock = p /\ pc[p] = "write" /\ read[p] = config
         /\ pc[p] \in Editing /\ seen[p] \subseteq Server
         /\ config \in Config /\ config' \in Edited(p, config)
BY DEF WriteConfig, ReadInv, TypeOK, Editing

-----------------------------------------------------------------------------
(***************************************************************************)
(* The parts of SafetyInv, one at a time.                                  *)
(***************************************************************************)

\* Only two actions touch config.yaml.
LEMMA WhoWrites ==
  ASSUME [Next]_vars
  PROVE  \/ UNCHANGED config
         \/ \E p \in Proc : WriteConfig(p)
         \/ \E p \in Proc : /\ FailTorn(p) /\ pc[p] = "writing"
                            /\ config' \in Tailed(read[p], config)
<1> USE DEF files, history
<1>1. ASSUME NEW p \in Proc, NEW s \in Server, NEW n \in Name, Login(p, s, n)
      PROVE  UNCHANGED config
  BY <1>1 DEF Login
<1>2. ASSUME NEW p \in Proc, NEW t \in Server \cup Name, Use(p, t)
      PROVE  UNCHANGED config
  BY <1>2 DEF Use
<1>3. ASSUME NEW p \in Proc, NEW cmd \in {"api", "logout"}, NEW sel \in Selectors,
             Select(p, cmd, sel)
      PROVE  UNCHANGED config
  BY <1>3 DEF Select
<1>4. ASSUME NEW p \in Proc, \/ RemoveCreds(p) \/ Load(p) \/ Truncate(p) \/ Bail(p)
                             \/ Fail(p) \/ ReadConfig(p)
      PROVE  UNCHANGED config
  BY <1>4 DEF RemoveCreds, Load, Truncate, Bail, Fail, ReadConfig
<1>5. ASSUME NEW p \in Proc, FailTorn(p)
      PROVE  \/ UNCHANGED config
             \/ pc[p] = "writing" /\ config' \in Tailed(read[p], config)
  BY <1>5 DEF FailTorn
<1>6. CASE UNCHANGED vars
  BY <1>6 DEF vars
<1> QED
  BY <1>1, <1>2, <1>3, <1>4, <1>5, <1>6, SelectorIsOne DEF Next

LEMMA NextActive ==
  TypeOK /\ JobInv /\ ReadInv /\ ActiveContextExists /\ [Next]_vars => ActiveContextExists'
<1> SUFFICES ASSUME TypeOK, JobInv, ReadInv, ActiveContextExists, [Next]_vars
             PROVE  ActiveContextExists'
  OBVIOUS
<1>1. CASE UNCHANGED config
  BY <1>1 DEF ActiveContextExists
<1>2. ASSUME NEW p \in Proc, WriteConfig(p) PROVE ActiveContextExists'
  BY <1>2, WriteFacts, EditedFacts DEF ActiveContextExists, Active
<1>3. ASSUME NEW p \in Proc, pc[p] = "writing", config' \in Tailed(read[p], config)
      PROVE  ActiveContextExists'
  <2>1. /\ config'.current = config.current
        /\ \A n \in Name : \/ config'.contexts[n] = config.contexts[n]
                           \/ config.contexts[n] = NoServer
    BY <1>3, TailedFacts DEF TypeOK
  <2>2. config.current \in Name \cup {NoName}
    BY DEF TypeOK, Config
  <2> QED
    BY <2>1, <2>2 DEF ActiveContextExists
<1> QED
  BY <1>1, <1>2, <1>3, WhoWrites

LEMMA NextCreds == TypeOK /\ JobInv /\ CredsInv /\ [Next]_vars => CredsInv'
<1> SUFFICES ASSUME TypeOK, JobInv, CredsInv, [Next]_vars, NEW q \in Proc,
                    pc'[q] \in Editing, PointsAtCreds(q)'
             PROVE  job'[q].on \in creds'
  BY DEF CredsInv
<1> USE DEF files, history, Goto, BeginEdit, TypeOK
<1>1. ASSUME creds \subseteq creds', raced \subseteq raced', pc[q] \in Editing,
             job'[q] = job[q], seen'[q] = seen[q]
      PROVE  job'[q].on \in creds'
  BY <1>1 DEF CredsInv, PointsAtCreds
<1>2. ASSUME NEW p \in Proc, NEW s \in Server, NEW n \in Name, Login(p, s, n)
      PROVE  job'[q].on \in creds'
  <2>1. CASE q = p
    BY <1>2, <2>1 DEF Login
  <2>2. CASE q # p
    BY <1>1, <1>2, <2>2 DEF Login
  <2> QED
    BY <2>1, <2>2
<1>3. ASSUME NEW p \in Proc, NEW t \in Server \cup Name, Use(p, t)
      PROVE  job'[q].on \in creds'
  <2>1. CASE q = p
    BY <1>3, <2>1 DEF Use, PointsAtCreds
  <2>2. CASE q # p
    BY <1>1, <1>3, <2>2 DEF Use
  <2> QED
    BY <2>1, <2>2
<1>4. ASSUME NEW p \in Proc, NEW cmd \in {"api", "logout"}, NEW sel \in Selectors,
             Select(p, cmd, sel)
      PROVE  job'[q].on \in creds'
  <2>1. PICK c \in Readable : Picks(p, cmd, sel, c)
    BY <1>4, SelectJob
  <2>2. q # p
    BY <1>4 DEF Select, Editing
  <2> QED
    BY <1>1, <1>4, <2>1, <2>2 DEF Select, Picks
<1>5. ASSUME NEW p \in Proc, RemoveCreds(p) PROVE job'[q].on \in creds'
  <2>1. q # p
    BY <1>5 DEF RemoveCreds, PointsAtCreds
  <2>2. pc[q] \in Editing /\ job'[q] = job[q] /\ seen'[q] = seen[q] /\ raced \subseteq raced'
    BY <1>5, <2>1 DEF RemoveCreds
  <2>3. job[q].on \in creds
    BY <2>2 DEF CredsInv, PointsAtCreds
  <2>4. job[q].on # job[p].on
    <3>1. SUFFICES ASSUME job[q].on = job[p].on PROVE FALSE
      OBVIOUS
    <3>2. q \in InFlight(job[p].on)
      BY <2>2, <3>1 DEF InFlight
    <3>3. job[q].on \in raced'
      BY <1>5, <2>3, <3>1, <3>2 DEF RemoveCreds
    <3> QED
      BY <2>2, <3>3 DEF PointsAtCreds
  <2> QED
    BY <1>5, <2>2, <2>3, <2>4 DEF RemoveCreds
<1>6. ASSUME NEW p \in Proc, ReadConfig(p) \/ WriteConfig(p) PROVE job'[q].on \in creds'
  BY <1>1, <1>6 DEF ReadConfig, WriteConfig, Editing
<1>7. ASSUME NEW p \in Proc, Load(p) \/ Truncate(p) \/ Bail(p) \/ Fail(p) \/ FailTorn(p)
      PROVE  job'[q].on \in creds'
  <2>1. q # p
    BY <1>7 DEF Load, Truncate, Bail, Fail, FailTorn, Finish, Editing
  <2> QED
    BY <1>1, <1>7, <2>1 DEF Load, Truncate, Bail, Fail, FailTorn, Finish
<1>8. CASE UNCHANGED vars
  BY <1>1, <1>8 DEF vars
<1> QED
  BY <1>2, <1>3, <1>4, <1>5, <1>6, <1>7, <1>8, SelectorIsOne DEF Next

\* A logout that has yet to drop the contexts of s.
Dropping(p, s) == /\ p \in Proc /\ pc[p] \in {"config", "write"}
                  /\ job[p].cmd = "logout" /\ job[p].on = s

LEMMA NextDangling ==
  TypeOK /\ JobInv /\ ReadInv /\ CredsInv /\ DanglingInv /\ [Next]_vars => DanglingInv'
<1> SUFFICES ASSUME TypeOK, JobInv, ReadInv, CredsInv, DanglingInv, [Next]_vars,
                    NEW s \in Server, s \notin raced', s \notin broken', Dangling(s)'
             PROVE  \E q \in Proc : Dropping(q, s)'
  BY DEF DanglingInv, LoggingOut, InFlight, Dropping, Editing
<1> USE DEF files, history, Goto, BeginEdit, TypeOK
<1>1. ASSUME s \notin raced, s \notin broken, Dangling(s)
      PROVE  \E q \in Proc : Dropping(q, s)
  BY <1>1 DEF DanglingInv, LoggingOut, InFlight, Dropping
<1>2. ASSUME NEW p \in Proc, NEW z \in Server, NEW n \in Name, Login(p, z, n)
      PROVE  \E q \in Proc : Dropping(q, s)'
  <2>1. s \notin raced /\ s \notin broken /\ Dangling(s)
    BY <1>2 DEF Login, Dangling
  <2>2. PICK q \in Proc : Dropping(q, s)
    BY <1>1, <2>1
  <2> QED
    BY <1>2, <2>2 DEF Login, Dropping
<1>3. ASSUME NEW p \in Proc, NEW t \in Server \cup Name, Use(p, t)
      PROVE  \E q \in Proc : Dropping(q, s)'
  <2>1. s \notin raced /\ s \notin broken /\ Dangling(s)
    BY <1>3 DEF Use, Dangling
  <2>2. PICK q \in Proc : Dropping(q, s)
    BY <1>1, <2>1
  <2> QED
    BY <1>3, <2>2 DEF Use, Dropping
<1>4. ASSUME NEW p \in Proc, NEW cmd \in {"api", "logout"}, NEW sel \in Selectors,
             Select(p, cmd, sel)
      PROVE  \E q \in Proc : Dropping(q, s)'
  <2>1. s \notin raced /\ s \notin broken /\ Dangling(s)
    BY <1>4 DEF Select, Dangling
  <2>2. PICK q \in Proc : Dropping(q, s)
    BY <1>1, <2>1
  <2>3. PICK c \in Readable : Picks(p, cmd, sel, c)
    BY <1>4, SelectJob
  <2> QED
    BY <1>4, <2>2, <2>3 DEF Select, Picks, Dropping
<1>5. ASSUME NEW p \in Proc, RemoveCreds(p) PROVE \E q \in Proc : Dropping(q, s)'
  <2>1. CASE s = job[p].on
    BY <1>5, <2>1 DEF RemoveCreds, Dropping
  <2>2. CASE s # job[p].on
    <3>1. s \notin raced /\ s \notin broken /\ Dangling(s)
      BY <1>5, <2>2 DEF RemoveCreds, Dangling
    <3>2. PICK q \in Proc : Dropping(q, s)
      BY <1>1, <3>1
    <3> QED
      BY <1>5, <3>2 DEF RemoveCreds, Dropping
  <2> QED
    BY <2>1, <2>2
<1>6. ASSUME NEW p \in Proc, ReadConfig(p) PROVE \E q \in Proc : Dropping(q, s)'
  <2>1. s \notin raced /\ s \notin broken /\ Dangling(s)
    BY <1>6 DEF ReadConfig, Dangling
  <2>2. PICK q \in Proc : Dropping(q, s)
    BY <1>1, <2>1
  <2> QED
    BY <1>6, <2>2 DEF ReadConfig, Dropping
<1>7. ASSUME NEW p \in Proc, WriteConfig(p) PROVE \E q \in Proc : Dropping(q, s)'
  <2>1. PICK n \in Name : config'.contexts[n] = s
    BY DEF Dangling
  <2>2. s \notin creds /\ s \notin raced /\ s \notin broken
    BY <1>7 DEF WriteConfig, Dangling
  <2>3. CASE config.contexts[n] = s
    <3>1. PICK q \in Proc : Dropping(q, s)
      BY <1>1, <2>2, <2>3 DEF Dangling
    <3>2. q # p
      BY <1>7, <2>1, <2>3, <3>1, WriteFacts, EditedFacts, ServersAssumption DEF Dropping
    <3> QED
      BY <1>7, <3>1, <3>2 DEF WriteConfig, Dropping
  <2>4. CASE config.contexts[n] # s
    <3>1. job[p].cmd # "logout"
      BY <1>7, <2>1, <2>4, WriteFacts, EditedFacts, ServersAssumption
    <3>2. job[p].on = s /\ (job[p].cmd = "use" => s \in seen[p])
      BY <1>7, <2>1, <2>4, <3>1, WriteFacts, EditedFacts DEF JobInv
    <3>3. PointsAtCreds(p) /\ pc[p] \in Editing
      BY <1>7, <2>2, <3>1, <3>2, WriteFacts DEF PointsAtCreds, JobInv
    <3> QED
      BY <2>2, <3>2, <3>3 DEF CredsInv
  <2> QED
    BY <2>3, <2>4
<1>8. ASSUME NEW p \in Proc, Load(p) \/ Truncate(p) \/ Bail(p) \/ Fail(p)
      PROVE  \E q \in Proc : Dropping(q, s)'
  <2>1. s \notin raced /\ s \notin broken /\ Dangling(s)
    BY <1>8 DEF Load, Truncate, Bail, Fail, Dangling
  <2>2. PICK q \in Proc : Dropping(q, s)
    BY <1>1, <2>1
  <2>3. q # p
    <3>1. Dropping(p, s) => ~ Load(p) /\ ~ Truncate(p)
      BY DEF Dropping, Load, Truncate
    <3>2. Dropping(p, s) => ~ Fail(p)
      BY DEF Dropping, Fail
    <3>3. Dropping(p, s) => ~ Bail(p)
      BY DEF Dropping, Bail, Edited, DropContexts
    <3> QED
      BY <1>8, <2>2, <3>1, <3>2, <3>3
  <2> QED
    BY <1>8, <2>2, <2>3 DEF Load, Truncate, Bail, Fail, Finish, Dropping
<1>9. ASSUME NEW p \in Proc, FailTorn(p) PROVE \E q \in Proc : Dropping(q, s)'
  <2>1. s \notin creds /\ s \notin raced /\ s \notin broken /\ pc[p] = "writing"
    BY <1>9 DEF FailTorn, Dangling
  <2>2. s # job[p].on
    BY <1>9 DEF FailTorn
  <2>3. PICK n \in Name : config'.contexts[n] = s
    BY DEF Dangling
  <2>4. config.contexts[n] = s
    BY <1>9, <2>1, <2>2, <2>3, TailIsALogout DEF FailTorn
  <2>5. PICK q \in Proc : Dropping(q, s)
    BY <1>1, <2>1, <2>4 DEF Dangling
  <2> QED
    BY <1>9, <2>1, <2>5 DEF FailTorn, Finish, Dropping
<1>10. CASE UNCHANGED vars
  BY <1>1, <1>10 DEF vars, Dangling, Dropping
<1> QED
  BY <1>2, <1>3, <1>4, <1>5, <1>6, <1>7, <1>8, <1>9, <1>10, SelectorIsOne DEF Next

LEMMA NextSelected ==
  TypeOK /\ JobInv /\ ReadInv /\ DanglingInv /\ SelectedIsLoggedIn /\ [Next]_vars
     => SelectedIsLoggedIn'
<1> SUFFICES ASSUME TypeOK, JobInv, ReadInv, DanglingInv, SelectedIsLoggedIn, [Next]_vars,
                    NEW q \in Proc, pc'[q] = "selected", job'[q].name # NoName,
                    q \notin overtaken', job'[q].on \notin raced' \cup broken'
             PROVE  job'[q].on \in creds'
  BY DEF SelectedIsLoggedIn
<1> USE DEF files, history, Goto, BeginEdit, TypeOK
<1>1. ASSUME pc[q] = "selected", job'[q] = job[q], creds \subseteq creds',
             raced \subseteq raced', broken \subseteq broken', q \notin overtaken
      PROVE  job'[q].on \in creds'
  BY <1>1 DEF SelectedIsLoggedIn
<1>2. ASSUME NEW p \in Proc, NEW s \in Server, NEW n \in Name, Login(p, s, n)
      PROVE  job'[q].on \in creds'
  BY <1>1, <1>2 DEF Login
<1>3. ASSUME NEW p \in Proc, NEW t \in Server \cup Name, Use(p, t)
      PROVE  job'[q].on \in creds'
  BY <1>1, <1>3 DEF Use
<1>4. ASSUME NEW p \in Proc, NEW cmd \in {"api", "logout"}, NEW sel \in Selectors,
             Select(p, cmd, sel)
      PROVE  job'[q].on \in creds'
  <2>1. PICK c \in Readable : Picks(p, cmd, sel, c)
    BY <1>4, SelectJob
  <2>2. CASE q # p
    BY <1>1, <1>4, <2>1, <2>2 DEF Select, Picks
  <2>3. CASE q = p
    <3> DEFINE r == Resolved(c, sel)
    <3>1. job'[q].on = r.on /\ job'[q].name = r.name
      BY <2>1, <2>3 DEF Picks
    <3>2. r.on \in Server /\ r.name \in Name /\ c.contexts[r.name] = r.on
      BY <2>1, <3>1 DEF Picks
    <3>3. LoggingOut(r.on) = {}
      BY <2>1, <2>3 DEF Picks
    <3>4. config.contexts[r.name] = r.on
      <4>1. SUFFICES ASSUME config.contexts[r.name] # r.on PROVE FALSE
        OBVIOUS
      <4>2. lock \in Proc /\ pc[lock] = "writing" /\ c \in Tailed(read[lock], config)
        BY <3>2, <4>1, ReadableFacts
      <4>3. job[lock].cmd = "logout" /\ job[lock].on = r.on
        BY <3>2, <4>1, <4>2, TailIsALogout
      <4> QED
        BY <3>3, <4>2, <4>3 DEF LoggingOut, InFlight, Editing
    <3>5. r.on \notin raced \cup broken /\ creds' = creds
      BY <1>4, <3>1 DEF Select
    <3>6. ~ Dangling(r.on)
      BY <3>2, <3>3, <3>5 DEF DanglingInv
    <3> QED
      BY <3>1, <3>2, <3>4, <3>5, <3>6 DEF Dangling
  <2> QED
    BY <2>2, <2>3
<1>5. ASSUME NEW p \in Proc, RemoveCreds(p) PROVE job'[q].on \in creds'
  <2>1. q # p /\ pc[q] = "selected" /\ job'[q] = job[q] /\ q \notin overtaken
    BY <1>5 DEF RemoveCreds
  <2>2. job[q].on # job[p].on
    BY <1>5, <2>1 DEF RemoveCreds
  <2>3. job[q].on \in creds
    BY <1>5, <2>1 DEF SelectedIsLoggedIn, RemoveCreds
  <2> QED
    BY <1>5, <2>1, <2>2, <2>3 DEF RemoveCreds
<1>6. ASSUME NEW p \in Proc, ReadConfig(p) \/ WriteConfig(p) PROVE job'[q].on \in creds'
  BY <1>1, <1>6 DEF ReadConfig, WriteConfig
<1>7. ASSUME NEW p \in Proc, Load(p) \/ Truncate(p) \/ Bail(p) \/ Fail(p) \/ FailTorn(p)
      PROVE  job'[q].on \in creds'
  BY <1>1, <1>7 DEF Load, Truncate, Bail, Fail, FailTorn, Finish
<1>8. CASE UNCHANGED vars
  BY <1>1, <1>8 DEF vars
<1> QED
  BY <1>2, <1>3, <1>4, <1>5, <1>6, <1>7, <1>8, SelectorIsOne DEF Next

-----------------------------------------------------------------------------
LEMMA InitSafety == Init => SafetyInv
<1> SUFFICES ASSUME Init PROVE SafetyInv
  OBVIOUS
<1>1. JobInv
  BY InitType
<1>2. ReadInv /\ CredsInv /\ SelectedIsLoggedIn
  BY DEF Init, ReadInv, CredsInv, SelectedIsLoggedIn, Editing
<1>3. DanglingInv /\ ActiveContextExists
  BY ServersAssumption DEF Init, DanglingInv, Dangling, ActiveContextExists, NoContexts
<1> QED
  BY <1>1, <1>2, <1>3 DEF SafetyInv

\* TypeOK of Contexts is an invariant, whatever the processes, servers and names.
THEOREM TypeCorrect == Spec => []TypeOK
<1>1. TypeOK /\ JobInv /\ [Next]_vars => TypeOK' /\ JobInv'
  BY NextType, NextJob
<1> QED
  BY <1>1, InitType, PTL DEF Spec

\* The inductive invariant: the edit under way is an edit of what the file says,
\* works for a logged-in server, and a dangling context has a logout coming.
THEOREM Safety == Spec => []SafetyInv
<1>1. TypeOK /\ SafetyInv /\ [Next]_vars => SafetyInv'
  BY NextJob, NextRead, NextCreds, NextDangling, NextActive, NextSelected DEF SafetyInv
<1> QED
  BY <1>1, InitSafety, TypeCorrect, PTL DEF Spec

\* The active context always exists, also in a file that a failed write has left.
THEOREM ActiveContext == Spec => []ActiveContextExists
<1>1. SafetyInv => ActiveContextExists
  BY DEF SafetyInv
<1> QED
  BY <1>1, Safety, PTL

\* A context without credentials has a logout under way, or two edits of its
\* server at once, or a failed one, to explain it.
THEOREM NoDangling == Spec => []NoDanglingContext
<1>1. SafetyInv => NoDanglingContext
  BY DEF SafetyInv, DanglingInv, NoDanglingContext
<1> QED
  BY <1>1, Safety, PTL

\* A server picked by an unlocked read of a context is logged in when its
\* credentials are looked up, unless a logout overtook the command.
THEOREM SelectedLoggedIn == Spec => []SelectedIsLoggedIn
<1>1. SafetyInv => SelectedIsLoggedIn
  BY DEF SafetyInv
<1> QED
  BY <1>1, Safety, PTL

\* No write, and no write that fails half-way, changes a context its command is
\* not about.
THEOREM OthersKept == Spec => ContextsKept
<1> DEFINE Kept == \A n \in Name : config'.contexts[n] # config.contexts[n] =>
                      \E p \in Proc : lock = p /\ About(p, n)
<1>1. ASSUME TypeOK, SafetyInv, [Next]_vars PROVE [Kept]_vars
  <2> SUFFICES ASSUME NEW n \in Name, config'.contexts[n] # config.contexts[n]
               PROVE  \E p \in Proc : lock = p /\ About(p, n)
    OBVIOUS
  <2>1. ASSUME NEW p \in Proc, WriteConfig(p) PROVE lock = p /\ About(p, n)
    BY <1>1, <2>1, WriteFacts, EditedFacts DEF SafetyInv, About, JobInv
  <2>2. ASSUME NEW p \in Proc, pc[p] = "writing", config' \in Tailed(read[p], config)
        PROVE  lock = p /\ About(p, n)
    BY <1>1, <2>2, TailIsALogout DEF SafetyInv, About, TypeOK
  <2> QED
    BY <1>1, <2>1, <2>2, WhoWrites
<1> QED
  BY <1>1, TypeCorrect, Safety, PTL DEF Spec, ContextsKept

\* Only a login or `config use` moves the default server, to its own; only a
\* logout of it gives it up.
THEOREM DefaultMoves == Spec => DefaultMovesOnPurpose
<1> DEFINE Moves == DefaultServer(config') # DefaultServer(config) =>
          \E p \in Proc :
              /\ lock = p
              /\ IF job[p].cmd = "logout"
                   THEN /\ DefaultServer(config) = job[p].on
                        /\ DefaultServer(config') = NoServer
                   ELSE DefaultServer(config') = Goal(p)
<1>1. ASSUME TypeOK, SafetyInv, [Next]_vars PROVE [Moves]_vars
  <2> SUFFICES ASSUME DefaultServer(config') # DefaultServer(config)
               PROVE  \E p \in Proc :
                        /\ lock = p
                        /\ IF job[p].cmd = "logout"
                             THEN /\ DefaultServer(config) = job[p].on
                                  /\ DefaultServer(config') = NoServer
                             ELSE DefaultServer(config') = Goal(p)
    OBVIOUS
  <2>1. ASSUME NEW p \in Proc, WriteConfig(p)
        PROVE  /\ lock = p
               /\ IF job[p].cmd = "logout"
                    THEN /\ DefaultServer(config) = job[p].on
                         /\ DefaultServer(config') = NoServer
                    ELSE DefaultServer(config') = Goal(p)
    <3>1. Active(config)
      BY <1>1 DEF SafetyInv, ActiveContextExists, Active
    <3> QED
      BY <1>1, <2>1, <3>1, WriteFacts, EditedFacts DEF SafetyInv, Goal
  <2>2. ASSUME NEW p \in Proc, pc[p] = "writing", config' \in Tailed(read[p], config)
        PROVE  FALSE
    <3>1. config'.current = config.current
      BY <1>1, <2>2, TailedFacts DEF TypeOK
    <3>2. config.current \in Name /\ config.contexts[config.current] # NoServer
      BY <1>1, <3>1 DEF DefaultServer, SafetyInv, ActiveContextExists, TypeOK, Config
    <3>3. config'.contexts[config.current] = config.contexts[config.current]
      BY <1>1, <2>2, <3>2, TailIsALogout DEF SafetyInv
    <3> QED
      BY <3>1, <3>3 DEF DefaultServer
  <2>3. UNCHANGED config => FALSE
    OBVIOUS
  <2> QED
    BY <1>1, <2>1, <2>2, <2>3, WhoWrites
<1> QED
  BY <1>1, TypeCorrect, Safety, PTL DEF Spec, DefaultMovesOnPurpose
=============================================================================
