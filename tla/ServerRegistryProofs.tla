------------------------- MODULE ServerRegistryProofs -------------------------
(***************************************************************************)
(* Contexts implements ServerRegistry, for every set of processes, servers *)
(* and names; and what ServerRegistry promises, Contexts keeps.            *)
(***************************************************************************)
EXTENDS ContextsProofs

(***************************************************************************)
(* Two facts that the refinement needs beside SafetyInv: two commands that *)
(* edit one server at once have raced, and nobody writes to a torn file.   *)
(***************************************************************************)
ApartInv == \A p, q \in Proc :
    p # q /\ pc[p] \in Editing /\ pc[q] \in Editing
       /\ job[p].on \in Server /\ job[q].on = job[p].on
    => job[p].on \in raced

TornInv == torn => lock = NoProc

LEMMA NextApart == TypeOK /\ ApartInv /\ [Next]_vars => ApartInv'
<1> SUFFICES ASSUME TypeOK, ApartInv, [Next]_vars,
                    NEW x \in Proc, NEW y \in Proc, x # y,
                    pc'[x] \in Editing, pc'[y] \in Editing,
                    job'[x].on \in Server, job'[y].on = job'[x].on
             PROVE  job'[x].on \in raced'
  BY DEF ApartInv
<1> USE DEF files, history, Goto, BeginEdit, TypeOK
<1>1. ASSUME NEW p \in Proc, raced \subseteq raced',
             \A q \in Proc \ {p} : pc'[q] = pc[q] /\ job'[q] = job[q],
             pc'[p] \in Editing => pc[p] \in Editing /\ job'[p] = job[p]
      PROVE  job'[x].on \in raced'
  BY <1>1 DEF ApartInv
<1>2. ASSUME NEW p \in Proc, BeginEdit(p, job'[p].on), pc[p] \notin Editing,
             \A q \in Proc \ {p} : job'[q] = job[q]
      PROVE  job'[x].on \in raced'
  <2>1. ASSUME NEW q \in Proc \ {p}, pc[q] \in Editing, job[q].on = job'[p].on,
               job'[p].on \in Server
        PROVE  job'[p].on \in raced'
    BY <1>2, <2>1 DEF InFlight
  <2>2. \A q \in Proc \ {p} : pc'[q] = pc[q]
    BY <1>2
  <2>3. CASE x = p
    BY <1>2, <2>1, <2>2, <2>3
  <2>4. CASE y = p
    BY <1>2, <2>1, <2>2, <2>4
  <2>5. CASE x # p /\ y # p
    BY <1>2, <2>2, <2>5 DEF ApartInv
  <2> QED
    BY <2>3, <2>4, <2>5
<1>3. ASSUME NEW p \in Proc, NEW s \in Server, NEW n \in Name, Login(p, s, n)
      PROVE  job'[x].on \in raced'
  BY <1>2, <1>3 DEF Login, Editing
<1>4. ASSUME NEW p \in Proc, NEW t \in Server \cup Name, Use(p, t)
      PROVE  job'[x].on \in raced'
  BY <1>2, <1>4 DEF Use, Editing
<1>5. ASSUME NEW p \in Proc, NEW cmd \in {"api", "logout"}, NEW sel \in Selectors,
             Select(p, cmd, sel)
      PROVE  job'[x].on \in raced'
  <2>1. PICK c \in Readable : Picks(p, cmd, sel, c)
    BY <1>5, SelectJob
  <2> QED
    BY <1>1, <1>5, <2>1 DEF Select, Picks, Editing
<1>6. ASSUME NEW p \in Proc, RemoveCreds(p) PROVE job'[x].on \in raced'
  BY <1>2, <1>6 DEF RemoveCreds, Editing
<1>7. ASSUME NEW p \in Proc, ReadConfig(p) \/ WriteConfig(p) PROVE job'[x].on \in raced'
  BY <1>1, <1>7 DEF ReadConfig, WriteConfig, Editing
<1>8. ASSUME NEW p \in Proc, Load(p) \/ Truncate(p) \/ Bail(p) \/ Fail(p) \/ FailTorn(p)
      PROVE  job'[x].on \in raced'
  BY <1>1, <1>8 DEF Load, Truncate, Bail, Fail, FailTorn, Finish, Editing
<1>9. CASE UNCHANGED vars
  BY <1>9 DEF vars, ApartInv
<1> QED
  BY <1>3, <1>4, <1>5, <1>6, <1>7, <1>8, <1>9, SelectorIsOne DEF Next

LEMMA NextTorn == TypeOK /\ TornInv /\ [Next]_vars => TornInv'
<1> SUFFICES ASSUME TypeOK, TornInv, [Next]_vars, torn' PROVE lock' = NoProc
  BY DEF TornInv
<1> USE DEF files, history, Goto, BeginEdit, TypeOK, TornInv
<1>1. ASSUME NEW p \in Proc, NEW s \in Server, NEW n \in Name, Login(p, s, n)
      PROVE  lock' = NoProc
  BY <1>1 DEF Login
<1>2. ASSUME NEW p \in Proc, NEW t \in Server \cup Name, Use(p, t) PROVE lock' = NoProc
  BY <1>2 DEF Use
<1>3. ASSUME NEW p \in Proc, NEW cmd \in {"api", "logout"}, NEW sel \in Selectors,
             Select(p, cmd, sel)
      PROVE  lock' = NoProc
  BY <1>3 DEF Select
<1>4. ASSUME NEW p \in Proc, RemoveCreds(p) \/ ReadConfig(p) \/ WriteConfig(p)
      PROVE  lock' = NoProc
  BY <1>4 DEF RemoveCreds, ReadConfig, WriteConfig
<1>5. ASSUME NEW p \in Proc, Load(p) \/ Truncate(p) \/ Bail(p) \/ Fail(p)
      PROVE  lock' = NoProc
  BY <1>5 DEF Load, Truncate, Bail, Fail, Finish
<1>6. ASSUME NEW p \in Proc, FailTorn(p) PROVE lock' = NoProc
  BY <1>6 DEF FailTorn, Finish
<1>7. CASE UNCHANGED vars
  BY <1>7 DEF vars
<1> QED
  BY <1>1, <1>2, <1>3, <1>4, <1>5, <1>6, <1>7, SelectorIsOne DEF Next

\* Two commands that edit one server at once have raced; a torn file is locked
\* by nobody.
THEOREM Separation == Spec => [](ApartInv /\ TornInv)
<1>1. Init => ApartInv /\ TornInv
  BY DEF Init, ApartInv, TornInv, Editing
<1>2. TypeOK /\ ApartInv /\ TornInv /\ [Next]_vars => ApartInv' /\ TornInv'
  BY NextApart, NextTorn
<1> QED
  BY <1>1, <1>2, TypeCorrect, PTL DEF Spec

-----------------------------------------------------------------------------
(***************************************************************************)
(* Which servers are leaving, as one process moves.                        *)
(***************************************************************************)
OnlyMoves(p) == \A q \in Proc \ {p} : pc'[q] = pc[q] /\ job'[q] = job[q]

LEMMA LeavingFacts ==
  ASSUME NEW s \in Server
  PROVE  s \in Leaving <=> \E q \in Proc : Dropping(q, s)
BY DEF Leaving, LoggingOut, InFlight, Dropping, Editing

LEMMA LeavingFactsNext ==
  ASSUME NEW s \in Server
  PROVE  s \in Leaving' <=> \E q \in Proc : Dropping(q, s)'
BY DEF Leaving, LoggingOut, InFlight, Dropping, Editing

LEMMA LeavingSame ==
  ASSUME NEW p \in Proc, OnlyMoves(p),
         \A s \in Server : Dropping(p, s)' <=> Dropping(p, s)
  PROVE  Leaving' = Leaving
<1>1. ASSUME NEW s \in Server PROVE s \in Leaving' <=> s \in Leaving
  <2>1. \A q \in Proc \ {p} : Dropping(q, s)' <=> Dropping(q, s)
    BY DEF OnlyMoves, Dropping
  <2> QED
    BY <2>1, LeavingFacts, LeavingFactsNext
<1> QED
  BY <1>1 DEF Leaving

\* The end of one logout, done or not: its server is no longer leaving, unless
\* another logout of it is under way.
LEMMA LeavingLess ==
  ASSUME NEW p \in Proc, OnlyMoves(p), NEW z \in Server,
         \A s \in Server : ~ Dropping(p, s)',
         \A s \in Server : Dropping(p, s) => s = z
  PROVE  /\ Leaving' \in {Leaving, Leaving \ {z}}
         /\ Dropping(p, z) => \/ Leaving' = Leaving \ {z}
                             \/ \E q \in Proc \ {p} : Dropping(q, z)
<1>1. ASSUME NEW s \in Server PROVE s \in Leaving' <=> \E q \in Proc \ {p} : Dropping(q, s)
  BY LeavingFactsNext DEF OnlyMoves, Dropping
<1>2. \A s \in Server \ {z} : s \in Leaving' <=> s \in Leaving
  BY <1>1, LeavingFacts
<1>3. z \in Leaving' => z \in Leaving
  BY <1>1, LeavingFacts
<1>4. Leaving \subseteq Server /\ Leaving' \subseteq Server
  BY DEF Leaving
<1> QED
  BY <1>1, <1>2, <1>3, <1>4

\* A step that leaves the registry alone.
LEMMA Stutter ==
  ASSUME UNCHANGED <<creds, torn, raced, broken>>, Leaving' = Leaving,
         config'.contexts = config.contexts, config'.current = config.current
  PROVE  UNCHANGED Registry!vars
BY DEF Registry!vars

-----------------------------------------------------------------------------
(***************************************************************************)
(* The steps that change the registry.                                     *)
(***************************************************************************)

\* An edit that meets another on its server makes it doubtful.
LEMMA BeginFacts ==
  ASSUME TypeOK, NEW p \in Proc, pc[p] \notin Editing, NEW s \in Server, BeginEdit(p, s),
         UNCHANGED broken
  PROVE  /\ Registry!MayDoubt(s)
         /\ s \in Leaving => s \in raced'
<1>1. s \in Leaving => InFlight(s) # {}
  BY DEF Leaving, LoggingOut
<1> QED
  BY <1>1 DEF BeginEdit, Registry!MayDoubt

LEMMA LoginRefines ==
  ASSUME TypeOK, NEW p \in Proc, NEW s \in Server, NEW n \in Name, Login(p, s, n)
  PROVE  Registry!Know(s)
<1>1. Leaving' = Leaving
  <2>1. OnlyMoves(p)
    BY DEF TypeOK, Login, BeginEdit, Goto, OnlyMoves
  <2>2. \A z \in Server : ~ Dropping(p, z) /\ ~ Dropping(p, z)'
    BY DEF TypeOK, Login, Dropping
  <2> QED
    BY <2>1, <2>2, LeavingSame
<1>2. Registry!MayDoubt(s) /\ (s \in Leaving => s \in raced')
  BY BeginFacts DEF Login, Editing
<1> QED
  BY <1>1, <1>2 DEF Login, Registry!Know

LEMMA UseRefines ==
  ASSUME TypeOK, NEW p \in Proc, NEW t \in Server \cup Name, Use(p, t)
  PROVE  (t \in Server /\ Registry!Doubt(t)) \/ UNCHANGED Registry!vars
<1>1. Leaving' = Leaving
  <2>1. OnlyMoves(p)
    BY DEF TypeOK, Use, BeginEdit, Goto, OnlyMoves
  <2>2. \A z \in Server : ~ Dropping(p, z) /\ ~ Dropping(p, z)'
    BY DEF TypeOK, Use, Dropping
  <2> QED
    BY <2>1, <2>2, LeavingSame
<1>2. UNCHANGED <<creds, config, torn, broken>>
  BY DEF Use, files
<1>3. raced' = raced \/ (t \in Server /\ raced' = raced \cup {t})
  BY DEF Use, BeginEdit
<1>4. CASE raced' = raced
  BY <1>1, <1>2, <1>4, Stutter
<1>5. CASE t \in Server /\ raced' = raced \cup {t}
  <2>1. (raced \cup broken)' = (raced \cup broken) \cup {t}
    BY <1>2, <1>5
  <2> QED
    BY <1>1, <1>2, <1>5, <2>1 DEF Registry!Doubt
<1> QED
  BY <1>3, <1>4, <1>5

LEMMA RemoveRefines ==
  ASSUME TypeOK, JobInv, NEW p \in Proc, RemoveCreds(p)
  PROVE  \/ job[p].on \in Server /\ Registry!Forget(job[p].on)
         \/ UNCHANGED Registry!vars
<1> DEFINE s == job[p].on
<1>1. /\ UNCHANGED <<config, torn, broken, job>>
      /\ pc[p] = "selected" /\ pc' = [pc EXCEPT ![p] = "config"]
      /\ job[p].cmd = "logout" /\ creds' = creds \ {s}
  BY DEF RemoveCreds, BeginEdit, Goto
<1>2. OnlyMoves(p)
  BY <1>1 DEF TypeOK, OnlyMoves
<1>3. \A z \in Server : ~ Dropping(p, z) /\ (Dropping(p, z)' <=> z = s)
  BY <1>1 DEF TypeOK, Dropping
<1>4. CASE s \in Server
  <2>1. Leaving' = Leaving \cup {s}
    <3>1. ASSUME NEW z \in Server PROVE z \in Leaving' <=> z \in Leaving \/ z = s
      <4>1. \A q \in Proc \ {p} : Dropping(q, z)' <=> Dropping(q, z)
        BY <1>2 DEF OnlyMoves, Dropping
      <4> QED
        BY <1>3, <4>1, LeavingFacts, LeavingFactsNext
    <3>2. Leaving \subseteq Server /\ Leaving' \subseteq Server
      BY DEF Leaving
    <3> QED
      BY <1>4, <3>1, <3>2
  <2>2. Registry!MayDoubt(s) /\ (s \in Leaving => s \in raced')
    BY <1>1, <1>4, BeginFacts DEF RemoveCreds, Editing
  <2> QED
    BY <1>1, <1>4, <2>1, <2>2 DEF Registry!Forget
<1>5. CASE s \notin Server
  <2>1. Leaving' = Leaving
    BY <1>2, <1>3, <1>5, LeavingSame
  <2>2. UNCHANGED <<creds, raced>>
    BY <1>1, <1>5 DEF RemoveCreds, BeginEdit, TypeOK
  <2> QED
    BY <1>1, <2>1, <2>2, Stutter
<1> QED
  BY <1>4, <1>5

LEMMA WriteRefines ==
  ASSUME TypeOK, SafetyInv, ApartInv, TornInv, NEW p \in Proc, WriteConfig(p)
  PROVE  Registry!Next \/ UNCHANGED Registry!vars
<1> DEFINE s == job[p].on
<1>1. /\ UNCHANGED <<creds, torn, job, raced, broken>>
      /\ pc' = [pc EXCEPT ![p] = "writing"]
  BY DEF WriteConfig, Goto, history
<1>2. /\ lock = p /\ pc[p] = "write" /\ pc[p] \in Editing /\ seen[p] \subseteq Server
      /\ config \in Config /\ config' \in Edited(p, config)
  BY WriteFacts DEF SafetyInv
<1>3. ~ torn /\ ~ torn'
  BY <1>1, <1>2, NoProcAssumption DEF TornInv
<1>4. OnlyMoves(p) /\ \A z \in Server : ~ Dropping(p, z)'
  BY <1>1 DEF TypeOK, OnlyMoves, Dropping
<1>5. ASSUME PointsAtCreds(p) \/ s \in raced PROVE s \in creds \cup (raced \cup broken)
  BY <1>2, <1>5 DEF SafetyInv, CredsInv
<1>6. ASSUME job[p].cmd # "logout" PROVE Leaving' = Leaving
  <2>1. \A z \in Server : ~ Dropping(p, z)
    BY <1>6 DEF Dropping
  <2> QED
    BY <1>4, <2>1, LeavingSame
<1>7. ASSUME NEW n \in Name, NEW z \in Server, z \in creds \cup (raced \cup broken),
             config' = Inserted(config, n, z), job[p].cmd # "logout"
      PROVE  Registry!Save(n, z)
  BY <1>1, <1>3, <1>6, <1>7 DEF Registry!Save, Inserted
<1>8. CASE job[p].cmd = "login"
  <2>1. s \in Server /\ job[p].name \in Name
    BY <1>2, <1>8 DEF SafetyInv, JobInv
  <2>2. config' = Inserted(config, job[p].name, s)
    BY <1>2, <1>8 DEF Edited, SaveContext
  <2>3. s \in creds \cup (raced \cup broken)
    BY <1>5, <1>8, <2>1 DEF PointsAtCreds
  <2> QED
    BY <1>7, <1>8, <2>1, <2>2, <2>3 DEF Registry!Next
<1>9. CASE job[p].cmd = "use"
  <2> DEFINE pointing == {n \in Name : config.contexts[n] = s}
  <2>1. s \in Server \cup Name
    BY <1>2, <1>9 DEF SafetyInv, JobInv
  <2>2. CASE s \in Name /\ config.contexts[s] # NoServer
    <3>1. config' = Inserted(config, s, config.contexts[s])
      BY <1>2, <1>9, <2>2, ServersAssumption DEF Edited, UseContext
    <3>2. config'.current = s /\ config'.contexts = config.contexts
      <4>1. config.contexts \in [Name -> Server \cup {NoServer}]
        BY <1>2 DEF Config
      <4>2. [config.contexts EXCEPT ![s] = config.contexts[s]] = config.contexts
        BY <2>2, <4>1
      <4> QED
        BY <3>1, <4>2 DEF Inserted
    <3>3. Leaving' = Leaving
      BY <1>6, <1>9
    <3>4. Registry!Activate(s)
      BY <1>1, <1>3, <2>2, <3>2, <3>3 DEF Registry!Activate
    <3> QED
      BY <2>2, <3>4 DEF Registry!Next
  <2>3. CASE ~ (s \in Name /\ config.contexts[s] # NoServer) /\ s \in seen[p]
    <3>1. s \in Server
      BY <1>2, <2>3
    <3>2. PICK n \in Name : config' = Inserted(config, n, s)
      BY <1>2, <1>9, <2>3, NamesAssumption DEF Edited, UseContext
    <3>3. s \in creds \cup (raced \cup broken)
      BY <1>5, <1>9, <2>3, <3>1 DEF PointsAtCreds
    <3> QED
      BY <1>7, <1>9, <3>1, <3>2, <3>3 DEF Registry!Next
  <2>4. CASE ~ (s \in Name /\ config.contexts[s] # NoServer) /\ s \notin seen[p]
    BY <1>2, <1>9, <2>4 DEF Edited, UseContext
  <2> QED
    BY <2>2, <2>3, <2>4
<1>10. CASE job[p].cmd = "logout"
  <2> DEFINE kept == [n \in Name |-> IF config.contexts[n] = s THEN NoServer
                                    ELSE config.contexts[n]]
             active == config.current # NoName /\ kept[config.current] # NoServer
  <2>1. /\ config'.contexts = kept
        /\ config'.current = IF active THEN config.current ELSE NoName
    BY <1>2, <1>10 DEF Edited, DropContexts
  <2>2. config.current # NoName =>
           config.current \in Name /\ config.contexts[config.current] # NoServer
    BY <1>2 DEF SafetyInv, ActiveContextExists, Config
  <2>3. CASE s \in Server
    <3>1. Dropping(p, s)
      BY <1>2, <1>10 DEF Dropping
    <3>2. \A z \in Server : Dropping(p, z) => z = s
      BY DEF Dropping
    <3>3. \/ Leaving' = Leaving \ {s}
          \/ Leaving' = Leaving /\ s \in raced
      <4>1. ASSUME NEW q \in Proc \ {p}, Dropping(q, s) PROVE s \in raced
        BY <1>2, <2>3, <4>1 DEF ApartInv, Dropping, Editing
      <4>2. /\ Leaving' \in {Leaving, Leaving \ {s}}
            /\ Dropping(p, s) => \/ Leaving' = Leaving \ {s}
                                \/ \E q \in Proc \ {p} : Dropping(q, s)
        BY <1>4, <2>3, <3>2, LeavingLess
      <4> QED
        BY <3>1, <4>1, <4>2
    <3>4. s \in Leaving
      BY <2>3, <3>1, LeavingFacts
    <3>5. config'.current = IF config.current # NoName /\ config.contexts[config.current] = s
                              THEN NoName ELSE config.current
      BY <2>1, <2>2
    <3>6. Registry!Drop(s)
      BY <1>1, <1>3, <2>1, <3>3, <3>4, <3>5 DEF Registry!Drop
    <3> QED
      BY <2>3, <3>6 DEF Registry!Next
  <2>4. CASE s \notin Server
    <3>1. s = NoServer
      BY <1>2, <1>10, <2>4 DEF SafetyInv, JobInv
    <3>2. config'.contexts = config.contexts /\ config'.current = config.current
      BY <1>2, <2>1, <2>2, <3>1 DEF Config
    <3>3. \A z \in Server : ~ Dropping(p, z)
      BY <2>4 DEF Dropping
    <3>4. Leaving' = Leaving
      BY <1>4, <3>3, LeavingSame
    <3> QED
      BY <1>1, <3>2, <3>4, Stutter
  <2> QED
    BY <2>3, <2>4
<1> QED
  BY <1>2, <1>8, <1>9, <1>10 DEF SafetyInv, JobInv

\* A command that fails before it writes config.yaml.
LEMMA FailRefines ==
  ASSUME TypeOK, NEW p \in Proc, Fail(p)
  PROVE  Registry!Next \/ UNCHANGED Registry!vars
<1> DEFINE s == job[p].on
<1>1. /\ UNCHANGED <<creds, config, torn, raced>> /\ broken' = broken \cup ({s} \cap Server)
      /\ OnlyMoves(p) /\ \A z \in Server : ~ Dropping(p, z)'
  BY DEF Fail, files, Finish, Goto, TypeOK, OnlyMoves, Dropping
<1>2. CASE s \in Server
  <2>1. Leaving' \in {Leaving, Leaving \ {s}}
    <3>1. \A z \in Server : Dropping(p, z) => z = s
      BY DEF Dropping
    <3> QED
      BY <1>1, <1>2, <3>1, LeavingLess
  <2>2. (raced \cup broken)' = (raced \cup broken) \cup {s}
    BY <1>1, <1>2
  <2>3. Registry!Doubt(s)
    BY <1>1, <2>1, <2>2 DEF Registry!Doubt
  <2> QED
    BY <1>2, <2>3 DEF Registry!Next
<1>3. CASE s \notin Server
  <2>1. \A z \in Server : ~ Dropping(p, z)
    BY <1>3 DEF Dropping
  <2>2. Leaving' = Leaving
    BY <1>1, <2>1, LeavingSame
  <2>3. broken' = broken
    BY <1>1, <1>3
  <2> QED
    BY <1>1, <2>2, <2>3, Stutter
<1> QED
  BY <1>2, <1>3

\* A command that fails while it writes config.yaml.
LEMMA FailTornRefines ==
  ASSUME TypeOK, SafetyInv, TornInv, NEW p \in Proc, FailTorn(p)
  PROVE  Registry!Next \/ UNCHANGED Registry!vars
<1> DEFINE s == job[p].on
<1>1. /\ UNCHANGED <<creds, raced>> /\ broken' = broken \cup ({s} \cap Server)
      /\ pc[p] = "writing"
  BY DEF FailTorn
<1>2. Leaving' = Leaving
  <2>1. OnlyMoves(p) /\ \A z \in Server : ~ Dropping(p, z)' /\ ~ Dropping(p, z)
    BY DEF FailTorn, Finish, Goto, TypeOK, OnlyMoves, Dropping
  <2> QED
    BY <2>1, LeavingSame
<1>3. ~ torn
  BY <1>1, NoProcAssumption DEF TypeOK, TornInv
<1>4. /\ s \in Server => (raced \cup broken)' = (raced \cup broken) \cup {s}
      /\ s \notin Server => broken' = broken
  BY <1>1
<1>5. CASE torn' = TRUE /\ config' = config
  <2>1. (raced \cup broken)' \in {raced \cup broken}
                                 \cup {(raced \cup broken) \cup {z} : z \in Server}
    BY <1>1, <1>4
  <2>2. Registry!Wreck
    BY <1>1, <1>2, <1>3, <1>5, <2>1 DEF Registry!Wreck
  <2> QED
    BY <2>2 DEF Registry!Next
<1>6. CASE torn' = torn /\ config' \in Tailed(read[p], config)
  <2>1. /\ config' \in Config /\ config \in Config
        /\ config'.current = config.current
    BY <1>6, TailedFacts DEF TypeOK
  <2>2. \A n \in Name : config'.contexts[n] # config.contexts[n] =>
           config'.contexts[n] = s /\ config.contexts[n] = NoServer
    BY <1>1, <1>6, TailIsALogout DEF SafetyInv
  <2>3. CASE s \in Server
    <3> DEFINE back == {n \in Name : config'.contexts[n] # config.contexts[n]}
    <3>1. back \in SUBSET {n \in Name : config.contexts[n] = NoServer}
      BY <2>2
    <3>2. config'.contexts = [n \in Name |-> IF n \in back THEN s ELSE config.contexts[n]]
      BY <2>1, <2>2 DEF Config
    <3>3. Registry!Return(s)
      BY <1>1, <1>2, <1>3, <1>4, <1>6, <2>1, <2>3, <3>1, <3>2 DEF Registry!Return
    <3> QED
      BY <2>3, <3>3 DEF Registry!Next
  <2>4. CASE s \notin Server
    <3>1. config'.contexts = config.contexts
      BY <2>1, <2>2, <2>4 DEF Config
    <3> QED
      BY <1>1, <1>2, <1>4, <1>6, <2>1, <2>4, <3>1, Stutter
  <2> QED
    BY <2>3, <2>4
<1> QED
  BY <1>5, <1>6 DEF FailTorn

-----------------------------------------------------------------------------
LEMMA InitRefines == Init => Registry!Init
<1> SUFFICES ASSUME Init PROVE Registry!Init
  OBVIOUS
<1>1. config.contexts = NoContexts /\ config.current = NoName
  BY DEF Init
<1>2. Leaving = {}
  BY DEF Init, Leaving, LoggingOut, InFlight, Editing
<1> QED
  BY <1>1, <1>2 DEF Init, NoContexts, Registry!Init

LEMMA NextRefines ==
  TypeOK /\ SafetyInv /\ ApartInv /\ TornInv /\ [Next]_vars => [Registry!Next]_Registry!vars
<1> SUFFICES ASSUME TypeOK, SafetyInv, ApartInv, TornInv, [Next]_vars
             PROVE  Registry!Next \/ UNCHANGED Registry!vars
  OBVIOUS
<1>0. JobInv
  BY DEF SafetyInv
<1>1. ASSUME NEW p \in Proc, NEW s \in Server, NEW n \in Name, Login(p, s, n)
      PROVE  Registry!Next
  BY <1>1, LoginRefines DEF Registry!Next
<1>2. ASSUME NEW p \in Proc, NEW t \in Server \cup Name, Use(p, t)
      PROVE  Registry!Next \/ UNCHANGED Registry!vars
  BY <1>2, UseRefines DEF Registry!Next
<1>3. ASSUME NEW p \in Proc, RemoveCreds(p)
      PROVE  Registry!Next \/ UNCHANGED Registry!vars
  BY <1>0, <1>3, RemoveRefines DEF Registry!Next
<1>4. ASSUME NEW p \in Proc, WriteConfig(p) \/ Fail(p) \/ FailTorn(p)
      PROVE  Registry!Next \/ UNCHANGED Registry!vars
  BY <1>4, WriteRefines, FailRefines, FailTornRefines
<1>5. ASSUME NEW p \in Proc, NEW cmd \in {"api", "logout"}, NEW sel \in Selectors,
             Select(p, cmd, sel)
      PROVE  UNCHANGED Registry!vars
  <2>1. PICK c \in Readable : Picks(p, cmd, sel, c)
    BY <1>5, SelectJob
  <2>2. OnlyMoves(p) /\ \A z \in Server : ~ Dropping(p, z)' /\ ~ Dropping(p, z)
    BY <1>5, <2>1 DEF Select, Picks, Goto, TypeOK, OnlyMoves, Dropping
  <2>3. Leaving' = Leaving
    BY <2>2, LeavingSame
  <2> QED
    BY <1>5, <2>3, Stutter DEF Select, files
<1>6. ASSUME NEW p \in Proc, ReadConfig(p) \/ Load(p) \/ Truncate(p) \/ Bail(p)
      PROVE  UNCHANGED Registry!vars
  <2>1. OnlyMoves(p)
    BY <1>6 DEF ReadConfig, Load, Truncate, Bail, Finish, Goto, TypeOK, OnlyMoves
  <2>2. ReadConfig(p) => \A z \in Server : Dropping(p, z)' <=> Dropping(p, z)
    BY DEF ReadConfig, Goto, TypeOK, Dropping
  <2>3. Bail(p) => job[p].cmd # "logout"
    BY DEF Bail, Edited, DropContexts
  <2>4. Load(p) \/ Truncate(p) \/ Bail(p) =>
           \A z \in Server : ~ Dropping(p, z)' /\ ~ Dropping(p, z)
    BY <2>3 DEF Load, Truncate, Bail, Finish, Goto, TypeOK, Dropping
  <2>5. Leaving' = Leaving
    BY <1>6, <2>1, <2>2, <2>4, LeavingSame
  <2> QED
    BY <1>6, <2>5, Stutter DEF ReadConfig, Load, Truncate, Bail, files, history
<1>7. CASE UNCHANGED vars
  <2>1. Leaving' = Leaving
    BY <1>7 DEF vars, Leaving, LoggingOut, InFlight
  <2> QED
    BY <1>7, <2>1, Stutter DEF vars
<1> QED
  BY <1>1, <1>2, <1>3, <1>4, <1>5, <1>6, <1>7, SelectorIsOne DEF Next

\* Login, logout and `config use` implement ServerRegistry: although each edits
\* two files under two locks, and may fail between and within them, on servers
\* that are not doubtful they act like single steps on one registry
\* (edit_config, save_context, remove_context, config use).
THEOREM Implements == Spec => RegistryRefined
<1>1. Init => Registry!Init
  BY InitRefines
<1>2. TypeOK /\ SafetyInv /\ ApartInv /\ TornInv /\ [Next]_vars
         => [Registry!Next]_Registry!vars
  BY NextRefines
<1> QED
  BY <1>1, <1>2, TypeCorrect, Safety, Separation, PTL DEF Spec, RegistryRefined, Registry!Spec

-----------------------------------------------------------------------------
(***************************************************************************)
(* What follows from ServerRegistry alone: the steps of Contexts are not   *)
(* looked at any more.                                                     *)
(***************************************************************************)
LEMMA RegistryInit == Registry!Init => Registry!TypeOK /\ Registry!Consistent
BY DEF Registry!Init, Registry!TypeOK, Registry!Consistent

LEMMA RegistryType ==
  Registry!TypeOK /\ [Registry!Next]_Registry!vars => Registry!TypeOK'
<1> SUFFICES ASSUME Registry!TypeOK, [Registry!Next]_Registry!vars PROVE Registry!TypeOK'
  OBVIOUS
<1> USE DEF Registry!TypeOK
<1>1. ASSUME NEW s \in Server, Registry!Know(s) \/ Registry!Forget(s) \/ Registry!Doubt(s)
      PROVE  Registry!TypeOK'
  BY <1>1 DEF Registry!Know, Registry!Forget, Registry!Doubt, Registry!MayDoubt
<1>2. ASSUME NEW s \in Server, Registry!Drop(s) \/ Registry!Return(s) PROVE Registry!TypeOK'
  BY <1>2 DEF Registry!Drop, Registry!Return
<1>3. ASSUME NEW n \in Name, Registry!Activate(n) \/ \E s \in Server : Registry!Save(n, s)
      PROVE  Registry!TypeOK'
  BY <1>3 DEF Registry!Activate, Registry!Save
<1>4. CASE Registry!Wreck
  BY <1>4 DEF Registry!Wreck
<1>5. CASE UNCHANGED Registry!vars
  BY <1>5 DEF Registry!vars
<1> QED
  BY <1>1, <1>2, <1>3, <1>4, <1>5 DEF Registry!Next

LEMMA RegistryConsistent ==
  Registry!TypeOK /\ Registry!Consistent /\ [Registry!Next]_Registry!vars
     => Registry!Consistent'
<1> SUFFICES ASSUME Registry!TypeOK, Registry!Consistent, [Registry!Next]_Registry!vars
             PROVE  Registry!Consistent'
  OBVIOUS
<1> USE DEF Registry!TypeOK, Registry!Consistent
<1>1. ASSUME NEW s \in Server, Registry!Know(s) PROVE Registry!Consistent'
  BY <1>1 DEF Registry!Know, Registry!MayDoubt
<1>2. ASSUME NEW s \in Server, Registry!Forget(s) PROVE Registry!Consistent'
  BY <1>2 DEF Registry!Forget, Registry!MayDoubt
<1>3. ASSUME NEW s \in Server, Registry!Drop(s) PROVE Registry!Consistent'
  BY <1>3, ServersAssumption DEF Registry!Drop
<1>4. ASSUME NEW s \in Server, Registry!Doubt(s) PROVE Registry!Consistent'
  BY <1>4 DEF Registry!Doubt
<1>5. ASSUME NEW s \in Server, Registry!Return(s) PROVE Registry!Consistent'
  BY <1>5, ServersAssumption DEF Registry!Return
<1>6. ASSUME NEW n \in Name, Registry!Activate(n) PROVE Registry!Consistent'
  BY <1>6 DEF Registry!Activate
<1>7. ASSUME NEW n \in Name, NEW s \in Server, Registry!Save(n, s) PROVE Registry!Consistent'
  BY <1>7, ServersAssumption DEF Registry!Save
<1>8. CASE Registry!Wreck
  BY <1>8 DEF Registry!Wreck
<1>9. CASE UNCHANGED Registry!vars
  BY <1>9 DEF Registry!vars
<1> QED
  BY <1>1, <1>2, <1>3, <1>4, <1>5, <1>6, <1>7, <1>8, <1>9 DEF Registry!Next

\* Through every crash and interleaving the two files stay consistent as one
\* registry does: the active context exists, a context of a server that is not
\* doubtful has credentials or a logout on its way to drop it, and no server
\* that is not doubtful is logged in while it is being logged out (store.rs:
\* "no context ever references missing credentials", as far as it is true).
THEOREM Consistency == Spec => []Registry!Consistent
<1>1. Registry!TypeOK /\ Registry!Consistent /\ [Registry!Next]_Registry!vars
         => Registry!TypeOK' /\ Registry!Consistent'
  BY RegistryType, RegistryConsistent
<1> QED
  BY <1>1, RegistryInit, Implements, PTL DEF RegistryRefined, Registry!Spec

\* A logged-in server keeps its contexts until a logout of it begins: one can only
\* be given, by name, to another logged-in server, and is the active one then.
THEOREM ContextsStand == Spec => Registry!ContextsStand
<1> DEFINE Stands == \A n \in Name :
          LET s == config.contexts[n] IN
          /\ s \in creds \ (raced \cup broken) /\ s \notin Leaving
          /\ config.contexts'[n] # s
          => config.contexts'[n] \in creds \cup (raced \cup broken) /\ config.current' = n
<1>1. ASSUME Registry!TypeOK, [Registry!Next]_Registry!vars PROVE Stands
  <2> SUFFICES ASSUME NEW n \in Name,
                      config.contexts[n] \in creds \ (raced \cup broken),
                      config.contexts[n] \notin Leaving,
                      config'.contexts[n] # config.contexts[n]
               PROVE  /\ config'.contexts[n] \in creds \cup (raced \cup broken)
                      /\ config'.current = n
    OBVIOUS
  <2> USE <1>1 DEF Registry!TypeOK
  <2>1. ASSUME NEW s \in Server, Registry!Know(s) \/ Registry!Forget(s) \/ Registry!Doubt(s)
        PROVE  FALSE
    BY <2>1 DEF Registry!Know, Registry!Forget, Registry!Doubt
  <2>2. ASSUME NEW s \in Server, Registry!Drop(s) \/ Registry!Return(s) PROVE FALSE
    BY <2>2, ServersAssumption DEF Registry!Drop, Registry!Return
  <2>3. ASSUME NEW m \in Name, NEW s \in Server, Registry!Save(m, s)
        PROVE  /\ config'.contexts[n] \in creds \cup (raced \cup broken)
               /\ config'.current = n
    BY <2>3 DEF Registry!Save
  <2>4. ASSUME NEW m \in Name, Registry!Activate(m) PROVE FALSE
    BY <2>4 DEF Registry!Activate
  <2>5. Registry!Wreck \/ UNCHANGED Registry!vars => FALSE
    BY DEF Registry!Wreck, Registry!vars
  <2> QED
    BY <2>1, <2>2, <2>3, <2>4, <2>5 DEF Registry!Next
<1>2. Registry!TypeOK /\ [Registry!Next]_Registry!vars => Registry!TypeOK'
  BY RegistryType
<1>3. Registry!TypeOK /\ [Registry!Next]_Registry!vars => [Stands]_Registry!vars
  BY <1>1
<1> QED
  BY <1>2, <1>3, RegistryInit, Implements, PTL
     DEF RegistryRefined, Registry!Spec, Registry!ContextsStand
=============================================================================
