---------------------------- MODULE ServerRegistry ----------------------------
(***************************************************************************)
(* What login, logout and `config use` promise, together, about the servers *)
(* bbcli knows and the contexts that name them: the abstract specification  *)
(* that Contexts implements.  It knows no process, no lock and no file, only *)
(* one registry in which every change is a single step.                     *)
(*                                                                          *)
(* A logout is two of its steps: the server is forgotten, then its contexts *)
(* are dropped, all of them at once.  Nothing is promised of the credentials *)
(* and contexts of a doubtful server, one that two commands edited at the   *)
(* same time or that an edit failed on; the others are promised about as if *)
(* it were not there.                                                       *)
(***************************************************************************)
CONSTANTS Server, Name, NoName, NoServer

VARIABLES
    known,     \* servers with credentials
    contexts,  \* the server each name points at, NoServer for none
    active,    \* the active context, NoName for none
    leaving,   \* servers forgotten whose contexts are still to be dropped
    doubtful,  \* servers nothing is promised of
    whole      \* FALSE once contexts can no longer be read or changed

vars == <<known, contexts, active, leaving, doubtful, whole>>

Init == /\ known = {}
        /\ contexts = [n \in Name |-> NoServer]
        /\ active = NoName
        /\ leaving = {}
        /\ doubtful = {}
        /\ whole = TRUE

-----------------------------------------------------------------------------
\* A doubtful server stays so.
MayDoubt(s) == doubtful' \in {doubtful, doubtful \cup {s}}

\* A login brings credentials.
Know(s) == /\ known' = known \cup {s}
           /\ MayDoubt(s)
           /\ s \in leaving => s \in doubtful'
           /\ UNCHANGED <<contexts, active, leaving, whole>>

\* A context is made, or moved, to point at a known server, and is active then.
Save(n, s) == /\ whole
              /\ s \in known \cup doubtful
              /\ contexts' = [contexts EXCEPT ![n] = s]
              /\ active' = n
              /\ UNCHANGED <<known, leaving, doubtful, whole>>

\* An existing context becomes the active one.
Activate(n) == /\ whole
               /\ contexts[n] # NoServer
               /\ active' = n
               /\ UNCHANGED <<known, contexts, leaving, doubtful, whole>>

\* A logout removes the credentials ...
Forget(s) == /\ known' = known \ {s}
             /\ leaving' = leaving \cup {s}
             /\ MayDoubt(s)
             /\ s \in leaving => s \in doubtful'
             /\ UNCHANGED <<contexts, active, whole>>

\* ... and then every context of the server, the active one among them.
Drop(s) == /\ whole
           /\ s \in leaving
           /\ contexts' = [n \in Name |-> IF contexts[n] = s THEN NoServer
                                                             ELSE contexts[n]]
           /\ active' = IF active # NoName /\ contexts[active] = s THEN NoName
                                                                   ELSE active
           /\ \/ leaving' = leaving \ {s}
              \/ leaving' = leaving /\ s \in doubtful
           /\ UNCHANGED <<known, doubtful, whole>>

\* Two commands meet on a server, or one fails on it.
Doubt(s) == /\ doubtful' = doubtful \cup {s}
            /\ leaving' \in {leaving, leaving \ {s}}
            /\ UNCHANGED <<known, contexts, active, whole>>

\* A failure half-way through a drop brings contexts of the server back.
Return(s) == /\ whole
             /\ \E back \in SUBSET {n \in Name : contexts[n] = NoServer} :
                    contexts' = [n \in Name |-> IF n \in back THEN s ELSE contexts[n]]
             /\ doubtful' = doubtful \cup {s}
             /\ UNCHANGED <<known, active, leaving, whole>>

\* A failure leaves the contexts unreadable for good.
Wreck == /\ whole
         /\ whole' = FALSE
         /\ doubtful' \in {doubtful} \cup {doubtful \cup {s} : s \in Server}
         /\ UNCHANGED <<known, contexts, active, leaving>>

Next == \/ \E s \in Server : Know(s) \/ Forget(s) \/ Drop(s) \/ Doubt(s) \/ Return(s)
        \/ \E n \in Name : Activate(n) \/ \E s \in Server : Save(n, s)
        \/ Wreck

Spec == Init /\ [][Next]_vars

-----------------------------------------------------------------------------
TypeOK == /\ known \subseteq Server
          /\ contexts \in [Name -> Server \cup {NoServer}]
          /\ active \in Name \cup {NoName}
          /\ leaving \subseteq Server
          /\ doubtful \subseteq Server
          /\ whole \in BOOLEAN

\* The active context exists, and of a server that is not doubtful only a
\* logout which is not done yet leaves contexts without credentials, never
\* beside new credentials.
Consistent ==
    /\ active # NoName => contexts[active] # NoServer
    /\ \A n \in Name : contexts[n] \in {NoServer} \cup known \cup leaving \cup doubtful
    /\ known \cap leaving \subseteq doubtful

\* A server changes hands only through a login or a logout of it: one that is
\* known and not doubtful keeps its contexts until it is forgotten, unless a
\* context's name is given to another server.
ContextsStand ==
    [][\A n \in Name :
          LET s == contexts[n] IN
          /\ s \in known \ doubtful /\ s \notin leaving
          /\ contexts'[n] # s
          => contexts'[n] \in known \cup doubtful /\ active' = n]_vars
=============================================================================
