----------------------------- MODULE LoginDecision -----------------------------
(***************************************************************************)
(* What `bbcli login` promises of the redirects that reach it: the abstract *)
(* specification that LoginFlow implements.  It knows no connection, queue  *)
(* or clock, only the redirects that peers have brought to the listener and *)
(* the one the user has pasted, and that the first one it looks at decides. *)
(***************************************************************************)

CONSTANTS
    Peer,      \* those who may bring a redirect to the listener
    Redirect,
    Own,       \* the redirects whose code this attempt may exchange
    None       \* no redirect

VARIABLES
    phase,     \* "open" while the login waits, then what has become of it
    arrived,   \* the redirect each peer has brought and got no answer to
    pasted,    \* the redirect on stdin
    choice     \* the redirect whose code is exchanged

vars == <<phase, arrived, pasted, choice>>

Init == /\ phase = "open"
        /\ arrived = [p \in Peer |-> None]
        /\ pasted = None
        /\ choice = None

-----------------------------------------------------------------------------
Arrive(p, r) == /\ phase = "open"
                /\ arrived[p] = None
                /\ arrived' = [arrived EXCEPT ![p] = r]
                /\ UNCHANGED <<phase, pasted, choice>>

Paste(r) == /\ pasted = None
            /\ pasted' = r
            /\ UNCHANGED <<phase, arrived, choice>>

\* The login is decided, one way or the other.
Judge(r) == /\ phase = "open"
            /\ phase' = IF r \in Own THEN "granted" ELSE "refused"
            /\ choice' = IF r \in Own THEN r ELSE choice

Answer(p) == /\ arrived[p] # None
             /\ Judge(arrived[p])
             /\ arrived' = [arrived EXCEPT ![p] = None]
             /\ UNCHANGED pasted

TakePasted == /\ pasted # None
              /\ Judge(pasted)
              /\ pasted' = None
              /\ UNCHANGED arrived

\* The deadline ends a login that no peer has brought a redirect.  One that is
\* pasted may lose to it.
TimeOut == /\ phase = "open"
           /\ \A p \in Peer : arrived[p] = None
           /\ phase' = "timed out"
           /\ UNCHANGED <<arrived, pasted, choice>>

\* An error, a kill, or a line that is no redirect.
Abandon == /\ phase \in {"open", "granted"}
           /\ phase' = "failed"
           /\ UNCHANGED <<arrived, pasted, choice>>

Store == /\ phase = "granted"
         /\ phase' = "done"
         /\ UNCHANGED <<arrived, pasted, choice>>

Next == \/ \E p \in Peer : Answer(p) \/ \E r \in Redirect : Arrive(p, r)
        \/ \E r \in Redirect : Paste(r)
        \/ TakePasted
        \/ TimeOut
        \/ Abandon
        \/ Store

Spec == Init /\ [][Next]_vars

-----------------------------------------------------------------------------
TypeOK == /\ phase \in {"open", "granted", "refused", "timed out", "failed", "done"}
          /\ arrived \in [Peer -> Redirect \cup {None}]
          /\ pasted \in Redirect \cup {None}
          /\ choice \in Own \cup {None}

\* What is exchanged is this attempt's, a login that timed out has left no peer
\* without an answer, and one that is still open has chosen nothing.
Consistent ==
    /\ phase \in {"granted", "done"} => choice \in Own
    /\ phase = "timed out" => \A p \in Peer : arrived[p] = None
    /\ phase \in {"open", "refused", "timed out"} => choice = None

\* No peer's redirect is answered and forgotten: the one that gets an answer decides
\* the login, for the exchange of its own code or against it; and the choice
\* stands.
Decisive ==
    /\ \A p \in Peer :
          arrived[p] # None /\ arrived'[p] # arrived[p] =>
             /\ phase = "open"
             /\ \/ arrived[p] \in Own /\ phase' = "granted" /\ choice' = arrived[p]
                \/ arrived[p] \notin Own /\ phase' = "refused"
    /\ choice # None => choice' = choice

FirstDecides == [][Decisive]_vars
=============================================================================
