------------------------------ MODULE LoginFlow ------------------------------
(***************************************************************************)
(* One `bbcli login` up to the exchange of its authorization code: the      *)
(* select loop of wait_for_code (oauth.rs) between the loopback listener,   *)
(* a line pasted on stdin and the ten-minute deadline.                      *)
(*                                                                          *)
(* Anyone on the machine may connect to the listener, say nothing, ask for  *)
(* something else (a favicon) or bring the redirect of another attempt.     *)
(* What the exchanged code is good for is module TokenStore.                *)
(***************************************************************************)
EXTENDS SequencesExt

CONSTANTS
    Conn,     \* connections open at the same time; their number is the bound
    NoConn    \* no connection is being read

ASSUME NoConnAssumption == NoConn \notin Conn

VARIABLES
    pc,       \* where the process is
    result,   \* why the wait ended
    taken,    \* the redirect whose code is being exchanged
    queue,    \* connections made and not accepted yet, oldest first
    current,  \* the connection whose request head is being read
    asked,    \* what each connection brings, "nothing" while it is not open
    spoken,   \* connections that have sent their request head or closed
    line,     \* stdin: "open", what came in, or "spent"
    late      \* the deadline has passed

wait == <<queue, current, asked, spoken>>
vars == <<pc, result, taken, queue, current, asked, spoken, line, late>>

\* The query of a redirect, as far as classify looks at it.
Redirect == [kind : {"redirect"}, error : BOOLEAN, state : {"own", "other", "none"},
             code : BOOLEAN]
Is(kind) == [kind |-> kind]

\* A request for another path, a target that is no URL, a connection that is
\* closed or reset before a head has come: all answered 400 or 404.
Request == Redirect \cup {Is("stray")}
Input == Redirect \cup {Is("blank"), Is("eof"), Is("unreadable")}

Listening == {"register", "waiting", "reading"}
Ended == {"ok", "failed"}

Init == /\ pc = "register"
        /\ result = "none"
        /\ taken = Is("nothing")
        /\ queue = <<>>
        /\ current = NoConn
        /\ asked = [c \in Conn |-> Is("nothing")]
        /\ spoken = {}
        /\ line = Is("open")
        /\ late = FALSE

-----------------------------------------------------------------------------
(* The world *)

\* The listener is bound before the client registers, and closes with the wait.
Connect(c, r) ==
    /\ pc \in Listening
    /\ asked[c].kind = "nothing"
    /\ asked' = [asked EXCEPT ![c] = r]
    /\ queue' = Append(queue, c)
    /\ UNCHANGED <<pc, result, taken, current, spoken, line, late>>

Speak(c) ==
    /\ asked[c].kind # "nothing"
    /\ c \notin spoken
    /\ spoken' = spoken \cup {c}
    /\ UNCHANGED <<pc, result, taken, queue, current, asked, line, late>>

\* A thread of the wait reads one line, a line typed earlier included.
Type(i) ==
    /\ pc # "register"
    /\ line.kind = "open"
    /\ line' = i
    /\ UNCHANGED <<pc, result, taken, wait, late>>

\* 600 seconds after the wait began.  They do not pass while the process has
\* something to do at once, only while it waits for a peer or for anything at all.
Clock ==
    /\ \/ pc = "reading" /\ current \notin spoken
       \/ pc = "waiting" /\ queue = <<>> /\ line.kind \in {"open", "spent"}
    /\ ~ late
    /\ late' = TRUE
    /\ UNCHANGED <<pc, result, taken, wait, line>>

-----------------------------------------------------------------------------
(* What an input means *)

ClassifyUnbound(r) == IF r.error THEN "refused"
                      ELSE IF r.code THEN "code" ELSE "missing"
classify(r) == IF r.error THEN "refused"
               ELSE IF r.state # "own" THEN "mismatch"
               ELSE IF r.code THEN "code" ELSE "missing"

\* The redirect of this login, or of any other attempt, ends the wait.
Decide(r) == LET verdict == classify(r) IN
    /\ result' = verdict
    /\ taken' = IF verdict = "code" THEN r ELSE taken
    /\ pc' = IF verdict = "code" THEN "exchange" ELSE "failed"

EndWait(why) == /\ pc' = "failed"
                /\ result' = why
                /\ UNCHANGED taken

-----------------------------------------------------------------------------
(* login and wait_for_code *)

Register ==
    /\ pc = "register"
    /\ \/ pc' = "waiting" /\ UNCHANGED <<result, taken>>
       \/ EndWait("error")
    /\ UNCHANGED <<wait, line, late>>

AcceptPeeks ==
    /\ pc = "waiting"
    /\ queue # <<>>
    /\ current' = Head(queue)
    /\ pc' = "reading"
    /\ UNCHANGED <<result, taken, queue, asked, spoken, line, late>>
Accept ==
    /\ pc = "waiting"
    /\ queue # <<>>
    /\ current' = Head(queue)
    /\ queue' = Tail(queue)
    /\ pc' = "reading"
    /\ UNCHANGED <<result, taken, asked, spoken, line, late>>

AcceptFails ==
    /\ pc = "waiting"
    /\ EndWait("error")
    /\ UNCHANGED <<wait, line, late>>

\* read_http_head is awaited inside the arm of the select: until the peer has
\* spoken, neither stdin nor the deadline is looked at.  The answer closes the
\* connection, and another may be made in its place.
AnswerSkips ==
    /\ pc = "reading"
    /\ current \in spoken
    /\ current' = NoConn
    /\ asked' = [asked EXCEPT ![current] = Is("nothing")]
    /\ spoken' = spoken \ {current}
    /\ IF asked[current].kind = "stray" \/ classify(asked[current]) = "mismatch"
         THEN pc' = "waiting" /\ UNCHANGED <<result, taken>>
         ELSE Decide(asked[current])
    /\ UNCHANGED <<queue, line, late>>
Answer ==
    /\ pc = "reading"
    /\ current \in spoken
    /\ current' = NoConn
    /\ asked' = [asked EXCEPT ![current] = Is("nothing")]
    /\ spoken' = spoken \ {current}
    /\ IF asked[current].kind = "stray"
         THEN pc' = "waiting" /\ UNCHANGED <<result, taken>>
         ELSE Decide(asked[current])
    /\ UNCHANGED <<queue, line, late>>

\* A pasted line is a redirect if it has a code or an error.
TakeLine ==
    /\ pc = "waiting"
    /\ line.kind \in {"redirect", "blank", "unreadable"}
    /\ line' = Is("spent")
    /\ CASE line.kind = "unreadable" -> EndWait("error")
         [] line.kind = "redirect" /\ (line.code \/ line.error) -> Decide(line)
         [] OTHER -> EndWait("not a redirect")
    /\ UNCHANGED <<wait, late>>

\* stdin closed: the callback is still coming.
TakeEof ==
    /\ pc = "waiting"
    /\ line.kind = "eof"
    /\ line' = Is("spent")
    /\ UNCHANGED <<pc, result, taken, wait, late>>

\* timeout_at polls accept first: a connection that is there is taken.  A line is
\* not: select polls stdin and the listener in a random order, so the deadline may
\* end the wait when a line has come.
TimeoutFirst ==
    /\ pc = "waiting"
    /\ late
    /\ EndWait("timeout")
    /\ UNCHANGED <<wait, line, late>>
TimeoutOnStdin ==
    /\ pc = "waiting"
    /\ late
    /\ queue = <<>>
    /\ line.kind # "spent"
    /\ EndWait("timeout")
    /\ UNCHANGED <<wait, line, late>>
Timeout ==
    /\ pc = "waiting"
    /\ late
    /\ queue = <<>>
    /\ EndWait("timeout")
    /\ UNCHANGED <<wait, line, late>>

\* exchange_code and save_credentials.
Exchange ==
    /\ pc = "exchange"
    /\ pc' \in Ended
    /\ UNCHANGED <<result, taken, wait, line, late>>

\* A kill.
Fail ==
    /\ pc \notin Ended
    /\ EndWait("killed")
    /\ UNCHANGED <<wait, line, late>>

-----------------------------------------------------------------------------
World == \/ \E c \in Conn, r \in Request : Connect(c, r)
         \/ \E c \in Conn : Speak(c)
         \/ \E i \in Input : Type(i)
         \/ Clock

Program == \/ Register
           \/ Accept
           \/ Answer
           \/ TakeLine
           \/ TakeEof
           \/ Timeout
           \/ Exchange

Next == World \/ Program \/ AcceptFails \/ Fail

Spec == Init /\ [][Next]_vars

\* The process runs, its OAuth requests carry a timeout, and time passes.
\* Nobody has to connect or to type.
Fairness == WF_vars(Program) /\ WF_vars(Clock)

\* A peer may stay silent for ever ...
SilentPeersSpec == Spec /\ Fairness

\* ... or says or closes something in the end.
FairSpec == SilentPeersSpec /\ \A c \in Conn : WF_vars(Speak(c))

-----------------------------------------------------------------------------
(* Correctness *)

\* Every variable holds a value of its kind; a connection is queued once, and
\* one is being read exactly while the process reads (or was killed reading).
TypeOK ==
    /\ pc \in Listening \cup Ended \cup {"exchange"}
    /\ result \in {"none", "code", "refused", "mismatch", "missing", "timeout",
                   "not a redirect", "error", "killed"}
    /\ taken \in Redirect \cup {Is("nothing")}
    /\ queue \in Seq(Conn) /\ IsInjective(queue)
    /\ current \in {NoConn} \cup (Conn \ ToSet(queue))
    /\ pc = "reading" => current # NoConn
    /\ asked \in [Conn -> Request \cup {Is("nothing")}]
    /\ spoken \subseteq {c \in Conn : asked[c].kind # "nothing"}
    /\ line \in Input \cup {Is("open"), Is("spent")}
    /\ late \in BOOLEAN

\* A code is exchanged only if it came with this attempt's state and without an
\* error, whichever way it came.
CodeIsBound ==
    pc \in {"exchange", "ok"} => ~ taken.error /\ taken.state = "own" /\ taken.code

\* A login that times out has answered every connection made before: no callback
\* was waiting behind a slow or stray one (timeout_at polls accept first).  It
\* says nothing of a line on stdin, see PasteIsTaken.
TimeoutMeansNoCallback ==
    result = "timeout" => \A c \in Conn : asked[c] \notin Redirect

\* A stream of connections that never stops.
EndlessConnections ==
    []<><<\E c \in Conn, r \in Request : Connect(c, r)>>_vars

\* With peers that say or close something in the end, a login ends: at the
\* latest with the deadline, stdin closed or not.  Only an endless stream of
\* connections can postpone it, since accept is polled before the deadline.
LoginEnds == <>(pc \in Ended) \/ EndlessConnections

Nobody == Is("nothing")

\* The redirect a connection or the line brings, if it is one.
Brought(c) == IF asked[c] \in Redirect THEN asked[c] ELSE Nobody
Pasted == IF line.kind = "redirect" /\ (line.code \/ line.error) THEN line ELSE Nobody

\* The redirects whose code this attempt may exchange.
Own == {r \in Redirect : ~ r.error /\ r.state = "own" /\ r.code}

\* What the README says of login, that it takes whichever arrives first, the
\* callback or a pasted redirect: one of this attempt that is pasted before the
\* deadline does not lose to it, be it behind a slow connection.
PasteIsTaken == [](Pasted \in Own /\ ~ late => [](result # "timeout"))

\* What login prints and the README shows: it waits up to ten minutes (and
\* nobody connects without end).
WaitIsBounded == (late ~> pc \notin {"waiting", "reading"}) \/ EndlessConnections

-----------------------------------------------------------------------------
(* The abstract specification *)

\* What has become of the login.
Phase == CASE pc \in Listening -> "open"
           [] pc = "exchange"   -> "granted"
           [] pc = "ok"         -> "done"
           [] pc = "failed"     -> CASE result = "timeout" -> "timed out"
                                     [] result \in {"refused", "mismatch", "missing"} -> "refused"
                                     [] OTHER -> "failed"

Decision == INSTANCE LoginDecision WITH
    Peer <- Conn,
    None <- Nobody,
    phase <- Phase,
    arrived <- [c \in Conn |-> Brought(c)],
    pasted <- Pasted,
    choice <- taken

\* The queue of connections, the one being read, stdin, the deadline and failures
\* amount to what LoginDecision allows: the first redirect that is looked at
\* decides, none is answered and forgotten or judged by other rules because of
\* the way it came, and the deadline overtakes none that a connection brought.
DecisionRefined == Decision!Spec

-----------------------------------------------------------------------------
(* The inductive invariant behind the theorems of LoginFlowProofs *)

\* An open connection waits in the queue or is being read: none is forgotten.
OpenInv == \A c \in Conn :
    asked[c].kind # "nothing" <=> c \in ToSet(queue) \/ c = current

\* A connection is read only in the arm of the select that accepted it.
ReadingInv == pc \in {"register", "waiting", "exchange", "ok"} => current = NoConn

\* Why the wait ended is there when it has ended.
ResultInv == /\ result = "timeout" => pc = "failed"
             /\ pc = "exchange" => result = "code"

SafetyInv == /\ OpenInv
             /\ ReadingInv
             /\ ResultInv
             /\ CodeIsBound
             /\ TimeoutMeansNoCallback
=============================================================================
