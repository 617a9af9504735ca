--------------------------- MODULE SharedCredential ---------------------------
(***************************************************************************)
(* What the commands of bbcli promise, together, about the refresh token of *)
(* each server: the abstract specification that TokenStore implements.  It  *)
(* knows no process, no lock and no file format, only where the newest pair *)
(* is and which pair the store has.                                         *)
(*                                                                          *)
(* Nothing is promised of a contended server, one that two logins of the    *)
(* same user work on.                                                       *)
(***************************************************************************)
EXTENDS Naturals

CONSTANT Server

VARIABLES
    contended,  \* servers nothing is promised of
    issued,     \* pairs the server has granted so far
    stored,     \* the pair in the store, 0 for none
    place       \* where the newest pair is: "stored"; "carried" by the one process
                \* about to store or revoke it; "lost", dropped by a failure;
                \* "none", when it is revoked or there never was one

vars == <<contended, issued, stored, place>>

Places == {"stored", "carried", "lost", "none"}

TypeOK == /\ contended \subseteq Server
          /\ issued \in [Server -> Nat]
          /\ stored \in [Server -> Nat]
          /\ place \in [Server -> Places]

Init == /\ contended \subseteq Server
        /\ issued \in [Server -> Nat]
        /\ stored = issued
        /\ place = [s \in Server |-> IF stored[s] = 0 THEN "none" ELSE "stored"]

-----------------------------------------------------------------------------
\* The server grants the next pair: its answer arrives, or does not.
Issue(s) == /\ issued'[s] = issued[s] + 1
            /\ stored'[s] = stored[s]
            /\ place'[s] \in {"carried", "lost"}

\* The carrier stores the newest pair.
Store(s) == /\ place[s] = "carried"
            /\ place'[s] = "stored"
            /\ stored'[s] = issued[s]
            /\ issued'[s] = issued[s]

\* A process that was overtaken stores a pair that has been superseded since:
\* never over the live one, never an older one than is there.
StoreStale(s) == /\ place[s] \in {"carried", "lost"}
                 /\ place'[s] = place[s]
                 /\ stored'[s] > stored[s]
                 /\ stored'[s] < issued[s]
                 /\ issued'[s] = issued[s]

\* Logout takes the pair out of the store and carries it to the server.
Remove(s) == /\ stored[s] # 0
             /\ stored'[s] = 0
             /\ place'[s] = IF place[s] = "stored" THEN "carried" ELSE place[s]
             /\ issued'[s] = issued[s]

\* The server drops the grant: never one whose pair the store still has.
Revoke(s) == /\ place[s] \in {"carried", "lost"}
             /\ place'[s] = "none"
             /\ stored'[s] = stored[s]
             /\ issued'[s] = issued[s]

\* The carrier fails.
Lose(s) == /\ place[s] = "carried"
           /\ place'[s] = "lost"
           /\ stored'[s] = stored[s]
           /\ issued'[s] = issued[s]

Same(s) == <<issued'[s], stored'[s], place'[s]>> = <<issued[s], stored[s], place[s]>>

Step(s) == \/ Issue(s)
           \/ Store(s)
           \/ StoreStale(s)
           \/ Remove(s)
           \/ Revoke(s)
           \/ Lose(s)

\* The file is left half-written: every pair the store had is lost at once.
Wreck == \A s \in Server \ contended :
    /\ issued'[s] = issued[s]
    /\ stored'[s] = stored[s]
    /\ place'[s] = IF place[s] = "none" THEN "none" ELSE "lost"

\* One command works on one server, and leaves the others' pairs alone.
Next == /\ TypeOK'
        /\ contended' = contended
        /\ \/ \E s \in Server : /\ s \in contended \/ Step(s) \/ Same(s)
                                /\ \A t \in Server \ (contended \cup {s}) : Same(t)
           \/ Wreck

Spec == Init /\ [][Next]_vars

-----------------------------------------------------------------------------
\* The store has a pair the server granted: the newest one when that is in
\* place, and one that it will replace while the newest is being carried.
Consistent ==
    \A s \in Server \ contended :
        /\ stored[s] <= issued[s]
        /\ place[s] = "stored" => stored[s] = issued[s] /\ stored[s] # 0
        /\ place[s] = "carried" => stored[s] < issued[s]

\* The life of a pair.  Until the server grants the next one it leaves the store
\* only with a logout, which takes it along, or with the whole file; once lost or
\* revoked it never comes back, and the store never goes back to an older pair.
PairsLive ==
    \A s \in Server \ contended :
        /\ stored'[s] # 0 => stored'[s] >= stored[s]
        /\ issued'[s] = issued[s] =>
              /\ place[s] = "stored" /\ place'[s] # "stored"
                    => \/ place'[s] = "lost"
                       \/ place'[s] = "carried" /\ stored'[s] = 0
              /\ place[s] = "lost" => place'[s] \in {"lost", "none"}
              /\ place[s] = "none" => place'[s] = "none"

LifeOfAPair == [][PairsLive]_vars
=============================================================================
