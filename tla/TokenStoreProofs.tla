--------------------------- MODULE TokenStoreProofs ---------------------------
(* Theorems about TokenStore, for every set of processes and servers. *)
EXTENDS TokenStore, TLAPS

(***************************************************************************)
(* Type correctness.                                                       *)
(***************************************************************************)
LEMMA InitType == Init => TypeOK
<1> SUFFICES ASSUME Init PROVE TypeOK
  OBVIOUS
<1>1. pc \in [Proc -> Label]
  BY DEF Init, Start, Command, Label
<1>2. /\ file \in [Server -> Nat]
      /\ issued \in [Server -> Nat]
      /\ live \in [Server -> Nat]
  BY DEF Init
<1>3. /\ torn \in BOOLEAN
      /\ lock \in Proc \cup {NoProc}
      /\ dead \in [Server -> Nat]
      /\ near \in [Server -> Nat]
      /\ cmd \in [Proc -> Command]
      /\ srv \in [Proc -> Server]
      /\ mem \in [Proc -> Nat]
      /\ snap \in [Proc -> [Server -> Nat]]
  BY DEF Init, Nothing
<1>4. /\ sent \in [Proc -> Nat]
      /\ calls \in [Proc -> Nat]
      /\ ran \in [Proc -> Nat]
      /\ lost \in [Server -> BOOLEAN]
  BY DEF Init, Nothing
<1>5. \A s \in Server : file[s] <= issued[s] /\ live[s] \in {0, issued[s]}
  BY <1>2 DEF Init
<1>6. \A p \in Proc : mem[p] <= issued[srv[p]]
  <2>1. mem = [p \in Proc |-> 0]
    BY DEF Init
  <2>2. TAKE p \in Proc
  <2>3. issued[srv[p]] \in Nat /\ mem[p] = 0
    BY <1>2, <1>3, <2>1
  <2> QED
    BY <2>3
<1>7. \A p \in Proc, s \in Server : snap[p][s] <= issued[s]
  BY <1>2, <1>3 DEF Init, Nothing
<1> QED
  BY <1>7, <1>1, <1>2, <1>3, <1>4, <1>5, <1>6 DEF TypeOK

LEMMA NextType == TypeOK /\ [Next]_vars => TypeOK'
<1> SUFFICES ASSUME TypeOK, [Next]_vars PROVE TypeOK'
  OBVIOUS
<1> USE DEF TypeOK, disk, server, clock, client, Goto, ReleaseLock, Nothing, End,
            Quit, Label, Finished
<1>1. ASSUME NEW p \in Proc, Load(p) PROVE TypeOK'
  BY <1>1 DEF Load
<1>2. ASSUME NEW p \in Proc, LoadFails(p) PROVE TypeOK'
  BY <1>2 DEF LoadFails
<1>3. ASSUME NEW p \in Proc, EnsureFresh(p) PROVE TypeOK'
  BY <1>3 DEF EnsureFresh
<1>4. ASSUME NEW p \in Proc, EditTokens(p) PROVE TypeOK'
  BY <1>4 DEF EditTokens, Adopted, Command
<1>5. ASSUME NEW p \in Proc, AdoptFresh(p) PROVE TypeOK'
  BY <1>5 DEF AdoptFresh, Adopted, Command
<1>6. ASSUME NEW p \in Proc, EditTokensFails(p) PROVE TypeOK'
  BY <1>6 DEF EditTokensFails
<1>7. ASSUME NEW p \in Proc, Refresh(p) PROVE TypeOK'
  BY <1>7 DEF Refresh, Grant
<1>8. ASSUME NEW p \in Proc, RefreshRejected(p) PROVE TypeOK'
  BY <1>8 DEF RefreshRejected
<1>9. ASSUME NEW p \in Proc, BeginWrite(p) PROVE TypeOK'
  BY <1>9 DEF BeginWrite
<1>10. ASSUME NEW p \in Proc, EndWrite(p) PROVE TypeOK'
  <2>1. snap[p] \in [Server -> Nat] /\ Entry(p) \in Nat /\ srv[p] \in Server
    BY DEF Entry
  <2>2. file' \in [Server -> Nat]
    BY <1>10, <2>1 DEF EndWrite, Contents
  <2>3. \A s \in Server : file'[s] <= issued'[s]
    BY <1>10, <2>1 DEF EndWrite, Contents, Entry
  <2>4. snap' \in [Proc -> [Server -> Nat]]
    BY <1>10 DEF EndWrite
  <2>5. \A q \in Proc, s \in Server : snap'[q][s] <= issued'[s]
    BY <1>10 DEF EndWrite
  <2>6. pc' \in [Proc -> Label]
    BY <1>10 DEF EndWrite
  <2> QED
    BY <1>10, <2>2, <2>3, <2>4, <2>5, <2>6 DEF EndWrite
<1>11. ASSUME NEW p \in Proc, EditConfig(p) PROVE TypeOK'
  BY <1>11 DEF EditConfig
<1>12. ASSUME NEW p \in Proc, EditConfigThenRevoke(p) PROVE TypeOK'
  BY <1>12 DEF EditConfigThenRevoke
<1>13. ASSUME NEW p \in Proc, Revoke(p) PROVE TypeOK'
  BY <1>13 DEF Revoke
<1>14. ASSUME NEW p \in Proc, RevokeUnknown(p) PROVE TypeOK'
  BY <1>14 DEF RevokeUnknown
<1>15. ASSUME NEW p \in Proc, Exchange(p) PROVE TypeOK'
  BY <1>15 DEF Exchange, Grant
<1>16. ASSUME NEW p \in Proc, PostExecuted(p) PROVE TypeOK'
  BY <1>16 DEF PostExecuted
<1>17. ASSUME NEW p \in Proc, PostThenCall(p) PROVE TypeOK'
  BY <1>17 DEF PostThenCall
<1>18. ASSUME NEW p \in Proc, PostReplyLost(p) PROVE TypeOK'
  BY <1>18 DEF PostReplyLost
<1>19. ASSUME NEW p \in Proc, PostRejected(p) PROVE TypeOK'
  BY <1>19 DEF PostRejected
<1>20. ASSUME NEW p \in Proc, ReplayRejected(p) PROVE TypeOK'
  BY <1>20 DEF ReplayRejected
<1>21. ASSUME NEW p \in Proc, TokenReplyLost(p) PROVE TypeOK'
  BY <1>21 DEF TokenReplyLost, Grant
<1>22. ASSUME NEW p \in Proc, RevokeFails(p) PROVE TypeOK'
  BY <1>22 DEF RevokeFails
<1>23. ASSUME NEW p \in Proc, Fail(p) PROVE TypeOK'
  BY <1>23 DEF Fail
<1>24. ASSUME NEW s \in Server, Tick(s) PROVE TypeOK'
  BY <1>24 DEF Tick
<1>25. ASSUME NEW s \in Server, Reject(s) PROVE TypeOK'
  BY <1>25 DEF Reject
<1>26. CASE UNCHANGED vars
  BY <1>26 DEF vars
<1> QED
  BY <1>1, <1>2, <1>3, <1>4, <1>5, <1>6, <1>7, <1>8, <1>9, <1>10, <1>11,
     <1>12, <1>13, <1>14, <1>15, <1>16, <1>17, <1>18, <1>19, <1>20, <1>21,
     <1>22, <1>23, <1>24, <1>25, <1>26 DEF Next, Bounded, Unbounded


LEMMA NextLock == TypeOK /\ LockInv /\ RoleInv /\ [Next]_vars => LockInv'
<1> SUFFICES ASSUME TypeOK, LockInv, RoleInv, [Next]_vars PROVE LockInv'
  OBVIOUS
<1> USE DEF disk, server, clock, client, Goto, ReleaseLock, Nothing, End, Quit, TypeOK, LockInv, Critical, Wrecked, Label, Finished, RoleInv
<1>1. ASSUME NEW p \in Proc, Load(p) PROVE LockInv'
  BY <1>1 DEF Load
<1>2. ASSUME NEW p \in Proc, LoadFails(p) PROVE LockInv'
  BY <1>2 DEF LoadFails
<1>3. ASSUME NEW p \in Proc, EnsureFresh(p) PROVE LockInv'
  BY <1>3 DEF EnsureFresh
<1>4. ASSUME NEW p \in Proc, EditTokens(p) PROVE LockInv'
  <2>1. \A q \in Proc : lock' = q <=> pc'[q] \in Critical
    BY <1>4, NoProcAssumption DEF EditTokens, MayLock
  <2>2. \A q \in Proc : pc'[q] \in Critical => snap'[q] = file'
    BY <1>4, NoProcAssumption DEF EditTokens, MayLock
  <2>3. \A q \in Proc : pc'[q] = "writing" => torn'
    BY <1>4, NoProcAssumption DEF EditTokens, MayLock
  <2>4. torn' /\ lock' # NoProc => pc'[lock'] = "writing"
    BY <1>4, NoProcAssumption DEF EditTokens, MayLock
  <2>5. Wrecked' => \E q \in Proc : pc'[q] = "failed"
    BY <1>4, NoProcAssumption DEF EditTokens, MayLock
  <2> QED
    BY <2>1, <2>2, <2>3, <2>4, <2>5 DEF LockInv
<1>5. ASSUME NEW p \in Proc, AdoptFresh(p) PROVE LockInv'
  BY <1>5 DEF AdoptFresh, MayLock
<1>6. ASSUME NEW p \in Proc, EditTokensFails(p) PROVE LockInv'
  BY <1>6 DEF EditTokensFails, MayLock
<1>7. ASSUME NEW p \in Proc, Refresh(p) PROVE LockInv'
  BY <1>7 DEF Refresh, Grant
<1>8. ASSUME NEW p \in Proc, RefreshRejected(p) PROVE LockInv'
  <2>1. \A q \in Proc : lock' = q <=> pc'[q] \in Critical
    BY <1>8, NoProcAssumption DEF RefreshRejected
  <2>2. \A q \in Proc : pc'[q] \in Critical => snap'[q] = file'
    BY <1>8, NoProcAssumption DEF RefreshRejected
  <2>3. \A q \in Proc : pc'[q] = "writing" => torn'
    BY <1>8, NoProcAssumption DEF RefreshRejected
  <2>4. torn' /\ lock' # NoProc => pc'[lock'] = "writing"
    BY <1>8, NoProcAssumption DEF RefreshRejected
  <2>5. Wrecked' => \E q \in Proc : pc'[q] = "failed"
    BY <1>8, NoProcAssumption DEF RefreshRejected
  <2> QED
    BY <2>1, <2>2, <2>3, <2>4, <2>5 DEF LockInv
<1>9. ASSUME NEW p \in Proc, BeginWrite(p) PROVE LockInv'
  <2>1. \A q \in Proc : lock' = q <=> pc'[q] \in Critical
    BY <1>9, NoProcAssumption DEF BeginWrite
  <2>2. \A q \in Proc : pc'[q] \in Critical => snap'[q] = file'
    BY <1>9, NoProcAssumption DEF BeginWrite
  <2>3. \A q \in Proc : pc'[q] = "writing" => torn'
    BY <1>9, NoProcAssumption DEF BeginWrite
  <2>4. torn' /\ lock' # NoProc => pc'[lock'] = "writing"
    BY <1>9, NoProcAssumption DEF BeginWrite
  <2>5. Wrecked' => \E q \in Proc : pc'[q] = "failed"
    BY <1>9, NoProcAssumption DEF BeginWrite
  <2> QED
    BY <2>1, <2>2, <2>3, <2>4, <2>5 DEF LockInv
<1>10. ASSUME NEW p \in Proc, EndWrite(p) PROVE LockInv'
  <2>1. \A q \in Proc : lock' = q <=> pc'[q] \in Critical
    BY <1>10, NoProcAssumption DEF EndWrite, Contents, Entry
  <2>2. \A q \in Proc : pc'[q] \in Critical => snap'[q] = file'
    BY <1>10, NoProcAssumption DEF EndWrite, Contents, Entry
  <2>3. \A q \in Proc : pc'[q] = "writing" => torn'
    BY <1>10, NoProcAssumption DEF EndWrite, Contents, Entry
  <2>4. torn' /\ lock' # NoProc => pc'[lock'] = "writing"
    BY <1>10, NoProcAssumption DEF EndWrite, Contents, Entry
  <2>5. Wrecked' => \E q \in Proc : pc'[q] = "failed"
    BY <1>10, NoProcAssumption DEF EndWrite, Contents, Entry
  <2> QED
    BY <2>1, <2>2, <2>3, <2>4, <2>5 DEF LockInv
<1>11. ASSUME NEW p \in Proc, EditConfig(p) PROVE LockInv'
  BY <1>11 DEF EditConfig
<1>12. ASSUME NEW p \in Proc, EditConfigThenRevoke(p) PROVE LockInv'
  BY <1>12 DEF EditConfigThenRevoke
<1>13. ASSUME NEW p \in Proc, Revoke(p) PROVE LockInv'
  BY <1>13 DEF Revoke
<1>14. ASSUME NEW p \in Proc, RevokeUnknown(p) PROVE LockInv'
  BY <1>14 DEF RevokeUnknown
<1>15. ASSUME NEW p \in Proc, Exchange(p) PROVE LockInv'
  BY <1>15 DEF Exchange, Grant
<1>16. ASSUME NEW p \in Proc, PostExecuted(p) PROVE LockInv'
  BY <1>16 DEF PostExecuted
<1>17. ASSUME NEW p \in Proc, PostThenCall(p) PROVE LockInv'
  BY <1>17 DEF PostThenCall
<1>18. ASSUME NEW p \in Proc, PostReplyLost(p) PROVE LockInv'
  BY <1>18 DEF PostReplyLost
<1>19. ASSUME NEW p \in Proc, PostRejected(p) PROVE LockInv'
  BY <1>19 DEF PostRejected
<1>20. ASSUME NEW p \in Proc, ReplayRejected(p) PROVE LockInv'
  BY <1>20 DEF ReplayRejected
<1>21. ASSUME NEW p \in Proc, TokenReplyLost(p) PROVE LockInv'
  <2>1. \A q \in Proc : lock' = q <=> pc'[q] \in Critical
    BY <1>21, NoProcAssumption DEF TokenReplyLost, Grant
  <2>2. \A q \in Proc : pc'[q] \in Critical => snap'[q] = file'
    BY <1>21, NoProcAssumption DEF TokenReplyLost, Grant
  <2>3. \A q \in Proc : pc'[q] = "writing" => torn'
    BY <1>21, NoProcAssumption DEF TokenReplyLost, Grant
  <2>4. torn' /\ lock' # NoProc => pc'[lock'] = "writing"
    BY <1>21, NoProcAssumption DEF TokenReplyLost, Grant
  <2>5. Wrecked' => \E q \in Proc : pc'[q] = "failed"
    BY <1>21, NoProcAssumption DEF TokenReplyLost, Grant
  <2> QED
    BY <2>1, <2>2, <2>3, <2>4, <2>5 DEF LockInv
<1>22. ASSUME NEW p \in Proc, RevokeFails(p) PROVE LockInv'
  BY <1>22 DEF RevokeFails
<1>23. ASSUME NEW p \in Proc, Fail(p) PROVE LockInv'
  <2>1. \A q \in Proc : lock' = q <=> pc'[q] \in Critical
    BY <1>23, NoProcAssumption DEF Fail
  <2>2. \A q \in Proc : pc'[q] \in Critical => snap'[q] = file'
    BY <1>23, NoProcAssumption DEF Fail
  <2>3. \A q \in Proc : pc'[q] = "writing" => torn'
    BY <1>23, NoProcAssumption DEF Fail
  <2>4. torn' /\ lock' # NoProc => pc'[lock'] = "writing"
    BY <1>23, NoProcAssumption DEF Fail
  <2>5. Wrecked' => \E q \in Proc : pc'[q] = "failed"
    BY <1>23, NoProcAssumption DEF Fail
  <2> QED
    BY <2>1, <2>2, <2>3, <2>4, <2>5 DEF LockInv
<1>24. ASSUME NEW s \in Server, Tick(s) PROVE LockInv'
  BY <1>24 DEF Tick
<1>25. ASSUME NEW s \in Server, Reject(s) PROVE LockInv'
  BY <1>25 DEF Reject
<1>26. CASE UNCHANGED vars
  BY <1>26 DEF vars
<1> QED
  BY <1>1, <1>2, <1>3, <1>4, <1>5, <1>6, <1>7, <1>8, <1>9, <1>10, <1>11,
     <1>12, <1>13, <1>14, <1>15, <1>16, <1>17, <1>18, <1>19, <1>20, <1>21,
     <1>22, <1>23, <1>24, <1>25, <1>26 DEF Next, Bounded, Unbounded

LEMMA NextRole == TypeOK /\ LockInv /\ RoleInv /\ [Next]_vars => RoleInv'
<1> SUFFICES ASSUME TypeOK, LockInv, RoleInv, [Next]_vars PROVE RoleInv'
  OBVIOUS
<1> USE DEF disk, server, clock, client, Goto, ReleaseLock, Nothing, End, Quit, TypeOK, RoleInv, LockInv, Critical, CustodyAt, Calling, Label, Finished, Command
<1>1. ASSUME NEW p \in Proc, Load(p) PROVE RoleInv'
  BY <1>1 DEF Load
<1>2. ASSUME NEW p \in Proc, LoadFails(p) PROVE RoleInv'
  BY <1>2 DEF LoadFails
<1>3. ASSUME NEW p \in Proc, EnsureFresh(p) PROVE RoleInv'
  BY <1>3 DEF EnsureFresh
<1>4. ASSUME NEW p \in Proc, EditTokens(p) PROVE RoleInv'
  BY <1>4 DEF EditTokens, MayLock, Adopted, SkipsRefresh
<1>5. ASSUME NEW p \in Proc, AdoptFresh(p) PROVE RoleInv'
  BY <1>5 DEF AdoptFresh, MayLock, Adopted, SkipsRefresh
<1>6. ASSUME NEW p \in Proc, EditTokensFails(p) PROVE RoleInv'
  BY <1>6 DEF EditTokensFails, MayLock
<1>7. ASSUME NEW p \in Proc, Refresh(p) PROVE RoleInv'
  BY <1>7 DEF Refresh, Grant
<1>8. ASSUME NEW p \in Proc, RefreshRejected(p) PROVE RoleInv'
  BY <1>8 DEF RefreshRejected
<1>9. ASSUME NEW p \in Proc, BeginWrite(p) PROVE RoleInv'
  BY <1>9 DEF BeginWrite
<1>10. ASSUME NEW p \in Proc, EndWrite(p) PROVE RoleInv'
  BY <1>10 DEF EndWrite, Contents, Entry
<1>11. ASSUME NEW p \in Proc, EditConfig(p) PROVE RoleInv'
  BY <1>11 DEF EditConfig
<1>12. ASSUME NEW p \in Proc, EditConfigThenRevoke(p) PROVE RoleInv'
  BY <1>12 DEF EditConfigThenRevoke
<1>13. ASSUME NEW p \in Proc, Revoke(p) PROVE RoleInv'
  BY <1>13 DEF Revoke
<1>14. ASSUME NEW p \in Proc, RevokeUnknown(p) PROVE RoleInv'
  BY <1>14 DEF RevokeUnknown
<1>15. ASSUME NEW p \in Proc, Exchange(p) PROVE RoleInv'
  BY <1>15 DEF Exchange, Grant
<1>16. ASSUME NEW p \in Proc, PostExecuted(p) PROVE RoleInv'
  BY <1>16 DEF PostExecuted
<1>17. ASSUME NEW p \in Proc, PostThenCall(p) PROVE RoleInv'
  BY <1>17 DEF PostThenCall
<1>18. ASSUME NEW p \in Proc, PostReplyLost(p) PROVE RoleInv'
  BY <1>18 DEF PostReplyLost
<1>19. ASSUME NEW p \in Proc, PostRejected(p) PROVE RoleInv'
  BY <1>19 DEF PostRejected
<1>20. ASSUME NEW p \in Proc, ReplayRejected(p) PROVE RoleInv'
  BY <1>20 DEF ReplayRejected
<1>21. ASSUME NEW p \in Proc, TokenReplyLost(p) PROVE RoleInv'
  BY <1>21 DEF TokenReplyLost, Grant
<1>22. ASSUME NEW p \in Proc, RevokeFails(p) PROVE RoleInv'
  BY <1>22 DEF RevokeFails
<1>23. ASSUME NEW p \in Proc, Fail(p) PROVE RoleInv'
  BY <1>23 DEF Fail
<1>24. ASSUME NEW s \in Server, Tick(s) PROVE RoleInv'
  BY <1>24 DEF Tick
<1>25. ASSUME NEW s \in Server, Reject(s) PROVE RoleInv'
  BY <1>25 DEF Reject
<1>26. CASE UNCHANGED vars
  BY <1>26 DEF vars
<1> QED
  BY <1>1, <1>2, <1>3, <1>4, <1>5, <1>6, <1>7, <1>8, <1>9, <1>10, <1>11,
     <1>12, <1>13, <1>14, <1>15, <1>16, <1>17, <1>18, <1>19, <1>20, <1>21,
     <1>22, <1>23, <1>24, <1>25, <1>26 DEF Next, Bounded, Unbounded

LEMMA NextCall == TypeOK /\ RoleInv /\ CallInv /\ [Next]_vars => CallInv'
<1> SUFFICES ASSUME TypeOK, RoleInv, CallInv, [Next]_vars PROVE CallInv'
  OBVIOUS
<1> USE DEF disk, server, clock, client, Goto, ReleaseLock, Nothing, End, Quit, TypeOK, RoleInv, CallInv, Calling, CustodyAt, Label, Finished, Command
<1>1. ASSUME NEW p \in Proc, Load(p) PROVE CallInv'
  BY <1>1 DEF Load
<1>2. ASSUME NEW p \in Proc, LoadFails(p) PROVE CallInv'
  BY <1>2 DEF LoadFails
<1>3. ASSUME NEW p \in Proc, EnsureFresh(p) PROVE CallInv'
  BY <1>3 DEF EnsureFresh
<1>4. ASSUME NEW p \in Proc, EditTokens(p) PROVE CallInv'
  BY <1>4 DEF EditTokens, MayLock, Adopted, SkipsRefresh
<1>5. ASSUME NEW p \in Proc, AdoptFresh(p) PROVE CallInv'
  BY <1>5 DEF AdoptFresh, MayLock, Adopted, SkipsRefresh
<1>6. ASSUME NEW p \in Proc, EditTokensFails(p) PROVE CallInv'
  BY <1>6 DEF EditTokensFails, MayLock
<1>7. ASSUME NEW p \in Proc, Refresh(p) PROVE CallInv'
  BY <1>7 DEF Refresh, Grant
<1>8. ASSUME NEW p \in Proc, RefreshRejected(p) PROVE CallInv'
  BY <1>8 DEF RefreshRejected
<1>9. ASSUME NEW p \in Proc, BeginWrite(p) PROVE CallInv'
  BY <1>9 DEF BeginWrite
<1>10. ASSUME NEW p \in Proc, EndWrite(p) PROVE CallInv'
  BY <1>10 DEF EndWrite, Contents, Entry
<1>11. ASSUME NEW p \in Proc, EditConfig(p) PROVE CallInv'
  BY <1>11 DEF EditConfig
<1>12. ASSUME NEW p \in Proc, EditConfigThenRevoke(p) PROVE CallInv'
  BY <1>12 DEF EditConfigThenRevoke
<1>13. ASSUME NEW p \in Proc, Revoke(p) PROVE CallInv'
  BY <1>13 DEF Revoke
<1>14. ASSUME NEW p \in Proc, RevokeUnknown(p) PROVE CallInv'
  BY <1>14 DEF RevokeUnknown
<1>15. ASSUME NEW p \in Proc, Exchange(p) PROVE CallInv'
  BY <1>15 DEF Exchange, Grant
<1>16. ASSUME NEW p \in Proc, PostExecuted(p) PROVE CallInv'
  BY <1>16 DEF PostExecuted
<1>17. ASSUME NEW p \in Proc, PostThenCall(p) PROVE CallInv'
  BY <1>17 DEF PostThenCall
<1>18. ASSUME NEW p \in Proc, PostReplyLost(p) PROVE CallInv'
  BY <1>18 DEF PostReplyLost
<1>19. ASSUME NEW p \in Proc, PostRejected(p) PROVE CallInv'
  BY <1>19 DEF PostRejected, Replays
<1>20. ASSUME NEW p \in Proc, ReplayRejected(p) PROVE CallInv'
  BY <1>20 DEF ReplayRejected, Replays
<1>21. ASSUME NEW p \in Proc, TokenReplyLost(p) PROVE CallInv'
  BY <1>21 DEF TokenReplyLost, Grant
<1>22. ASSUME NEW p \in Proc, RevokeFails(p) PROVE CallInv'
  BY <1>22 DEF RevokeFails
<1>23. ASSUME NEW p \in Proc, Fail(p) PROVE CallInv'
  BY <1>23 DEF Fail
<1>24. ASSUME NEW s \in Server, Tick(s) PROVE CallInv'
  BY <1>24 DEF Tick
<1>25. ASSUME NEW s \in Server, Reject(s) PROVE CallInv'
  BY <1>25 DEF Reject
<1>26. CASE UNCHANGED vars
  BY <1>26 DEF vars
<1> QED
  BY <1>1, <1>2, <1>3, <1>4, <1>5, <1>6, <1>7, <1>8, <1>9, <1>10, <1>11,
     <1>12, <1>13, <1>14, <1>15, <1>16, <1>17, <1>18, <1>19, <1>20, <1>21,
     <1>22, <1>23, <1>24, <1>25, <1>26 DEF Next, Bounded, Unbounded

LEMMA NextRefresh == TypeOK /\ LockInv /\ RoleInv /\ RefreshInv /\ [Next]_vars => RefreshInv'
<1> SUFFICES ASSUME TypeOK, LockInv, RoleInv, RefreshInv, [Next]_vars PROVE RefreshInv'
  OBVIOUS
<1> USE DEF disk, server, clock, client, Goto, ReleaseLock, Nothing, End, Quit, TypeOK, LockInv, Critical, RoleInv, RefreshInv, Calling, CustodyAt, Label, Finished, Command
<1>1. ASSUME NEW p \in Proc, Load(p) PROVE RefreshInv'
  BY <1>1 DEF Load
<1>2. ASSUME NEW p \in Proc, LoadFails(p) PROVE RefreshInv'
  BY <1>2 DEF LoadFails
<1>3. ASSUME NEW p \in Proc, EnsureFresh(p) PROVE RefreshInv'
  BY <1>3 DEF EnsureFresh
<1>4. ASSUME NEW p \in Proc, EditTokens(p) PROVE RefreshInv'
  BY <1>4 DEF EditTokens, MayLock, Adopted, SkipsRefresh, Fresh
<1>5. ASSUME NEW p \in Proc, AdoptFresh(p) PROVE RefreshInv'
  BY <1>5 DEF AdoptFresh, MayLock, Adopted, SkipsRefresh
<1>6. ASSUME NEW p \in Proc, EditTokensFails(p) PROVE RefreshInv'
  BY <1>6 DEF EditTokensFails, MayLock
<1>7. ASSUME NEW p \in Proc, Refresh(p) PROVE RefreshInv'
  BY <1>7 DEF Refresh, Grant
<1>8. ASSUME NEW p \in Proc, RefreshRejected(p) PROVE RefreshInv'
  BY <1>8 DEF RefreshRejected
<1>9. ASSUME NEW p \in Proc, BeginWrite(p) PROVE RefreshInv'
  BY <1>9 DEF BeginWrite
<1>10. ASSUME NEW p \in Proc, EndWrite(p) PROVE RefreshInv'
  BY <1>10 DEF EndWrite, Contents, Entry
<1>11. ASSUME NEW p \in Proc, EditConfig(p) PROVE RefreshInv'
  BY <1>11 DEF EditConfig
<1>12. ASSUME NEW p \in Proc, EditConfigThenRevoke(p) PROVE RefreshInv'
  BY <1>12 DEF EditConfigThenRevoke
<1>13. ASSUME NEW p \in Proc, Revoke(p) PROVE RefreshInv'
  BY <1>13 DEF Revoke
<1>14. ASSUME NEW p \in Proc, RevokeUnknown(p) PROVE RefreshInv'
  BY <1>14 DEF RevokeUnknown
<1>15. ASSUME NEW p \in Proc, Exchange(p) PROVE RefreshInv'
  BY <1>15 DEF Exchange, Grant
<1>16. ASSUME NEW p \in Proc, PostExecuted(p) PROVE RefreshInv'
  BY <1>16 DEF PostExecuted
<1>17. ASSUME NEW p \in Proc, PostThenCall(p) PROVE RefreshInv'
  BY <1>17 DEF PostThenCall
<1>18. ASSUME NEW p \in Proc, PostReplyLost(p) PROVE RefreshInv'
  BY <1>18 DEF PostReplyLost
<1>19. ASSUME NEW p \in Proc, PostRejected(p) PROVE RefreshInv'
  BY <1>19 DEF PostRejected, Replays
<1>20. ASSUME NEW p \in Proc, ReplayRejected(p) PROVE RefreshInv'
  BY <1>20 DEF ReplayRejected, Replays
<1>21. ASSUME NEW p \in Proc, TokenReplyLost(p) PROVE RefreshInv'
  BY <1>21 DEF TokenReplyLost, Grant
<1>22. ASSUME NEW p \in Proc, RevokeFails(p) PROVE RefreshInv'
  BY <1>22 DEF RevokeFails
<1>23. ASSUME NEW p \in Proc, Fail(p) PROVE RefreshInv'
  BY <1>23 DEF Fail
<1>24. ASSUME NEW s \in Server, Tick(s) PROVE RefreshInv'
  BY <1>24 DEF Tick
<1>25. ASSUME NEW s \in Server, Reject(s) PROVE RefreshInv'
  BY <1>25 DEF Reject
<1>26. CASE UNCHANGED vars
  BY <1>26 DEF vars
<1> QED
  BY <1>1, <1>2, <1>3, <1>4, <1>5, <1>6, <1>7, <1>8, <1>9, <1>10, <1>11,
     <1>12, <1>13, <1>14, <1>15, <1>16, <1>17, <1>18, <1>19, <1>20, <1>21,
     <1>22, <1>23, <1>24, <1>25, <1>26 DEF Next, Bounded, Unbounded

LEMMA NextOnlyCalls == TypeOK /\ LockInv /\ RoleInv /\ OnlyCallsInv /\ [Next]_vars => OnlyCallsInv'
<1> SUFFICES ASSUME TypeOK, LockInv, RoleInv, OnlyCallsInv, [Next]_vars PROVE OnlyCallsInv'
  OBVIOUS
<1> USE DEF disk, server, clock, client, Goto, ReleaseLock, Nothing, End, Quit, TypeOK, LockInv, Critical, RoleInv, OnlyCallsInv, OnlyCalls, Calling, CustodyAt, Label, Finished, Command
<1>1. ASSUME NEW p \in Proc, Load(p) PROVE OnlyCallsInv'
  BY <1>1 DEF Load
<1>2. ASSUME NEW p \in Proc, LoadFails(p) PROVE OnlyCallsInv'
  BY <1>2 DEF LoadFails
<1>3. ASSUME NEW p \in Proc, EnsureFresh(p) PROVE OnlyCallsInv'
  BY <1>3 DEF EnsureFresh
<1>4. ASSUME NEW p \in Proc, EditTokens(p) PROVE OnlyCallsInv'
  BY <1>4 DEF EditTokens, MayLock, Adopted, SkipsRefresh, Fresh
<1>5. ASSUME NEW p \in Proc, AdoptFresh(p) PROVE OnlyCallsInv'
  BY <1>5 DEF AdoptFresh, MayLock, Adopted, SkipsRefresh
<1>6. ASSUME NEW p \in Proc, EditTokensFails(p) PROVE OnlyCallsInv'
  BY <1>6 DEF EditTokensFails, MayLock
<1>7. ASSUME NEW p \in Proc, Refresh(p) PROVE OnlyCallsInv'
  BY <1>7 DEF Refresh, Grant
<1>8. ASSUME NEW p \in Proc, RefreshRejected(p) PROVE OnlyCallsInv'
  BY <1>8 DEF RefreshRejected
<1>9. ASSUME NEW p \in Proc, BeginWrite(p) PROVE OnlyCallsInv'
  BY <1>9 DEF BeginWrite
<1>10. ASSUME NEW p \in Proc, EndWrite(p) PROVE OnlyCallsInv'
  BY <1>10 DEF EndWrite, Contents, Entry
<1>11. ASSUME NEW p \in Proc, EditConfig(p) PROVE OnlyCallsInv'
  BY <1>11 DEF EditConfig
<1>12. ASSUME NEW p \in Proc, EditConfigThenRevoke(p) PROVE OnlyCallsInv'
  BY <1>12 DEF EditConfigThenRevoke
<1>13. ASSUME NEW p \in Proc, Revoke(p) PROVE OnlyCallsInv'
  BY <1>13 DEF Revoke
<1>14. ASSUME NEW p \in Proc, RevokeUnknown(p) PROVE OnlyCallsInv'
  BY <1>14 DEF RevokeUnknown
<1>15. ASSUME NEW p \in Proc, Exchange(p) PROVE OnlyCallsInv'
  BY <1>15 DEF Exchange, Grant
<1>16. ASSUME NEW p \in Proc, PostExecuted(p) PROVE OnlyCallsInv'
  BY <1>16 DEF PostExecuted
<1>17. ASSUME NEW p \in Proc, PostThenCall(p) PROVE OnlyCallsInv'
  BY <1>17 DEF PostThenCall
<1>18. ASSUME NEW p \in Proc, PostReplyLost(p) PROVE OnlyCallsInv'
  BY <1>18 DEF PostReplyLost
<1>19. ASSUME NEW p \in Proc, PostRejected(p) PROVE OnlyCallsInv'
  BY <1>19 DEF PostRejected, Replays
<1>20. ASSUME NEW p \in Proc, ReplayRejected(p) PROVE OnlyCallsInv'
  BY <1>20 DEF ReplayRejected, Replays
<1>21. ASSUME NEW p \in Proc, TokenReplyLost(p) PROVE OnlyCallsInv'
  BY <1>21 DEF TokenReplyLost, Grant
<1>22. ASSUME NEW p \in Proc, RevokeFails(p) PROVE OnlyCallsInv'
  BY <1>22 DEF RevokeFails
<1>23. ASSUME NEW p \in Proc, Fail(p) PROVE OnlyCallsInv'
  BY <1>23 DEF Fail
<1>24. ASSUME NEW s \in Server, Tick(s) PROVE OnlyCallsInv'
  BY <1>24 DEF Tick
<1>25. ASSUME NEW s \in Server, Reject(s) PROVE OnlyCallsInv'
  BY <1>25 DEF Reject
<1>26. CASE UNCHANGED vars
  BY <1>26 DEF vars
<1> QED
  BY <1>1, <1>2, <1>3, <1>4, <1>5, <1>6, <1>7, <1>8, <1>9, <1>10, <1>11,
     <1>12, <1>13, <1>14, <1>15, <1>16, <1>17, <1>18, <1>19, <1>20, <1>21,
     <1>22, <1>23, <1>24, <1>25, <1>26 DEF Next, Bounded, Unbounded

\* A command that ends, with the file and the server's grant as they are,
\* leaves every login's claim on its new pair alone.
LEMMA EndStep ==
  ASSUME TypeOK, RoleInv, LoginInv, NEW p \in Proc, NEW l \in Finished, End(p, l),
         UNCHANGED <<file, live, cmd, srv>>
  PROVE  LoginInv'
<1> SUFFICES ASSUME NEW q \in Proc, SingleLogin(srv[q]), cmd[q] = "login",
                    pc'[q] \in CustodyAt.login
             PROVE  /\ mem'[q] = live[srv[q]]
                    /\ file[srv[q]] # mem'[q]
                    /\ \A r \in Proc \ {q} : srv[r] = srv[q] => mem'[r] # mem'[q]
  BY DEF LoginInv, SingleLogin
<1>1. q # p
  BY DEF End, Goto, TypeOK, Finished, CustodyAt
<1>2. pc[q] \in CustodyAt.login /\ mem'[q] = mem[q] /\ mem[q] # 0
  BY <1>1 DEF End, Goto, TypeOK, RoleInv
<1>3. \A r \in Proc : mem'[r] \in {mem[r], 0}
  BY DEF End, TypeOK
<1> QED
  BY <1>2, <1>3 DEF LoginInv

LEMMA NextLogin == TypeOK /\ LockInv /\ RoleInv /\ RefreshInv /\ LoginInv /\ [Next]_vars => LoginInv'
<1> SUFFICES ASSUME TypeOK, LockInv, RoleInv, RefreshInv, LoginInv, [Next]_vars PROVE LoginInv'
  OBVIOUS
<1> USE DEF disk, server, clock, client, Goto, ReleaseLock, Nothing, End, Quit, TypeOK, LockInv, Critical, RoleInv, RefreshInv, LoginInv, SingleLogin, Calling, CustodyAt, Label, Finished, Command
<1>1. ASSUME NEW p \in Proc, Load(p) PROVE LoginInv'
  BY <1>1 DEF Load
<1>2. ASSUME NEW p \in Proc, LoadFails(p) PROVE LoginInv'
  BY <1>2, EndStep DEF LoadFails
<1>3. ASSUME NEW p \in Proc, EnsureFresh(p) PROVE LoginInv'
  BY <1>3 DEF EnsureFresh
<1>4. ASSUME NEW p \in Proc, EditTokens(p) PROVE LoginInv'
  BY <1>4 DEF EditTokens, MayLock, Adopted, SkipsRefresh, Fresh
<1>5. ASSUME NEW p \in Proc, AdoptFresh(p) PROVE LoginInv'
  BY <1>5 DEF AdoptFresh, MayLock, Adopted, SkipsRefresh
<1>6. ASSUME NEW p \in Proc, EditTokensFails(p) PROVE LoginInv'
  BY <1>6, EndStep DEF EditTokensFails
<1>7. ASSUME NEW p \in Proc, Refresh(p) PROVE LoginInv'
  BY <1>7 DEF Refresh, Grant
<1>8. ASSUME NEW p \in Proc, RefreshRejected(p) PROVE LoginInv'
  BY <1>8, EndStep DEF RefreshRejected
<1>9. ASSUME NEW p \in Proc, BeginWrite(p) PROVE LoginInv'
  BY <1>9 DEF BeginWrite
<1>10. ASSUME NEW p \in Proc, EndWrite(p) PROVE LoginInv'
  BY <1>10 DEF EndWrite, Contents, Entry
<1>11. ASSUME NEW p \in Proc, EditConfig(p) PROVE LoginInv'
  BY <1>11, EndStep DEF EditConfig
<1>12. ASSUME NEW p \in Proc, EditConfigThenRevoke(p) PROVE LoginInv'
  BY <1>12 DEF EditConfigThenRevoke
<1>13. ASSUME NEW p \in Proc, Revoke(p) PROVE LoginInv'
  BY <1>13 DEF Revoke
<1>14. ASSUME NEW p \in Proc, RevokeUnknown(p) PROVE LoginInv'
  BY <1>14, EndStep DEF RevokeUnknown
<1>15. ASSUME NEW p \in Proc, Exchange(p) PROVE LoginInv'
  BY <1>15 DEF Exchange, Grant
<1>16. ASSUME NEW p \in Proc, PostExecuted(p) PROVE LoginInv'
  BY <1>16, EndStep DEF PostExecuted
<1>17. ASSUME NEW p \in Proc, PostThenCall(p) PROVE LoginInv'
  BY <1>17 DEF PostThenCall
<1>18. ASSUME NEW p \in Proc, PostReplyLost(p) PROVE LoginInv'
  BY <1>18, EndStep DEF PostReplyLost
<1>19. ASSUME NEW p \in Proc, PostRejected(p) PROVE LoginInv'
  BY <1>19 DEF PostRejected, Replays
<1>20. ASSUME NEW p \in Proc, ReplayRejected(p) PROVE LoginInv'
  BY <1>20, EndStep DEF ReplayRejected
<1>21. ASSUME NEW p \in Proc, TokenReplyLost(p) PROVE LoginInv'
  BY <1>21 DEF TokenReplyLost, Grant
<1>22. ASSUME NEW p \in Proc, RevokeFails(p) PROVE LoginInv'
  BY <1>22, EndStep DEF RevokeFails
<1>23. ASSUME NEW p \in Proc, Fail(p) PROVE LoginInv'
  BY <1>23, EndStep DEF Fail
<1>24. ASSUME NEW s \in Server, Tick(s) PROVE LoginInv'
  BY <1>24 DEF Tick
<1>25. ASSUME NEW s \in Server, Reject(s) PROVE LoginInv'
  BY <1>25 DEF Reject
<1>26. CASE UNCHANGED vars
  BY <1>26 DEF vars
<1> QED
  BY <1>1, <1>2, <1>3, <1>4, <1>5, <1>6, <1>7, <1>8, <1>9, <1>10, <1>11,
     <1>12, <1>13, <1>14, <1>15, <1>16, <1>17, <1>18, <1>19, <1>20, <1>21,
     <1>22, <1>23, <1>24, <1>25, <1>26 DEF Next, Bounded, Unbounded

\* A command that quits while it holds a login's pair records the loss.
LEMMA QuitStep ==
  ASSUME TypeOK, RoleInv, LoginInv, WriterInv, NEW p \in Proc, Quit(p),
         UNCHANGED <<file, live, cmd, srv>>
  PROVE  WriterInv'
<1> SUFFICES ASSUME NEW r \in Proc, SingleLogin(srv[r]), cmd[r] = "api",
                    pc'[r] \in CustodyAt.api
             PROVE  \/ mem'[r] = live[srv[r]]
                    \/ live[srv[r]] = 0
                    \/ lost'[srv[r]]
                    \/ HasLogin(srv[r])'
  BY DEF WriterInv, SingleLogin
<1>1. r # p
  BY DEF Quit, End, Goto, TypeOK, CustodyAt
<1>2. pc[r] \in CustodyAt.api /\ mem'[r] = mem[r]
  BY <1>1 DEF Quit, End, Goto, TypeOK
<1>3. lost[srv[r]] => lost'[srv[r]]
  BY DEF Quit, TypeOK
<1>4. CASE HasLogin(srv[r])
  <2>1. PICK q \in Proc : /\ cmd[q] = "login" /\ srv[q] = srv[r]
                          /\ pc[q] \in CustodyAt.login
    BY <1>4 DEF HasLogin
  <2>2. CASE q = p
    <3>1. Custody(p)
      BY <2>1, <2>2 DEF Custody, LoginInv, RoleInv, CustodyAt
    <3> QED
      BY <2>1, <2>2, <3>1 DEF Quit, TypeOK
  <2>3. CASE q # p
    <3>1. pc'[q] = pc[q] /\ cmd'[q] = cmd[q] /\ srv'[q] = srv[q] /\ srv'[r] = srv[r]
      BY <2>3 DEF Quit, End, Goto, TypeOK
    <3> QED
      BY <2>1, <3>1 DEF HasLogin
  <2> QED
    BY <2>2, <2>3
<1> QED
  BY <1>2, <1>3, <1>4 DEF WriterInv

LEMMA NextWriter == TypeOK /\ LockInv /\ RoleInv /\ RefreshInv /\ LoginInv /\ WriterInv /\ [Next]_vars => WriterInv'
<1> SUFFICES ASSUME TypeOK, LockInv, RoleInv, RefreshInv, LoginInv, WriterInv, [Next]_vars PROVE WriterInv'
  OBVIOUS
<1> USE DEF disk, server, clock, client, Goto, ReleaseLock, Nothing, End, Quit, TypeOK, LockInv, Critical, RoleInv, RefreshInv, LoginInv, SingleLogin, Calling, CustodyAt, Label, Finished, Command, HasLogin, WriterInv
<1>1. ASSUME NEW p \in Proc, Load(p) PROVE WriterInv'
  BY <1>1 DEF Load
<1>2. ASSUME NEW p \in Proc, LoadFails(p) PROVE WriterInv'
  BY <1>2, QuitStep DEF LoadFails
<1>3. ASSUME NEW p \in Proc, EnsureFresh(p) PROVE WriterInv'
  BY <1>3 DEF EnsureFresh
<1>4. ASSUME NEW p \in Proc, EditTokens(p) PROVE WriterInv'
  BY <1>4 DEF EditTokens, MayLock, Adopted, SkipsRefresh, Fresh
<1>5. ASSUME NEW p \in Proc, AdoptFresh(p) PROVE WriterInv'
  BY <1>5 DEF AdoptFresh, MayLock, Adopted, SkipsRefresh
<1>6. ASSUME NEW p \in Proc, EditTokensFails(p) PROVE WriterInv'
  BY <1>6, QuitStep DEF EditTokensFails
<1>7. ASSUME NEW p \in Proc, Refresh(p) PROVE WriterInv'
  BY <1>7 DEF Refresh, Grant
<1>8. ASSUME NEW p \in Proc, RefreshRejected(p) PROVE WriterInv'
  BY <1>8, QuitStep DEF RefreshRejected
<1>9. ASSUME NEW p \in Proc, BeginWrite(p) PROVE WriterInv'
  BY <1>9 DEF BeginWrite
<1>10. ASSUME NEW p \in Proc, EndWrite(p) PROVE WriterInv'
  BY <1>10 DEF EndWrite, Contents, Entry
<1>11. ASSUME NEW p \in Proc, EditConfig(p) PROVE WriterInv'
  BY <1>11 DEF EditConfig
<1>12. ASSUME NEW p \in Proc, EditConfigThenRevoke(p) PROVE WriterInv'
  BY <1>12 DEF EditConfigThenRevoke
<1>13. ASSUME NEW p \in Proc, Revoke(p) PROVE WriterInv'
  BY <1>13 DEF Revoke
<1>14. ASSUME NEW p \in Proc, RevokeUnknown(p) PROVE WriterInv'
  BY <1>14 DEF RevokeUnknown
<1>15. ASSUME NEW p \in Proc, Exchange(p) PROVE WriterInv'
  BY <1>15 DEF Exchange, Grant
<1>16. ASSUME NEW p \in Proc, PostExecuted(p) PROVE WriterInv'
  BY <1>16 DEF PostExecuted
<1>17. ASSUME NEW p \in Proc, PostThenCall(p) PROVE WriterInv'
  BY <1>17 DEF PostThenCall
<1>18. ASSUME NEW p \in Proc, PostReplyLost(p) PROVE WriterInv'
  BY <1>18, QuitStep DEF PostReplyLost
<1>19. ASSUME NEW p \in Proc, PostRejected(p) PROVE WriterInv'
  BY <1>19 DEF PostRejected, Replays
<1>20. ASSUME NEW p \in Proc, ReplayRejected(p) PROVE WriterInv'
  BY <1>20, QuitStep DEF ReplayRejected
<1>21. ASSUME NEW p \in Proc, TokenReplyLost(p) PROVE WriterInv'
  BY <1>21 DEF TokenReplyLost, Grant
<1>22. ASSUME NEW p \in Proc, RevokeFails(p) PROVE WriterInv'
  BY <1>22 DEF RevokeFails
<1>23. ASSUME NEW p \in Proc, Fail(p) PROVE WriterInv'
  BY <1>23, QuitStep DEF Fail
<1>24. ASSUME NEW s \in Server, Tick(s) PROVE WriterInv'
  BY <1>24 DEF Tick
<1>25. ASSUME NEW s \in Server, Reject(s) PROVE WriterInv'
  BY <1>25 DEF Reject
<1>26. CASE UNCHANGED vars
  BY <1>26 DEF vars
<1> QED
  BY <1>1, <1>2, <1>3, <1>4, <1>5, <1>6, <1>7, <1>8, <1>9, <1>10, <1>11,
     <1>12, <1>13, <1>14, <1>15, <1>16, <1>17, <1>18, <1>19, <1>20, <1>21,
     <1>22, <1>23, <1>24, <1>25, <1>26 DEF Next, Bounded, Unbounded

\* A step of one process that touches neither the file nor the server keeps the
\* account, if the process keeps its custody or the loss is recorded.
LEMMA QuietStep ==
  ASSUME TypeOK, LiveTokenAccounted, NEW p \in Proc,
         UNCHANGED <<file, live, cmd, srv>>,
         Wrecked => Wrecked',
         \A s \in Server : lost[s] => lost'[s],
         \A q \in Proc \ {p} : pc'[q] = pc[q] /\ mem'[q] = mem[q],
         Custody(p) => Custody(p)' \/ lost'[srv[p]]
  PROVE  LiveTokenAccounted'
<1> SUFFICES ASSUME NEW s \in Server, SingleLogin(s) PROVE Accounted(s)'
  BY DEF LiveTokenAccounted, SingleLogin
<1>1. Accounted(s)
  BY DEF LiveTokenAccounted
<1>2. CASE \E q \in Proc : srv[q] = s /\ Custody(q)
  <2>1. PICK q \in Proc : srv[q] = s /\ Custody(q)
    BY <1>2
  <2>2. CASE q = p
    BY <2>1, <2>2 DEF Accounted
  <2>3. CASE q # p
    <3>1. srv'[q] = s /\ Custody(q)'
      BY <2>1, <2>3 DEF Custody
    <3> QED
      BY <3>1 DEF Accounted
  <2> QED
    BY <2>2, <2>3
<1>3. CASE ~ \E q \in Proc : srv[q] = s /\ Custody(q)
  BY <1>1, <1>3 DEF Accounted
<1> QED
  BY <1>2, <1>3


\* A step of one process keeps the account of every server but its own.
LEMMA OtherServer ==
  ASSUME TypeOK, NEW p \in Proc, NEW s \in Server, s # srv[p], Accounted(s),
         file'[s] = file[s], live'[s] = live[s], lost'[s] = lost[s],
         UNCHANGED <<cmd, srv>>, Wrecked => Wrecked',
         \A q \in Proc \ {p} : pc'[q] = pc[q] /\ mem'[q] = mem[q]
  PROVE  Accounted(s)'
<1>1. CASE \E q \in Proc : srv[q] = s /\ Custody(q)
  <2>1. PICK q \in Proc : srv[q] = s /\ Custody(q)
    BY <1>1
  <2>2. srv'[q] = s /\ Custody(q)'
    BY <2>1 DEF Custody
  <2> QED
    BY <2>2 DEF Accounted
<1>2. CASE ~ \E q \in Proc : srv[q] = s /\ Custody(q)
  BY <1>2 DEF Accounted
<1> QED
  BY <1>1, <1>2


LEMMA NextAccounted == TypeOK /\ LockInv /\ RoleInv /\ RefreshInv /\ LoginInv /\ WriterInv /\ LiveTokenAccounted /\ [Next]_vars => LiveTokenAccounted'
<1> SUFFICES ASSUME TypeOK, LockInv, RoleInv, RefreshInv, LoginInv, WriterInv, LiveTokenAccounted, [Next]_vars PROVE LiveTokenAccounted'
  OBVIOUS
<1> USE DEF disk, server, clock, client, Goto, ReleaseLock, Nothing, End, Quit, TypeOK, LockInv, Critical, RoleInv, Wrecked, CustodyAt, Label, Finished, Command
<1>1. ASSUME NEW p \in Proc, Load(p) PROVE LiveTokenAccounted'
  <2>1. UNCHANGED <<file, live, cmd, srv>> /\ (Wrecked => Wrecked')
    BY <1>1 DEF Load
  <2>2. \A s \in Server : lost[s] => lost'[s]
    BY <1>1 DEF Load
  <2>3. \A q \in Proc \ {p} : pc'[q] = pc[q] /\ mem'[q] = mem[q]
    BY <1>1 DEF Load
  <2>4. Custody(p) => Custody(p)' \/ lost'[srv[p]]
    BY <1>1 DEF Custody, Load
  <2> QED
    BY <2>1, <2>2, <2>3, <2>4, QuietStep
<1>2. ASSUME NEW p \in Proc, LoadFails(p) PROVE LiveTokenAccounted'
  <2>1. UNCHANGED <<file, live, cmd, srv>> /\ (Wrecked => Wrecked')
    BY <1>2 DEF LoadFails
  <2>2. \A s \in Server : lost[s] => lost'[s]
    BY <1>2 DEF LoadFails
  <2>3. \A q \in Proc \ {p} : pc'[q] = pc[q] /\ mem'[q] = mem[q]
    BY <1>2 DEF LoadFails
  <2>4. Custody(p) => Custody(p)' \/ lost'[srv[p]]
    BY <1>2 DEF Custody, LoadFails
  <2> QED
    BY <2>1, <2>2, <2>3, <2>4, QuietStep
<1>3. ASSUME NEW p \in Proc, EnsureFresh(p) PROVE LiveTokenAccounted'
  <2>1. UNCHANGED <<file, live, cmd, srv>> /\ (Wrecked => Wrecked')
    BY <1>3 DEF EnsureFresh
  <2>2. \A s \in Server : lost[s] => lost'[s]
    BY <1>3 DEF EnsureFresh
  <2>3. \A q \in Proc \ {p} : pc'[q] = pc[q] /\ mem'[q] = mem[q]
    BY <1>3 DEF EnsureFresh
  <2>4. Custody(p) => Custody(p)' \/ lost'[srv[p]]
    BY <1>3 DEF Custody, EnsureFresh
  <2> QED
    BY <2>1, <2>2, <2>3, <2>4, QuietStep
<1>4. ASSUME NEW p \in Proc, EditTokens(p) PROVE LiveTokenAccounted'
  <2>1. UNCHANGED <<file, live, cmd, srv>> /\ (Wrecked => Wrecked')
    BY <1>4 DEF EditTokens, MayLock, Adopted, SkipsRefresh, Fresh
  <2>2. \A s \in Server : lost[s] => lost'[s]
    BY <1>4 DEF EditTokens, MayLock, Adopted, SkipsRefresh, Fresh
  <2>3. \A q \in Proc \ {p} : pc'[q] = pc[q] /\ mem'[q] = mem[q]
    BY <1>4 DEF EditTokens, MayLock, Adopted, SkipsRefresh, Fresh
  <2>4. Custody(p) => Custody(p)' \/ lost'[srv[p]]
    BY <1>4 DEF Custody, EditTokens, MayLock, Adopted, SkipsRefresh, Fresh
  <2> QED
    BY <2>1, <2>2, <2>3, <2>4, QuietStep
<1>5. ASSUME NEW p \in Proc, AdoptFresh(p) PROVE LiveTokenAccounted'
  <2>1. UNCHANGED <<file, live, cmd, srv>> /\ (Wrecked => Wrecked')
    BY <1>5 DEF AdoptFresh, MayLock, Adopted, SkipsRefresh
  <2>2. \A s \in Server : lost[s] => lost'[s]
    BY <1>5 DEF AdoptFresh, MayLock, Adopted, SkipsRefresh
  <2>3. \A q \in Proc \ {p} : pc'[q] = pc[q] /\ mem'[q] = mem[q]
    BY <1>5 DEF AdoptFresh, MayLock, Adopted, SkipsRefresh
  <2>4. Custody(p) => Custody(p)' \/ lost'[srv[p]]
    BY <1>5 DEF Custody, AdoptFresh, MayLock, Adopted, SkipsRefresh
  <2> QED
    BY <2>1, <2>2, <2>3, <2>4, QuietStep
<1>6. ASSUME NEW p \in Proc, EditTokensFails(p) PROVE LiveTokenAccounted'
  <2>1. UNCHANGED <<file, live, cmd, srv>> /\ (Wrecked => Wrecked')
    BY <1>6 DEF EditTokensFails, MayLock
  <2>2. \A s \in Server : lost[s] => lost'[s]
    BY <1>6 DEF EditTokensFails, MayLock
  <2>3. \A q \in Proc \ {p} : pc'[q] = pc[q] /\ mem'[q] = mem[q]
    BY <1>6 DEF EditTokensFails, MayLock
  <2>4. Custody(p) => Custody(p)' \/ lost'[srv[p]]
    BY <1>6 DEF Custody, EditTokensFails, MayLock
  <2> QED
    BY <2>1, <2>2, <2>3, <2>4, QuietStep
<1>7. ASSUME NEW p \in Proc, Refresh(p) PROVE LiveTokenAccounted'
  <2> SUFFICES ASSUME NEW s \in Server, SingleLogin(s) PROVE Accounted(s)'
    BY <1>7 DEF LiveTokenAccounted, SingleLogin, Refresh, Grant
  <2>1. CASE s = srv[p]
    <3>1. srv'[p] = s /\ Custody(p)'
      BY <1>7, <2>1 DEF Custody, Refresh, Grant
    <3> QED
      BY <3>1 DEF Accounted
  <2>2. CASE s # srv[p]
    <3>1. file'[s] = file[s] /\ live'[s] = live[s] /\ lost'[s] = lost[s]
      BY <1>7, <2>2 DEF Refresh, Grant
    <3>2. UNCHANGED <<cmd, srv>> /\ (Wrecked => Wrecked')
      BY <1>7, NoProcAssumption DEF Refresh, Grant
    <3>3. \A q \in Proc \ {p} : pc'[q] = pc[q] /\ mem'[q] = mem[q]
      BY <1>7 DEF Refresh, Grant
    <3> QED
      BY <2>2, <3>1, <3>2, <3>3, OtherServer DEF LiveTokenAccounted
  <2> QED
    BY <2>1, <2>2
<1>8. ASSUME NEW p \in Proc, RefreshRejected(p) PROVE LiveTokenAccounted'
  <2>1. UNCHANGED <<file, live, cmd, srv>> /\ (Wrecked => Wrecked')
    BY <1>8 DEF RefreshRejected
  <2>2. \A s \in Server : lost[s] => lost'[s]
    BY <1>8 DEF RefreshRejected
  <2>3. \A q \in Proc \ {p} : pc'[q] = pc[q] /\ mem'[q] = mem[q]
    BY <1>8 DEF RefreshRejected
  <2>4. Custody(p) => Custody(p)' \/ lost'[srv[p]]
    BY <1>8 DEF Custody, RefreshRejected
  <2> QED
    BY <2>1, <2>2, <2>3, <2>4, QuietStep
<1>9. ASSUME NEW p \in Proc, BeginWrite(p) PROVE LiveTokenAccounted'
  <2>1. UNCHANGED <<file, live, cmd, srv>> /\ (Wrecked => Wrecked')
    BY <1>9 DEF BeginWrite
  <2>2. \A s \in Server : lost[s] => lost'[s]
    BY <1>9 DEF BeginWrite
  <2>3. \A q \in Proc \ {p} : pc'[q] = pc[q] /\ mem'[q] = mem[q]
    BY <1>9 DEF BeginWrite
  <2>4. Custody(p) => Custody(p)' \/ lost'[srv[p]]
    BY <1>9 DEF Custody, BeginWrite
  <2> QED
    BY <2>1, <2>2, <2>3, <2>4, QuietStep
<1>10. ASSUME NEW p \in Proc, EndWrite(p) PROVE LiveTokenAccounted'
  <2> SUFFICES ASSUME NEW s \in Server, SingleLogin(s) PROVE Accounted(s)'
    BY <1>10 DEF LiveTokenAccounted, SingleLogin, EndWrite, Contents, Entry
  <2>1. CASE s = srv[p]
    <3>1. file'[s] = Entry(p) /\ live'[s] = live[s] /\ lost'[s] = lost[s]
      BY <1>10, <2>1 DEF EndWrite, Contents, Entry
    <3>2. CASE cmd[p] = "api"
      <4>1. CASE HasLogin(s)
        <5>1. PICK q \in Proc : /\ cmd[q] = "login" /\ srv[q] = s
                                /\ pc[q] \in CustodyAt.login
          BY <4>1 DEF HasLogin
        <5>2. srv'[q] = s /\ Custody(q)'
          BY <1>10, <3>2, <5>1 DEF Custody, LoginInv, EndWrite, Contents, Entry
        <5> QED
          BY <5>2 DEF Accounted
      <4>2. CASE ~ HasLogin(s)
        BY <1>10, <2>1, <3>1, <3>2, <4>2 DEF WriterInv, Accounted, EndWrite, Contents, Entry
      <4> QED
        BY <4>1, <4>2
    <3>3. CASE cmd[p] = "login"
      BY <1>10, <2>1, <3>1, <3>3 DEF LoginInv, Accounted, EndWrite, Contents, Entry
    <3>4. CASE cmd[p] = "logout"
      <4>1. ~ Wrecked
        BY <1>10, NoProcAssumption DEF EndWrite
      <4>2. CASE file[s] = live[s] /\ live[s] # 0
        <5>1. srv'[p] = s /\ Custody(p)'
          BY <1>10, <2>1, <3>4, <4>2 DEF Custody, RefreshInv, EndWrite, Contents, Entry
        <5> QED
          BY <5>1 DEF Accounted
      <4>3. CASE \E q \in Proc : srv[q] = s /\ Custody(q)
        <5>1. PICK q \in Proc : srv[q] = s /\ Custody(q)
          BY <4>3
        <5>2. q # p
          <6>1. pc[p] = "writing" /\ "writing" \notin CustodyAt["logout"]
            BY <1>10 DEF EndWrite, CustodyAt
          <6> QED
            BY <3>4, <5>1, <6>1 DEF Custody
        <5>3. srv'[q] = s /\ Custody(q)'
          BY <1>10, <5>1, <5>2 DEF Custody, EndWrite, Contents, Entry
        <5> QED
          BY <5>3 DEF Accounted
      <4> QED
        BY <3>1, <4>1, <4>2, <4>3 DEF Accounted, LiveTokenAccounted
    <3> QED
      BY <3>2, <3>3, <3>4
  <2>2. CASE s # srv[p]
    <3>1. file'[s] = file[s] /\ live'[s] = live[s] /\ lost'[s] = lost[s]
      BY <1>10, <2>2 DEF EndWrite, Contents, Entry
    <3>2. UNCHANGED <<cmd, srv>> /\ (Wrecked => Wrecked')
      BY <1>10, NoProcAssumption DEF EndWrite, Contents, Entry
    <3>3. \A q \in Proc \ {p} : pc'[q] = pc[q] /\ mem'[q] = mem[q]
      BY <1>10 DEF EndWrite, Contents, Entry
    <3> QED
      BY <2>2, <3>1, <3>2, <3>3, OtherServer DEF LiveTokenAccounted
  <2> QED
    BY <2>1, <2>2
<1>11. ASSUME NEW p \in Proc, EditConfig(p) PROVE LiveTokenAccounted'
  <2>1. UNCHANGED <<file, live, cmd, srv>> /\ (Wrecked => Wrecked')
    BY <1>11 DEF EditConfig
  <2>2. \A s \in Server : lost[s] => lost'[s]
    BY <1>11 DEF EditConfig
  <2>3. \A q \in Proc \ {p} : pc'[q] = pc[q] /\ mem'[q] = mem[q]
    BY <1>11 DEF EditConfig
  <2>4. Custody(p) => Custody(p)' \/ lost'[srv[p]]
    BY <1>11 DEF Custody, EditConfig
  <2> QED
    BY <2>1, <2>2, <2>3, <2>4, QuietStep
<1>12. ASSUME NEW p \in Proc, EditConfigThenRevoke(p) PROVE LiveTokenAccounted'
  <2>1. UNCHANGED <<file, live, cmd, srv>> /\ (Wrecked => Wrecked')
    BY <1>12 DEF EditConfigThenRevoke
  <2>2. \A s \in Server : lost[s] => lost'[s]
    BY <1>12 DEF EditConfigThenRevoke
  <2>3. \A q \in Proc \ {p} : pc'[q] = pc[q] /\ mem'[q] = mem[q]
    BY <1>12 DEF EditConfigThenRevoke
  <2>4. Custody(p) => Custody(p)' \/ lost'[srv[p]]
    BY <1>12 DEF Custody, EditConfigThenRevoke
  <2> QED
    BY <2>1, <2>2, <2>3, <2>4, QuietStep
<1>13. ASSUME NEW p \in Proc, Revoke(p) PROVE LiveTokenAccounted'
  <2> SUFFICES ASSUME NEW s \in Server, SingleLogin(s) PROVE Accounted(s)'
    BY <1>13 DEF LiveTokenAccounted, SingleLogin, Revoke
  <2>1. CASE s = srv[p]
    BY <1>13, <2>1 DEF Accounted, Revoke
  <2>2. CASE s # srv[p]
    <3>1. file'[s] = file[s] /\ live'[s] = live[s] /\ lost'[s] = lost[s]
      BY <1>13, <2>2 DEF Revoke
    <3>2. UNCHANGED <<cmd, srv>> /\ (Wrecked => Wrecked')
      BY <1>13, NoProcAssumption DEF Revoke
    <3>3. \A q \in Proc \ {p} : pc'[q] = pc[q] /\ mem'[q] = mem[q]
      BY <1>13 DEF Revoke
    <3> QED
      BY <2>2, <3>1, <3>2, <3>3, OtherServer DEF LiveTokenAccounted
  <2> QED
    BY <2>1, <2>2
<1>14. ASSUME NEW p \in Proc, RevokeUnknown(p) PROVE LiveTokenAccounted'
  <2>1. UNCHANGED <<file, live, cmd, srv>> /\ (Wrecked => Wrecked')
    BY <1>14 DEF RevokeUnknown
  <2>2. \A s \in Server : lost[s] => lost'[s]
    BY <1>14 DEF RevokeUnknown
  <2>3. \A q \in Proc \ {p} : pc'[q] = pc[q] /\ mem'[q] = mem[q]
    BY <1>14 DEF RevokeUnknown
  <2>4. Custody(p) => Custody(p)' \/ lost'[srv[p]]
    BY <1>14 DEF Custody, RevokeUnknown
  <2> QED
    BY <2>1, <2>2, <2>3, <2>4, QuietStep
<1>15. ASSUME NEW p \in Proc, Exchange(p) PROVE LiveTokenAccounted'
  <2> SUFFICES ASSUME NEW s \in Server, SingleLogin(s) PROVE Accounted(s)'
    BY <1>15 DEF LiveTokenAccounted, SingleLogin, Exchange, Grant
  <2>1. CASE s = srv[p]
    <3>1. srv'[p] = s /\ Custody(p)'
      BY <1>15, <2>1 DEF Custody, Exchange, Grant
    <3> QED
      BY <3>1 DEF Accounted
  <2>2. CASE s # srv[p]
    <3>1. file'[s] = file[s] /\ live'[s] = live[s] /\ lost'[s] = lost[s]
      BY <1>15, <2>2 DEF Exchange, Grant
    <3>2. UNCHANGED <<cmd, srv>> /\ (Wrecked => Wrecked')
      BY <1>15, NoProcAssumption DEF Exchange, Grant
    <3>3. \A q \in Proc \ {p} : pc'[q] = pc[q] /\ mem'[q] = mem[q]
      BY <1>15 DEF Exchange, Grant
    <3> QED
      BY <2>2, <3>1, <3>2, <3>3, OtherServer DEF LiveTokenAccounted
  <2> QED
    BY <2>1, <2>2
<1>16. ASSUME NEW p \in Proc, PostExecuted(p) PROVE LiveTokenAccounted'
  <2>1. UNCHANGED <<file, live, cmd, srv>> /\ (Wrecked => Wrecked')
    BY <1>16 DEF PostExecuted
  <2>2. \A s \in Server : lost[s] => lost'[s]
    BY <1>16 DEF PostExecuted
  <2>3. \A q \in Proc \ {p} : pc'[q] = pc[q] /\ mem'[q] = mem[q]
    BY <1>16 DEF PostExecuted
  <2>4. Custody(p) => Custody(p)' \/ lost'[srv[p]]
    BY <1>16 DEF Custody, PostExecuted
  <2> QED
    BY <2>1, <2>2, <2>3, <2>4, QuietStep
<1>17. ASSUME NEW p \in Proc, PostThenCall(p) PROVE LiveTokenAccounted'
  <2>1. UNCHANGED <<file, live, cmd, srv>> /\ (Wrecked => Wrecked')
    BY <1>17 DEF PostThenCall
  <2>2. \A s \in Server : lost[s] => lost'[s]
    BY <1>17 DEF PostThenCall
  <2>3. \A q \in Proc \ {p} : pc'[q] = pc[q] /\ mem'[q] = mem[q]
    BY <1>17 DEF PostThenCall
  <2>4. Custody(p) => Custody(p)' \/ lost'[srv[p]]
    BY <1>17 DEF Custody, PostThenCall
  <2> QED
    BY <2>1, <2>2, <2>3, <2>4, QuietStep
<1>18. ASSUME NEW p \in Proc, PostReplyLost(p) PROVE LiveTokenAccounted'
  <2>1. UNCHANGED <<file, live, cmd, srv>> /\ (Wrecked => Wrecked')
    BY <1>18 DEF PostReplyLost
  <2>2. \A s \in Server : lost[s] => lost'[s]
    BY <1>18 DEF PostReplyLost
  <2>3. \A q \in Proc \ {p} : pc'[q] = pc[q] /\ mem'[q] = mem[q]
    BY <1>18 DEF PostReplyLost
  <2>4. Custody(p) => Custody(p)' \/ lost'[srv[p]]
    BY <1>18 DEF Custody, PostReplyLost
  <2> QED
    BY <2>1, <2>2, <2>3, <2>4, QuietStep
<1>19. ASSUME NEW p \in Proc, PostRejected(p) PROVE LiveTokenAccounted'
  <2>1. UNCHANGED <<file, live, cmd, srv>> /\ (Wrecked => Wrecked')
    BY <1>19 DEF PostRejected, Replays
  <2>2. \A s \in Server : lost[s] => lost'[s]
    BY <1>19 DEF PostRejected, Replays
  <2>3. \A q \in Proc \ {p} : pc'[q] = pc[q] /\ mem'[q] = mem[q]
    BY <1>19 DEF PostRejected, Replays
  <2>4. Custody(p) => Custody(p)' \/ lost'[srv[p]]
    BY <1>19 DEF Custody, PostRejected, Replays
  <2> QED
    BY <2>1, <2>2, <2>3, <2>4, QuietStep
<1>20. ASSUME NEW p \in Proc, ReplayRejected(p) PROVE LiveTokenAccounted'
  <2>1. UNCHANGED <<file, live, cmd, srv>> /\ (Wrecked => Wrecked')
    BY <1>20 DEF ReplayRejected, Replays
  <2>2. \A s \in Server : lost[s] => lost'[s]
    BY <1>20 DEF ReplayRejected, Replays
  <2>3. \A q \in Proc \ {p} : pc'[q] = pc[q] /\ mem'[q] = mem[q]
    BY <1>20 DEF ReplayRejected, Replays
  <2>4. Custody(p) => Custody(p)' \/ lost'[srv[p]]
    BY <1>20 DEF Custody, ReplayRejected, Replays
  <2> QED
    BY <2>1, <2>2, <2>3, <2>4, QuietStep
<1>21. ASSUME NEW p \in Proc, TokenReplyLost(p) PROVE LiveTokenAccounted'
  <2> SUFFICES ASSUME NEW s \in Server, SingleLogin(s) PROVE Accounted(s)'
    BY <1>21 DEF LiveTokenAccounted, SingleLogin, TokenReplyLost, Grant
  <2>1. CASE s = srv[p]
    BY <1>21, <2>1 DEF Accounted, TokenReplyLost, Grant
  <2>2. CASE s # srv[p]
    <3>1. file'[s] = file[s] /\ live'[s] = live[s] /\ lost'[s] = lost[s]
      BY <1>21, <2>2 DEF TokenReplyLost, Grant
    <3>2. UNCHANGED <<cmd, srv>> /\ (Wrecked => Wrecked')
      BY <1>21, NoProcAssumption DEF TokenReplyLost, Grant
    <3>3. \A q \in Proc \ {p} : pc'[q] = pc[q] /\ mem'[q] = mem[q]
      BY <1>21 DEF TokenReplyLost, Grant
    <3> QED
      BY <2>2, <3>1, <3>2, <3>3, OtherServer DEF LiveTokenAccounted
  <2> QED
    BY <2>1, <2>2
<1>22. ASSUME NEW p \in Proc, RevokeFails(p) PROVE LiveTokenAccounted'
  <2>1. UNCHANGED <<file, live, cmd, srv>> /\ (Wrecked => Wrecked')
    BY <1>22 DEF RevokeFails
  <2>2. \A s \in Server : lost[s] => lost'[s]
    BY <1>22 DEF RevokeFails
  <2>3. \A q \in Proc \ {p} : pc'[q] = pc[q] /\ mem'[q] = mem[q]
    BY <1>22 DEF RevokeFails
  <2>4. Custody(p) => Custody(p)' \/ lost'[srv[p]]
    BY <1>22 DEF Custody, RevokeFails
  <2> QED
    BY <2>1, <2>2, <2>3, <2>4, QuietStep
<1>23. ASSUME NEW p \in Proc, Fail(p) PROVE LiveTokenAccounted'
  <2>1. UNCHANGED <<file, live, cmd, srv>> /\ (Wrecked => Wrecked')
    BY <1>23 DEF Fail
  <2>2. \A s \in Server : lost[s] => lost'[s]
    BY <1>23 DEF Fail
  <2>3. \A q \in Proc \ {p} : pc'[q] = pc[q] /\ mem'[q] = mem[q]
    BY <1>23 DEF Fail
  <2>4. Custody(p) => Custody(p)' \/ lost'[srv[p]]
    BY <1>23 DEF Custody, Fail
  <2> QED
    BY <2>1, <2>2, <2>3, <2>4, QuietStep
<1>24. ASSUME NEW s \in Server, Tick(s) PROVE LiveTokenAccounted'
  BY <1>24 DEF Tick, LiveTokenAccounted, Accounted, SingleLogin, Custody
<1>25. ASSUME NEW s \in Server, Reject(s) PROVE LiveTokenAccounted'
  BY <1>25 DEF Reject, LiveTokenAccounted, Accounted, SingleLogin, Custody
<1>26. CASE UNCHANGED vars
  BY <1>26 DEF vars, LiveTokenAccounted, Accounted, SingleLogin, Custody
<1> QED
  BY <1>1, <1>2, <1>3, <1>4, <1>5, <1>6, <1>7, <1>8, <1>9, <1>10, <1>11,
     <1>12, <1>13, <1>14, <1>15, <1>16, <1>17, <1>18, <1>19, <1>20, <1>21,
     <1>22, <1>23, <1>24, <1>25, <1>26 DEF Next, Bounded, Unbounded

-----------------------------------------------------------------------------
LEMMA InitSafety == Init => SafetyInv
<1> SUFFICES ASSUME Init PROVE SafetyInv
  OBVIOUS
<1>1. TypeOK
  BY InitType
<1>2. \A p \in Proc : /\ pc[p] = Start[cmd[p]]
                      /\ mem[p] = 0 /\ sent[p] = 0 /\ calls[p] = 0 /\ ran[p] = 0
  BY DEF Init
<1>3. \A p \in Proc : /\ cmd[p] \in Command
                      /\ cmd[p] = "api" => pc[p] = "load"
                      /\ cmd[p] = "login" => pc[p] = "exchange_code"
                      /\ cmd[p] = "logout" => pc[p] = "edit_tokens"
  <2>1. TAKE p \in Proc
  <2>2. cmd[p] \in Command
    BY <1>1 DEF TypeOK
  <2> QED
    BY <1>2, <2>2 DEF Start, Command
<1>4. LockInv
  BY <1>3, NoProcAssumption DEF Init, LockInv, Critical, Command, Wrecked
<1>5. RoleInv
  BY <1>3 DEF RoleInv, Command, Calling, CustodyAt
<1>6. CallInv
  <2> SUFFICES ASSUME NEW p \in Proc PROVE CallInv!(p)
    BY DEF CallInv
  <2>1. issued[srv[p]] \in Nat
    BY <1>1 DEF TypeOK
  <2> QED
    BY <1>2, <1>3, <2>1 DEF Command, Calling
<1>7. RefreshInv
  BY <1>3 DEF RefreshInv, Command, CustodyAt
<1>8. LoginInv /\ WriterInv
  BY <1>3 DEF LoginInv, WriterInv, Command, CustodyAt
<1>9. OnlyCallsInv
  BY DEF Init, OnlyCallsInv
<1>10. LiveTokenAccounted
  BY DEF Init, LiveTokenAccounted, Accounted
<1> QED
  BY <1>4, <1>5, <1>6, <1>7, <1>8, <1>9, <1>10 DEF SafetyInv

LEMMA NextSafety == TypeOK /\ SafetyInv /\ [Next]_vars => SafetyInv'
<1> SUFFICES ASSUME TypeOK, SafetyInv, [Next]_vars PROVE SafetyInv'
  OBVIOUS
<1> USE DEF SafetyInv
<1>1. LockInv' /\ RoleInv' /\ CallInv'
  BY NextLock, NextRole, NextCall
<1>2. RefreshInv' /\ OnlyCallsInv'
  BY NextRefresh, NextOnlyCalls
<1>3. LoginInv' /\ WriterInv'
  BY NextLogin, NextWriter
<1>4. LiveTokenAccounted'
  BY NextAccounted
<1> QED
  BY <1>1, <1>2, <1>3, <1>4

\* Every variable keeps its type, and no process, file or snapshot holds a
\* generation the server has not issued.
THEOREM TypeCorrect == Spec => []TypeOK
<1>1. Init => TypeOK
  BY InitType
<1>2. TypeOK /\ [Next]_vars => TypeOK'
  BY NextType
<1> QED
  BY <1>1, <1>2, PTL DEF Spec

\* The invariant the other theorems rest on.
THEOREM Safety == Spec => []SafetyInv
<1>1. Init => SafetyInv
  BY InitSafety
<1>2. TypeOK /\ TypeOK' /\ SafetyInv /\ [Next]_vars => SafetyInv'
  BY NextSafety
<1> QED
  BY <1>1, <1>2, TypeCorrect, PTL DEF Spec

\* The read-modify-write of tokens.json is atomic for any number of processes
\* (edit_tokens and locked_edit under the flock).
THEOREM AtomicEdit == Spec => []SnapshotIsCurrent
<1>1. SafetyInv => SnapshotIsCurrent
  BY DEF SafetyInv, LockInv, SnapshotIsCurrent
<1> QED
  BY <1>1, Safety, PTL

\* No interleaving of commands orphans the server's live refresh token.
THEOREM TokenNeverOrphaned == Spec => []LiveTokenAccounted
<1>1. SafetyInv => LiveTokenAccounted
  BY DEF SafetyInv
<1> QED
  BY <1>1, Safety, PTL

\* Where only API calls are made, no process presents a dead refresh token.
THEOREM NoTokenBurned == Spec => []NeverBurnsDeadToken
<1>1. TypeOK /\ SafetyInv => NeverBurnsDeadToken
  <2> SUFFICES ASSUME TypeOK, SafetyInv, NEW p \in Proc, pc[p] = "refresh",
                      OnlyCalls(srv[p]), ~ lost[srv[p]]
               PROVE  mem[p] = live[srv[p]]
    BY DEF NeverBurnsDeadToken
  <2> DEFINE s == srv[p]
  <2>1. s \in Server /\ cmd[p] = "api" /\ lock = p
    BY DEF SafetyInv, TypeOK, RoleInv, LockInv, Critical
  <2>2. mem[p] # 0 /\ mem[p] <= issued[s] /\ mem[p] \in Nat /\ issued[s] \in Nat
    BY <2>1 DEF SafetyInv, TypeOK, RoleInv, Calling
  <2>3. live[s] # 0 /\ file[s] # 0
    BY <2>1, <2>2 DEF SafetyInv, OnlyCallsInv
  <2>4. mem[p] = file[s]
    BY <2>3 DEF SafetyInv, RefreshInv
  <2>5. SingleLogin(s)
    BY DEF OnlyCalls, SingleLogin
  <2>6. ASSUME NEW q \in Proc, srv[q] = s, Custody(q) PROVE FALSE
    <3>1. cmd[q] = "api"
      BY <2>6 DEF OnlyCalls
    <3>2. pc[q] \in {"write_locked", "writing"}
      BY <2>6, <3>1 DEF Custody, CustodyAt
    <3>3. lock = q
      BY <3>2 DEF SafetyInv, LockInv, Critical
    <3> QED
      BY <2>1, <3>2, <3>3
  <2>7. ~ Wrecked
    BY <2>1, NoProcAssumption DEF Wrecked
  <2> QED
    BY <2>1, <2>3, <2>4, <2>5, <2>6, <2>7 DEF SafetyInv, LiveTokenAccounted, Accounted
<1> QED
  BY <1>1, TypeCorrect, Safety, PTL

\* A replay never repeats the access token that was rejected.
THEOREM ReplayIsNew == Spec => []ReplayUsesNewToken
<1>1. SafetyInv => ReplayUsesNewToken
  BY DEF SafetyInv, CallInv, ReplayUsesNewToken, Replays
<1> QED
  BY <1>1, Safety, PTL

\* No call is executed twice.
THEOREM AtMostOnce == Spec => []ExecutedAtMostOnce
<1>1. SafetyInv => ExecutedAtMostOnce
  BY DEF SafetyInv, CallInv, RoleInv, Calling, ExecutedAtMostOnce
<1> QED
  BY <1>1, Safety, PTL

\* The file is whole whenever the lock is free, unless a command failed.
THEOREM WholeUnlessFailure == Spec => []TornOnlyByFailure
<1>1. TypeOK /\ SafetyInv => TornOnlyByFailure
  BY DEF TypeOK, SafetyInv, LockInv, TornOnlyByFailure, Wrecked
<1> QED
  BY <1>1, TypeCorrect, Safety, PTL

\* A proactive refresh never rotates a fresh stored pair.
THEOREM ProactiveIsLazy == Spec => []ProactiveAdoptsFresh
<1>1. TypeOK /\ SafetyInv => ProactiveAdoptsFresh
  BY DEF TypeOK, SafetyInv, RefreshInv, ProactiveAdoptsFresh, Replays
<1> QED
  BY <1>1, TypeCorrect, Safety, PTL

\* With at most one login per server, no write puts back an older pair.
THEOREM NoRollback == Spec => NeverRollsBack
<1>1. TypeOK /\ SafetyInv /\ [Next]_vars =>
      [\A s \in Server : SingleLogin(s) /\ file'[s] # 0 => file'[s] >= file[s]]_vars
  <2> SUFFICES ASSUME TypeOK, SafetyInv, [Next]_vars,
                      NEW s \in Server, SingleLogin(s), file'[s] # 0
               PROVE  file'[s] >= file[s]
    OBVIOUS
  <2>1. CASE file' = file
    BY <2>1 DEF TypeOK
  <2>2. ASSUME NEW p \in Proc, EndWrite(p) PROVE file'[s] >= file[s]
    <3>1. snap[p] = file /\ pc[p] = "writing" /\ file' = Contents(p)
      BY <2>2 DEF EndWrite, SafetyInv, LockInv, Critical
    <3>2. CASE s # srv[p]
      BY <3>1, <3>2 DEF Contents, TypeOK
    <3>3. CASE s = srv[p]
      <4>1. file'[s] = Entry(p)
        BY <3>1, <3>3 DEF Contents, TypeOK
      <4>2. cmd[p] # "logout"
        BY <4>1 DEF Entry
      <4>3. CASE cmd[p] = "api"
        BY <3>1, <3>3, <4>1, <4>3 DEF Entry, TypeOK, SafetyInv, RefreshInv, CustodyAt
      <4>4. CASE cmd[p] = "login"
        <5>1. mem[p] = issued[s]
          BY <3>1, <3>3, <4>4 DEF TypeOK, SafetyInv, LoginInv, RoleInv, CustodyAt
        <5> QED
          BY <4>1, <4>4, <5>1 DEF Entry, TypeOK
      <4> QED
        BY <4>2, <4>3, <4>4 DEF TypeOK, Command
    <3> QED
      BY <3>2, <3>3
  <2>3. ASSUME file' # file PROVE \E p \in Proc : EndWrite(p)
    BY <2>3 DEF Next, Bounded, Unbounded, vars, disk, Load, LoadFails, EnsureFresh,
                EditTokens, AdoptFresh, EditTokensFails, Refresh, RefreshRejected,
                BeginWrite, EditConfig, EditConfigThenRevoke, Revoke,
                RevokeUnknown, Exchange, PostExecuted, PostThenCall, PostReplyLost,
                PostRejected, ReplayRejected, TokenReplyLost, RevokeFails, Fail,
                Tick, Reject
  <2> QED
    BY <2>1, <2>2, <2>3
<1> QED
  BY <1>1, TypeCorrect, Safety, PTL DEF Spec, NeverRollsBack

-----------------------------------------------------------------------------
(***************************************************************************)
(* Every step of a command brings it nearer its end.                       *)
(***************************************************************************)
BudgetInv == \A p \in Proc :
    /\ calls[p] <= MaxCalls[p]
    /\ pc[p] = "load" => calls[p] = 0

LEMMA NextBudget == TypeOK /\ BudgetInv /\ [Next]_vars => BudgetInv'
<1> SUFFICES ASSUME TypeOK, BudgetInv, [Next]_vars PROVE BudgetInv'
  OBVIOUS
<1> USE MaxCallsAssumption DEF disk, server, clock, client, Goto, End, Quit, TypeOK, BudgetInv
<1>1. ASSUME NEW p \in Proc, Load(p) PROVE BudgetInv'
  BY <1>1 DEF Load
<1>2. ASSUME NEW p \in Proc, PostThenCall(p) PROVE BudgetInv'
  BY <1>2 DEF PostThenCall
<1>3. ASSUME UNCHANGED calls, \A p \in Proc : pc'[p] = "load" => pc[p] = "load" PROVE BudgetInv'
  BY <1>3
<1>4. ASSUME NEW p \in Proc, LoadFails(p) \/ EnsureFresh(p) \/ EditTokens(p) \/ AdoptFresh(p)
             \/ EditTokensFails(p) \/ Refresh(p) \/ RefreshRejected(p)
      PROVE  BudgetInv'
  BY <1>3, <1>4 DEF LoadFails, EnsureFresh, EditTokens, AdoptFresh, EditTokensFails,
                    Refresh, RefreshRejected
<1>5. ASSUME NEW p \in Proc, BeginWrite(p) \/ EndWrite(p) \/ EditConfig(p)
             \/ EditConfigThenRevoke(p) \/ Revoke(p) \/ RevokeUnknown(p) \/ RevokeFails(p)
      PROVE  BudgetInv'
  BY <1>3, <1>5 DEF BeginWrite, EndWrite, EditConfig, EditConfigThenRevoke, Revoke,
                    RevokeUnknown, RevokeFails
<1>6. ASSUME NEW p \in Proc, PostExecuted(p) \/ PostReplyLost(p) \/ PostRejected(p)
             \/ ReplayRejected(p) \/ Exchange(p) \/ TokenReplyLost(p) \/ Fail(p)
      PROVE  BudgetInv'
  BY <1>3, <1>6 DEF PostExecuted, PostReplyLost, PostRejected, ReplayRejected, Exchange,
                    TokenReplyLost, Fail
<1>7. CASE (\E s \in Server : Tick(s) \/ Reject(s)) \/ UNCHANGED vars
  BY <1>3, <1>7 DEF Tick, Reject, vars
<1> QED
  BY <1>1, <1>2, <1>4, <1>5, <1>6, <1>7 DEF Next, Bounded, Unbounded

\* Where an api command, a login and a logout can be, and the steps still ahead.
LEMMA StepsLeftFacts ==
  ASSUME TypeOK, RoleInv, CallInv, BudgetInv, NEW p \in Proc, pc[p] \notin Finished
  PROVE  /\ StepsLeft(p) \in Nat \ {0}
         /\ StepsLeft(p) = Ahead[cmd[p]][pc[p]] + ReplayAhead(p) + CallsAhead(p)
         /\ CallsAhead(p) \in Nat
<1>1. CallsAhead(p) \in Nat /\ ReplayAhead(p) \in Nat
  BY MaxCallsAssumption DEF TypeOK, CallsAhead, ReplayAhead, BudgetInv
<1>2. Ahead[cmd[p]][pc[p]] \in Nat \ {0}
  <2> USE DEF TypeOK, RoleInv, Label, Finished, Command
  <2>1. CASE cmd[p] = "api"
    <3>1. pc[p] \in {"load", "ensure_fresh", "edit_tokens", "refresh", "write_locked",
                     "writing", "post"}
      BY <2>1
    <3>2. Ahead[cmd[p]] = [load |-> 7, ensure_fresh |-> 6, edit_tokens |-> 5, refresh |-> 4,
                           write_locked |-> 3, writing |-> 2, post |-> 1]
      BY <2>1 DEF Ahead
    <3> QED
      BY <3>1, <3>2
  <2>2. CASE cmd[p] = "login"
    <3>1. pc[p] \in {"exchange_code", "edit_tokens", "write_locked", "writing", "config"}
      BY <2>2
    <3>2. Ahead[cmd[p]] = [exchange_code |-> 5, edit_tokens |-> 4, write_locked |-> 3,
                           writing |-> 2, config |-> 1]
      BY <2>2 DEF Ahead
    <3> QED
      BY <3>1, <3>2
  <2>3. CASE cmd[p] = "logout"
    <3>1. pc[p] \in {"edit_tokens", "write_locked", "writing", "config", "revoke"}
      BY <2>3
    <3>2. Ahead[cmd[p]] = [edit_tokens |-> 5, write_locked |-> 4, writing |-> 3,
                           config |-> 2, revoke |-> 1]
      BY <2>3 DEF Ahead
    <3> QED
      BY <3>1, <3>2
  <2> QED
    BY <2>1, <2>2, <2>3
<1> QED
  BY <1>1, <1>2 DEF StepsLeft

LEMMA AheadOfApi ==
  LET a == Ahead["api"] IN
  /\ a["load"] = 7 /\ a["ensure_fresh"] = 6 /\ a["edit_tokens"] = 5 /\ a["refresh"] = 4
  /\ a["write_locked"] = 3 /\ a["writing"] = 2 /\ a["post"] = 1
BY DEF Ahead

LEMMA AheadOfLogin ==
  LET a == Ahead["login"] IN
  /\ a["exchange_code"] = 5 /\ a["edit_tokens"] = 4 /\ a["write_locked"] = 3
  /\ a["writing"] = 2 /\ a["config"] = 1
BY DEF Ahead

LEMMA AheadOfLogout ==
  LET a == Ahead["logout"] IN
  /\ a["edit_tokens"] = 5 /\ a["write_locked"] = 4 /\ a["writing"] = 3
  /\ a["config"] = 2 /\ a["revoke"] = 1
BY DEF Ahead

\* A step that ends the command.
LEMMA LastStep ==
  ASSUME TypeOK, RoleInv, CallInv, BudgetInv, NEW p \in Proc,
         pc[p] \notin Finished, pc'[p] \in Finished
  PROVE  StepsLeft(p)' \in 0 .. StepsLeft(p) - 1
<1>1. StepsLeft(p)' = 0
  BY DEF StepsLeft
<1> QED
  BY <1>1, StepsLeftFacts

\* A step within the same call.
LEMMA InnerStep ==
  ASSUME TypeOK, RoleInv, CallInv, BudgetInv, NEW p \in Proc,
         pc[p] \notin Finished, pc'[p] \notin Finished,
         UNCHANGED <<cmd, sent, calls>>,
         Ahead[cmd[p]][pc'[p]] \in Nat, Ahead[cmd[p]][pc[p]] \in Nat,
         Ahead[cmd[p]][pc'[p]] < Ahead[cmd[p]][pc[p]]
  PROVE  StepsLeft(p)' \in 0 .. StepsLeft(p) - 1
<1>1. CallsAhead(p) \in Nat /\ CallsAhead(p)' = CallsAhead(p)
  BY StepsLeftFacts DEF CallsAhead
<1>2. ReplayAhead(p) \in Nat /\ ReplayAhead(p)' = ReplayAhead(p)
  BY DEF ReplayAhead
<1>3. StepsLeft(p) = Ahead[cmd[p]][pc[p]] + ReplayAhead(p) + CallsAhead(p)
  BY DEF StepsLeft
<1>4. StepsLeft(p)' = Ahead[cmd[p]][pc'[p]] + ReplayAhead(p) + CallsAhead(p)
  BY <1>1, <1>2 DEF StepsLeft
<1> QED
  BY <1>1, <1>2, <1>3, <1>4

LEMMA NextSteps ==
  ASSUME TypeOK, RoleInv, CallInv, BudgetInv, [Next]_vars, NEW q \in Proc,
         pc'[q] # pc[q] \/ ran'[q] # ran[q]
  PROVE  StepsLeft(q)' \in 0 .. StepsLeft(q) - 1
<1> USE DEF disk, server, clock, client, Goto, TypeOK
<1>1. ASSUME NEW p \in Proc,
             LoadFails(p) \/ EditTokensFails(p) \/ RefreshRejected(p) \/ EditConfig(p)
               \/ Revoke(p) \/ RevokeUnknown(p) \/ RevokeFails(p) \/ PostExecuted(p)
               \/ PostReplyLost(p) \/ ReplayRejected(p) \/ TokenReplyLost(p) \/ Fail(p)
      PROVE  StepsLeft(q)' \in 0 .. StepsLeft(q) - 1
  <2>1. pc[p] \notin Finished /\ pc'[p] \in Finished
    BY <1>1 DEF LoadFails, EditTokensFails, RefreshRejected, EditConfig, Revoke, RevokeUnknown,
         RevokeFails, PostExecuted, PostReplyLost, ReplayRejected, TokenReplyLost, Fail,
         Quit, End, Finished
  <2>2. q # p => pc'[q] = pc[q] /\ ran'[q] = ran[q]
    BY <1>1 DEF LoadFails, EditTokensFails, RefreshRejected, EditConfig, Revoke, RevokeUnknown,
         RevokeFails, PostExecuted, PostReplyLost, ReplayRejected, TokenReplyLost, Fail,
         Quit, End
  <2>3. q = p
    BY <2>2
  <2> QED
    BY <2>1, <2>3, LastStep
<1>2. ASSUME NEW p \in Proc,
             EnsureFresh(p) \/ EditTokens(p) \/ AdoptFresh(p) \/ Refresh(p) \/ BeginWrite(p)
               \/ EndWrite(p) \/ EditConfigThenRevoke(p) \/ Exchange(p)
      PROVE  StepsLeft(q)' \in 0 .. StepsLeft(q) - 1
  <2>1. /\ UNCHANGED <<cmd, sent, calls, ran>> /\ pc[p] \notin Finished /\ pc'[p] \notin Finished
        /\ \A r \in Proc \ {p} : pc'[r] = pc[r]
    BY <1>2 DEF EnsureFresh, EditTokens, AdoptFresh, Refresh, BeginWrite, EndWrite,
         EditConfigThenRevoke, Exchange, Finished
  <2>2. q = p
    BY <2>1
  <2> DEFINE Nearer == /\ Ahead[cmd[p]][pc'[p]] \in Nat /\ Ahead[cmd[p]][pc[p]] \in Nat
                       /\ Ahead[cmd[p]][pc'[p]] < Ahead[cmd[p]][pc[p]]
  <2>3. ASSUME EnsureFresh(p) \/ AdoptFresh(p) \/ Refresh(p) PROVE Nearer
    <3>1. cmd[p] = "api"
      BY <2>3 DEF RoleInv, EnsureFresh, AdoptFresh, SkipsRefresh, Refresh
    <3>2. \/ pc[p] = "ensure_fresh" /\ pc'[p] \in {"post", "edit_tokens"}
          \/ pc[p] = "edit_tokens" /\ pc'[p] = "post"
          \/ pc[p] = "refresh" /\ pc'[p] = "write_locked"
      BY <2>3 DEF EnsureFresh, AdoptFresh, Refresh
    <3> QED
      BY <3>1, <3>2, AheadOfApi
  <2>4. ASSUME EditTokens(p) \/ BeginWrite(p) \/ EndWrite(p) PROVE Nearer
    <3>1. CASE cmd[p] = "api"
      <4>1. \/ pc[p] = "edit_tokens" /\ pc'[p] = "refresh"
            \/ pc[p] = "write_locked" /\ pc'[p] = "writing"
            \/ pc[p] = "writing" /\ pc'[p] = "post"
        BY <2>4, <3>1 DEF EditTokens, BeginWrite, EndWrite
      <4> QED
        BY <3>1, <4>1, AheadOfApi
    <3>2. CASE cmd[p] # "api"
      <4>1. \/ pc[p] = "edit_tokens" /\ pc'[p] = "write_locked"
            \/ pc[p] = "write_locked" /\ pc'[p] = "writing"
            \/ pc[p] = "writing" /\ pc'[p] = "config"
        BY <2>4, <3>2 DEF EditTokens, BeginWrite, EndWrite
      <4>2. CASE cmd[p] = "login"
        BY <4>1, <4>2, AheadOfLogin
      <4>3. CASE cmd[p] = "logout"
        BY <4>1, <4>3, AheadOfLogout
      <4> QED
        BY <3>2, <4>2, <4>3 DEF Command
    <3> QED
      BY <3>1, <3>2
  <2>5. ASSUME EditConfigThenRevoke(p) PROVE Nearer
    BY <2>5, AheadOfLogout DEF EditConfigThenRevoke
  <2>6. ASSUME Exchange(p) PROVE Nearer
    <3>1. cmd[p] = "login"
      BY <2>6 DEF RoleInv, Exchange
    <3> QED
      BY <2>6, <3>1, AheadOfLogin DEF Exchange
  <2>7. Nearer
    BY <1>2, <2>3, <2>4, <2>5, <2>6
  <2> QED
    BY <2>1, <2>2, <2>7, InnerStep
<1>3. ASSUME NEW p \in Proc, Load(p) \/ PostThenCall(p)
      PROVE  StepsLeft(q)' \in 0 .. StepsLeft(q) - 1
  <2>1. /\ cmd'[p] = "api" /\ cmd[p] = "api"
        /\ pc[p] \in {"load", "post"} /\ pc'[p] = "ensure_fresh"
        /\ calls[p] < MaxCalls[p] /\ calls'[p] = calls[p] + 1
        /\ sent'[p] = 0
        /\ \A r \in Proc \ {p} : pc'[r] = pc[r] /\ ran'[r] = ran[r]
    BY <1>3, MaxCallsAssumption DEF Load, PostThenCall, RoleInv, CallInv, BudgetInv
  <2>2. q = p
    BY <2>1
  <2>3. CallsAhead(p) \in Nat /\ CallsAhead(p)' = CallsAhead(p) - 11 /\ CallsAhead(p) >= 11
    BY <2>1, MaxCallsAssumption DEF CallsAhead
  <2>4. StepsLeft(p)' = 11 + CallsAhead(p) - 11
    BY <2>1, <2>3, AheadOfApi DEF StepsLeft, ReplayAhead, Finished
  <2>5. StepsLeft(p) >= 1 + CallsAhead(p)
    BY <2>1, <2>3, AheadOfApi DEF StepsLeft, ReplayAhead, Finished
  <2>6. StepsLeft(p) \in Nat
    BY <2>1, StepsLeftFacts DEF Finished
  <2> QED
    BY <2>2, <2>3, <2>4, <2>5, <2>6
<1>4. ASSUME NEW p \in Proc, PostRejected(p)
      PROVE  StepsLeft(q)' \in 0 .. StepsLeft(q) - 1
  <2>1. /\ cmd'[p] = "api" /\ cmd[p] = "api"
        /\ pc[p] = "post" /\ pc'[p] = "edit_tokens"
        /\ sent[p] = 0 /\ sent'[p] # 0
        /\ calls' = calls
        /\ \A r \in Proc \ {p} : pc'[r] = pc[r] /\ ran'[r] = ran[r]
    BY <1>4 DEF PostRejected, Replays, RoleInv, Calling
  <2>2. q = p
    BY <2>1
  <2>3. CallsAhead(p) \in Nat /\ CallsAhead(p)' = CallsAhead(p)
    BY <2>1, StepsLeftFacts DEF CallsAhead, Finished
  <2>4. StepsLeft(p)' = 5 + CallsAhead(p)
    BY <2>1, <2>3, AheadOfApi DEF StepsLeft, ReplayAhead, Finished
  <2>5. StepsLeft(p) = 6 + CallsAhead(p)
    BY <2>1, <2>3, AheadOfApi DEF StepsLeft, ReplayAhead, Finished
  <2> QED
    BY <2>2, <2>3, <2>4, <2>5
<1>5. CASE (\E s \in Server : Tick(s) \/ Reject(s)) \/ UNCHANGED vars
  BY <1>5 DEF Tick, Reject, vars
<1> QED
  BY <1>1, <1>2, <1>3, <1>4, <1>5 DEF Next, Bounded, Unbounded

\* With any number of processes and calls, no command refreshes, waits and
\* replays without end: at most eleven steps per API call, whatever the others
\* do (call, ensure_fresh, refresh and post of client.rs).
THEOREM StepsAreBounded == Spec => CommandsAdvance
<1>1. Init => BudgetInv
  <2>1. \A p \in Proc : 0 <= MaxCalls[p]
    BY MaxCallsAssumption
  <2> QED
    BY <2>1 DEF Init, BudgetInv
<1>2. TypeOK /\ BudgetInv /\ [Next]_vars => BudgetInv'
  BY NextBudget
<1>3. TypeOK /\ SafetyInv /\ BudgetInv /\ [Next]_vars =>
        [\A p \in Proc : pc'[p] # pc[p] \/ ran'[p] # ran[p] =>
            StepsLeft(p)' \in 0 .. StepsLeft(p) - 1]_vars
  BY NextSteps DEF SafetyInv
<1> QED
  BY <1>1, <1>2, <1>3, TypeCorrect, Safety, PTL DEF Spec, CommandsAdvance
=============================================================================
