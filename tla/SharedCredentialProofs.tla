------------------------ MODULE SharedCredentialProofs ------------------------
(***************************************************************************)
(* TokenStore implements SharedCredential, for every set of processes and  *)
(* servers: the initial states map to initial states, and every step to a  *)
(* step or a stutter.                                                      *)
(***************************************************************************)
EXTENDS TokenStoreProofs

(***************************************************************************)
(* CarrierInv is invariant.  Most steps leave the entries alone, begin no  *)
(* revocation and no write, and drop no grant.                             *)
(***************************************************************************)
LEMMA QuietCarrier ==
  ASSUME CarrierInv,
         UNCHANGED <<file, cmd, srv>>,
         \A p \in Proc : Revoking(p)' => Revoking(p) /\ mem'[p] = mem[p],
         \A p \in Proc : Storing(p)' => Storing(p) /\ mem'[p] = mem[p],
         \A s \in Server : live[s] # 0 => live'[s] # 0,
         srv \in [Proc -> Server]
  PROVE  CarrierInv'
<1>1. \A p \in Proc : SingleLogin(srv[p])' <=> SingleLogin(srv[p])
  BY DEF SingleLogin
<1>2. \A p \in Proc : Revoking(p)' /\ mem'[p] # 0 /\ SingleLogin(srv[p])'
          => file'[srv'[p]] # mem'[p]
  BY <1>1 DEF CarrierInv
<1>3. \A p, q \in Proc : Revoking(p)' /\ Storing(q)' /\ srv'[p] = srv'[q]
          => mem'[p] < mem'[q]
  BY DEF CarrierInv
<1>4. \A q \in Proc : Storing(q)' => live'[srv'[q]] # 0
  BY DEF CarrierInv
<1> QED
  BY <1>2, <1>3, <1>4 DEF CarrierInv

LEMMA NextCarrier == TypeOK /\ SafetyInv /\ CarrierInv /\ [Next]_vars => CarrierInv'
<1> SUFFICES ASSUME TypeOK, SafetyInv, CarrierInv, [Next]_vars PROVE CarrierInv'
  OBVIOUS
<1> USE DEF disk, server, clock, client, Goto, End, Quit, Revoking, Storing,
            CustodyAt, TypeOK
<1>1. CASE \E p \in Proc : Load(p) \/ LoadFails(p) \/ EnsureFresh(p)
  BY <1>1, QuietCarrier DEF Load, LoadFails, EnsureFresh
<1>2. CASE \E p \in Proc : EditTokens(p) \/ AdoptFresh(p) \/ EditTokensFails(p)
  BY <1>2, QuietCarrier DEF EditTokens, AdoptFresh, EditTokensFails
<1>3. CASE \E p \in Proc : RefreshRejected(p) \/ BeginWrite(p)
  BY <1>3, QuietCarrier DEF RefreshRejected, BeginWrite
<1>4. CASE \E p \in Proc : EditConfig(p) \/ EditConfigThenRevoke(p) \/ RevokeUnknown(p)
                               \/ RevokeFails(p) \/ Fail(p)
  BY <1>4, QuietCarrier DEF EditConfig, EditConfigThenRevoke, RevokeUnknown, RevokeFails, Fail
<1>5. CASE \E p \in Proc : PostExecuted(p) \/ PostThenCall(p) \/ PostReplyLost(p)
                               \/ PostRejected(p) \/ ReplayRejected(p)
  BY <1>5, QuietCarrier DEF PostExecuted, PostThenCall, PostReplyLost, PostRejected, ReplayRejected
<1>6. ASSUME NEW p \in Proc, Exchange(p) \/ TokenReplyLost(p) PROVE CarrierInv'
  BY <1>6, QuietCarrier DEF Exchange, TokenReplyLost, Grant
<1>7. CASE (\E s \in Server : Tick(s) \/ Reject(s)) \/ UNCHANGED vars
  BY <1>7, QuietCarrier DEF Tick, Reject, vars
<1>8. ASSUME NEW p \in Proc, Refresh(p) PROVE CarrierInv'
  <2>1. /\ UNCHANGED <<file, cmd, srv>> /\ cmd[p] = "api"
        /\ mem'[p] = issued[srv[p]] + 1
        /\ live'[srv[p]] = issued[srv[p]] + 1
        /\ \A s \in Server \ {srv[p]} : live'[s] = live[s]
        /\ \A q \in Proc \ {p} : mem'[q] = mem[q] /\ pc'[q] = pc[q]
    BY <1>8 DEF Refresh, Grant, SafetyInv, RoleInv
  <2>2. \A q \in Proc : Revoking(q)' => q # p /\ Revoking(q)
    BY <2>1
  <2>3. \A q \in Proc : Revoking(q)' /\ mem'[q] # 0 /\ SingleLogin(srv[q])'
            => file'[srv'[q]] # mem'[q]
    BY <2>1, <2>2 DEF CarrierInv, SingleLogin
  <2>4. ASSUME NEW q \in Proc, NEW r \in Proc, Revoking(q)', Storing(r)', srv'[q] = srv'[r]
        PROVE  mem'[q] < mem'[r]
    <3>1. CASE r = p
      BY <2>1, <2>2, <2>4, <3>1
    <3>2. CASE r # p
      BY <2>1, <2>2, <2>4, <3>2 DEF CarrierInv
    <3> QED
      BY <3>1, <3>2
  <2>5. \A q \in Proc : Storing(q)' => live'[srv'[q]] # 0
    BY <2>1 DEF CarrierInv
  <2> QED
    BY <2>3, <2>4, <2>5 DEF CarrierInv
<1>9. ASSUME NEW p \in Proc, EndWrite(p) PROVE CarrierInv'
  <2>1. /\ UNCHANGED <<live, cmd, srv, mem>>
        /\ pc[p] = "writing" /\ lock = p /\ snap[p] = file
        /\ \A q \in Proc \ {p} : pc'[q] = pc[q]
        /\ file' = [file EXCEPT ![srv[p]] = Entry(p)]
        /\ ~ Storing(p)'
    BY <1>9 DEF EndWrite, Contents, SafetyInv, LockInv, Critical, Label
  <2>2. \A q \in Proc : ~ Storing(q)'
    <3>1. \A q \in Proc \ {p} : pc[q] \notin Critical
      BY <2>1 DEF SafetyInv, LockInv
    <3> QED
      BY <2>1, <3>1 DEF Critical
  <2>3. ASSUME NEW q \in Proc, Revoking(q)', mem'[q] # 0, SingleLogin(srv[q])'
        PROVE  file'[srv'[q]] # mem'[q]
    <3>1. SingleLogin(srv[q])
      BY <2>1, <2>3 DEF SingleLogin
    <3>2. CASE q = p
      BY <2>1, <2>3, <3>2 DEF Entry
    <3>3. CASE q # p /\ srv[q] # srv[p]
      BY <2>1, <2>3, <3>1, <3>3 DEF CarrierInv
    <3>4. CASE q # p /\ srv[q] = srv[p]
      <4>1. file'[srv[q]] = Entry(p) /\ Revoking(q)
        BY <2>1, <2>3, <3>4
      <4>2. CASE cmd[p] = "api"
        BY <2>1, <3>4, <4>1, <4>2 DEF CarrierInv, Entry
      <4>3. CASE cmd[p] = "login"
        BY <2>1, <3>1, <3>4, <4>1, <4>3 DEF SafetyInv, LoginInv, Entry
      <4>4. CASE cmd[p] = "logout"
        BY <2>1, <2>3, <4>1, <4>4 DEF Entry
      <4> QED
        BY <4>2, <4>3, <4>4 DEF Command
    <3> QED
      BY <3>2, <3>3, <3>4
  <2> QED
    BY <2>2, <2>3 DEF CarrierInv
<1>10. ASSUME NEW p \in Proc, Revoke(p) PROVE CarrierInv'
  <2>1. /\ UNCHANGED <<file, cmd, srv>> /\ pc[p] = "revoke" /\ cmd[p] = "logout"
        /\ mem[p] = live[srv[p]]
        /\ \A s \in Server \ {srv[p]} : live'[s] = live[s]
        /\ \A q \in Proc \ {p} : pc'[q] = pc[q] /\ mem'[q] = mem[q]
        /\ pc'[p] = "ok"
    BY <1>10 DEF Revoke, SafetyInv, RoleInv
  <2>2. ASSUME NEW q \in Proc, Storing(q), srv[q] = srv[p] PROVE FALSE
    <3>1. mem[p] < mem[q] /\ live[srv[p]] # 0
      BY <2>1, <2>2 DEF CarrierInv
    <3>2. live[srv[p]] = issued[srv[p]] /\ mem[q] <= issued[srv[p]]
      BY <2>2, <3>1
    <3> QED
      BY <2>1, <3>1, <3>2
  <2>3. \A q \in Proc : /\ Revoking(q)' => Revoking(q) /\ q # p
                        /\ Storing(q)' => Storing(q) /\ q # p
    BY <2>1
  <2>4. \A q \in Proc : Storing(q)' => live'[srv'[q]] # 0
    BY <2>1, <2>2, <2>3 DEF CarrierInv
  <2>5. \A q \in Proc : Revoking(q)' /\ mem'[q] # 0 /\ SingleLogin(srv[q])'
            => file'[srv'[q]] # mem'[q]
    BY <2>1, <2>3 DEF CarrierInv, SingleLogin
  <2>6. \A q, r \in Proc : Revoking(q)' /\ Storing(r)' /\ srv'[q] = srv'[r]
            => mem'[q] < mem'[r]
    BY <2>1, <2>3 DEF CarrierInv
  <2> QED
    BY <2>4, <2>5, <2>6 DEF CarrierInv
<1> QED
  BY <1>1, <1>2, <1>3, <1>4, <1>5, <1>6, <1>7, <1>8, <1>9, <1>10 DEF Next, Bounded, Unbounded

\* A credential a logout has taken out of the file never comes back, and is older
\* than what a refresh under way will store: CarrierInv always holds.
THEOREM CarrierSafety == Spec => []CarrierInv
<1>1. Init => CarrierInv
  <2> SUFFICES ASSUME Init PROVE CarrierInv
    OBVIOUS
  <2>1. \A p \in Proc : ~ Revoking(p) /\ ~ Storing(p)
    <3>1. \A p \in Proc : pc[p] = Start[cmd[p]]
      BY DEF Init
    <3>2. Start["api"] = "load" /\ Start["logout"] = "edit_tokens"
      BY DEF Start
    <3> QED
      BY <3>1, <3>2 DEF Revoking, Storing, CustodyAt
  <2> QED
    BY <2>1 DEF CarrierInv
<1>2. TypeOK /\ SafetyInv /\ CarrierInv /\ [Next]_vars => CarrierInv'
  BY NextCarrier
<1> QED
  BY <1>1, <1>2, TypeCorrect, Safety, PTL DEF Spec

(***************************************************************************)
(* LostInv is invariant: the pair a failure drops was with the one process *)
(* that failed.                                                            *)
(***************************************************************************)
\* What a process that fails has in its custody alone is not in the file.
LEMMA CustodyIsOutside ==
  ASSUME TypeOK, SafetyInv, CarrierInv, NEW p \in Proc, Custody(p), SingleLogin(srv[p])
  PROVE  file[srv[p]] # live[srv[p]]
<1> USE DEF TypeOK, Custody, CustodyAt
<1>1. CASE cmd[p] = "api"
  BY <1>1 DEF SafetyInv, RefreshInv
<1>2. CASE cmd[p] = "login"
  BY <1>2 DEF SafetyInv, LoginInv
<1>3. CASE cmd[p] = "logout"
  BY <1>3 DEF CarrierInv, Revoking
<1> QED
  BY <1>1, <1>2, <1>3 DEF Command

\* ... nor with another process.
LEMMA CarrierIsAlone ==
  ASSUME TypeOK, SafetyInv, CarrierInv, LostInv,
         NEW p \in Proc, NEW q \in Proc, srv[p] = srv[q], SingleLogin(srv[p]),
         Custody(p), Custody(q)
  PROVE  p = q
<1> SUFFICES ASSUME p # q PROVE FALSE
  OBVIOUS
<1> USE DEF TypeOK, Custody, CustodyAt
<1>1. mem[p] = mem[q] /\ mem[p] # 0
  OBVIOUS
<1>2. CASE cmd[p] = "login" \/ cmd[q] = "login"
  BY <1>1, <1>2 DEF SafetyInv, LoginInv
<1>3. CASE cmd[p] = "api" /\ cmd[q] = "api"
  BY <1>3 DEF SafetyInv, LockInv, Critical
<1>4. CASE cmd[p] = "logout" /\ cmd[q] = "logout"
  BY <1>1, <1>4 DEF LostInv, Revoking
<1>5. CASE \/ cmd[p] = "logout" /\ cmd[q] = "api"
           \/ cmd[p] = "api" /\ cmd[q] = "logout"
  BY <1>1, <1>5 DEF CarrierInv, Revoking, Storing
<1> QED
  BY <1>2, <1>3, <1>4, <1>5 DEF Command

\* Most steps drop no pair, begin no revocation and take no pair along.
LEMMA QuietLost ==
  ASSUME LostInv,
         UNCHANGED <<file, cmd, srv>>,
         \A p \in Proc : Revoking(p)' => Revoking(p) /\ mem'[p] = mem[p],
         \A p \in Proc : Custody(p)' /\ lost'[srv[p]] => Custody(p),
         \A s \in Server : lost'[s] /\ live'[s] # 0 => lost[s] /\ live'[s] = live[s]
  PROVE  LostInv'
<1> SUFFICES ASSUME NEW s \in Server, SingleLogin(s)'
             PROVE  /\ \A p, q \in Proc :
                          /\ p # q /\ srv'[p] = s /\ srv'[q] = s
                          /\ Revoking(p)' /\ Revoking(q)' /\ mem'[p] # 0
                          => mem'[p] # mem'[q]
                    /\ lost'[s] /\ live'[s] # 0 =>
                          /\ file'[s] # live'[s]
                          /\ \A p \in Proc : srv'[p] = s => ~ Custody(p)'
  BY DEF LostInv
<1>1. SingleLogin(s)
  BY DEF SingleLogin
<1> QED
  BY <1>1 DEF LostInv

\* A failure drops what the process had, and nobody else has it.
LEMMA QuitLost ==
  ASSUME TypeOK, SafetyInv, CarrierInv, LostInv,
         NEW p \in Proc, NEW l \in Finished, End(p, l),
         lost' = [lost EXCEPT ![srv[p]] = @ \/ Custody(p)],
         UNCHANGED <<file, live, cmd, srv>>
  PROVE  LostInv'
<1>1. /\ \A q \in Proc \ {p} : /\ Revoking(q)' => Revoking(q) /\ mem'[q] = mem[q]
                               /\ Custody(q)' => Custody(q)
      /\ ~ Revoking(p)' /\ ~ Custody(p)'
      /\ \A s \in Server \ {srv[p]} : lost'[s] = lost[s]
      /\ srv[p] \in Server /\ lost'[srv[p]] = (lost[srv[p]] \/ Custody(p))
  BY DEF End, Goto, TypeOK, Revoking, Custody, CustodyAt, Finished, Command
<1>2. CASE ~ Custody(p) \/ ~ SingleLogin(srv[p])
  <2> SUFFICES ASSUME NEW s \in Server, SingleLogin(s)'
               PROVE  /\ \A q, r \in Proc :
                            /\ q # r /\ srv'[q] = s /\ srv'[r] = s
                            /\ Revoking(q)' /\ Revoking(r)' /\ mem'[q] # 0
                            => mem'[q] # mem'[r]
                      /\ lost'[s] /\ live'[s] # 0 =>
                            /\ file'[s] # live'[s]
                            /\ \A q \in Proc : srv'[q] = s => ~ Custody(q)'
    BY DEF LostInv
  <2>1. SingleLogin(s)
    BY DEF SingleLogin
  <2>2. lost'[s] => lost[s]
    BY <1>1, <1>2, <2>1
  <2> QED
    BY <1>1, <2>1, <2>2 DEF LostInv
<1>3. CASE Custody(p) /\ SingleLogin(srv[p])
  <2>1. file[srv[p]] # live[srv[p]]
    BY <1>3, CustodyIsOutside
  <2>2. \A q \in Proc \ {p} : srv[q] = srv[p] => ~ Custody(q)
    BY <1>3, CarrierIsAlone
  <2> SUFFICES ASSUME NEW s \in Server, SingleLogin(s)'
               PROVE  /\ \A q, r \in Proc :
                            /\ q # r /\ srv'[q] = s /\ srv'[r] = s
                            /\ Revoking(q)' /\ Revoking(r)' /\ mem'[q] # 0
                            => mem'[q] # mem'[r]
                      /\ lost'[s] /\ live'[s] # 0 =>
                            /\ file'[s] # live'[s]
                            /\ \A q \in Proc : srv'[q] = s => ~ Custody(q)'
    BY DEF LostInv
  <2>3. SingleLogin(s)
    BY DEF SingleLogin
  <2> QED
    BY <1>1, <2>1, <2>2, <2>3 DEF LostInv
<1> QED
  BY <1>2, <1>3

\* Where a process has nothing in its custody.
LEMMA NoCustody ==
  ASSUME NEW p \in Proc, cmd'[p] \in Command,
         \/ pc'[p] \in {"ensure_fresh", "post", "ok", "failed"}
         \/ cmd'[p] = "api" /\ pc'[p] = "edit_tokens"
  PROVE  ~ Custody(p)' /\ ~ Revoking(p)'
<1>1. CASE cmd'[p] = "api"
  BY <1>1 DEF Custody, Revoking, CustodyAt
<1>2. CASE cmd'[p] = "login"
  BY <1>2 DEF Custody, Revoking, CustodyAt
<1>3. CASE cmd'[p] = "logout"
  BY <1>3 DEF Custody, Revoking, CustodyAt
<1> QED
  BY <1>1, <1>2, <1>3 DEF Command

LEMMA NextLost == TypeOK /\ SafetyInv /\ CarrierInv /\ LostInv /\ [Next]_vars => LostInv'
<1> SUFFICES ASSUME TypeOK, SafetyInv, CarrierInv, LostInv, [Next]_vars PROVE LostInv'
  OBVIOUS
<1> USE DEF disk, server, clock, client, Goto, Revoking, Custody, CustodyAt, TypeOK
<1>1. ASSUME NEW p \in Proc,
             LoadFails(p) \/ EditTokensFails(p) \/ RefreshRejected(p) \/ PostReplyLost(p)
               \/ ReplayRejected(p) \/ RevokeFails(p) \/ Fail(p)
      PROVE  LostInv'
  BY <1>1, QuitLost DEF LoadFails, EditTokensFails, RefreshRejected, PostReplyLost,
       ReplayRejected, RevokeFails, Fail, Quit, Finished
<1>2. ASSUME NEW p \in Proc,
             Load(p) \/ EnsureFresh(p) \/ AdoptFresh(p) \/ EditConfig(p) \/ RevokeUnknown(p)
               \/ PostExecuted(p) \/ PostThenCall(p) \/ PostRejected(p)
      PROVE  LostInv'
  <2>1. /\ UNCHANGED <<file, live, lost, cmd, srv>>
        /\ \A q \in Proc \ {p} : mem'[q] = mem[q] /\ pc'[q] = pc[q]
    BY <1>2 DEF Load, EnsureFresh, AdoptFresh, EditConfig, RevokeUnknown, PostExecuted,
         PostThenCall, PostRejected, End
  <2>2. \/ pc'[p] \in {"ensure_fresh", "post", "ok"}
        \/ cmd[p] = "api" /\ pc'[p] = "edit_tokens"
    <3>1. CASE Load(p) \/ EnsureFresh(p) \/ AdoptFresh(p)
      BY <3>1 DEF Load, EnsureFresh, AdoptFresh, SkipsRefresh, SafetyInv, RoleInv
    <3>2. CASE EditConfig(p) \/ RevokeUnknown(p) \/ PostExecuted(p)
      <4>1. pc' = [pc EXCEPT ![p] = "ok"]
        BY <3>2 DEF EditConfig, RevokeUnknown, PostExecuted, End
      <4> QED
        BY <4>1
    <3>3. CASE PostThenCall(p) \/ PostRejected(p)
      BY <3>3 DEF PostThenCall, PostRejected, SafetyInv, RoleInv
    <3> QED
      BY <1>2, <3>1, <3>2, <3>3, Zenon
  <2>3. ~ Revoking(p)' /\ ~ Custody(p)'
    <3>1. cmd'[p] \in Command /\ cmd'[p] = cmd[p]
      BY <2>1
    <3> QED
      BY <2>2, <3>1, NoCustody
  <2> QED
    BY <2>1, <2>3, QuietLost
<1>3. ASSUME NEW p \in Proc, EditTokens(p) PROVE LostInv'
  <2>1. /\ UNCHANGED <<file, live, lost, cmd, srv>>
        /\ \A q \in Proc \ {p} : mem'[q] = mem[q] /\ pc'[q] = pc[q]
        /\ pc[p] = "edit_tokens"
        /\ pc'[p] = IF cmd[p] = "api" THEN "refresh" ELSE "write_locked"
        /\ mem'[p] = Adopted(p)
    BY <1>3 DEF EditTokens
  <2>2. cmd[p] = "login" => mem'[p] = mem[p]
    BY <2>1 DEF Adopted
  <2>3. ~ Revoking(p)' /\ (Custody(p)' => Custody(p))
    BY <2>1, <2>2 DEF Command
  <2> QED
    BY <2>1, <2>3, QuietLost
<1>4. ASSUME NEW p \in Proc, BeginWrite(p) \/ EditConfigThenRevoke(p) PROVE LostInv'
  <2>1. /\ UNCHANGED <<file, live, lost, cmd, srv, mem>>
        /\ \A q \in Proc \ {p} : pc'[q] = pc[q]
        /\ \/ pc[p] = "write_locked" /\ pc'[p] = "writing"
           \/ pc[p] = "config" /\ pc'[p] = "revoke"
    BY <1>4 DEF BeginWrite, EditConfigThenRevoke
  <2>2. (Revoking(p)' => Revoking(p)) /\ (Custody(p)' => Custody(p))
    BY <2>1 DEF Command
  <2> QED
    BY <2>1, <2>2, QuietLost
<1>5. ASSUME NEW p \in Proc, Refresh(p) \/ Exchange(p) PROVE LostInv'
  <2>1. /\ UNCHANGED <<file, cmd, srv>> /\ cmd[p] # "logout"
        /\ \A q \in Proc \ {p} : mem'[q] = mem[q] /\ pc'[q] = pc[q]
        /\ \A s \in Server \ {srv[p]} : live'[s] = live[s] /\ lost'[s] = lost[s]
        /\ ~ lost'[srv[p]]
    BY <1>5 DEF Refresh, Exchange, Grant, SafetyInv, RoleInv
  <2> QED
    BY <2>1, QuietLost
<1>6. ASSUME NEW p \in Proc, TokenReplyLost(p) PROVE LostInv'
  <2>1. /\ UNCHANGED <<file, cmd, srv>> /\ srv[p] \in Server
        /\ \A q \in Proc \ {p} : mem'[q] = mem[q] /\ pc'[q] = pc[q]
        /\ pc'[p] = "failed"
        /\ \A s \in Server \ {srv[p]} : live'[s] = live[s] /\ lost'[s] = lost[s]
        /\ live'[srv[p]] = issued[srv[p]] + 1
    BY <1>6 DEF TokenReplyLost, Grant, End
  <2>2. \A q \in Proc : Revoking(q)' => Revoking(q) /\ q # p /\ mem'[q] = mem[q]
    BY <2>1
  <2>3. file'[srv[p]] # live'[srv[p]]
    BY <2>1
  <2>4. ASSUME NEW q \in Proc, srv'[q] = srv[p] PROVE ~ Custody(q)'
    <3>1. CASE q = p
      <4>1. cmd'[p] \in Command /\ pc'[p] = "failed"
        BY <2>1
      <4> QED
        BY <3>1, <4>1, NoCustody
    <3>2. CASE q # p
      <4>1. srv[q] = srv[p] /\ srv'[q] = srv[q]
        BY <2>1, <2>4
      <4>2. mem[q] \in Nat /\ mem[q] <= issued[srv[p]] /\ issued[srv[p]] \in Nat
        BY <2>1, <4>1
      <4>3. mem'[q] # live'[srv'[q]]
        BY <2>1, <3>2, <4>1, <4>2
      <4> QED
        BY <4>3
    <3> QED
      BY <3>1, <3>2
  <2>5. \A q \in Proc : srv[q] # srv[p] /\ Custody(q)' => Custody(q)
    BY <2>1
  <2> SUFFICES ASSUME NEW s \in Server, SingleLogin(s)'
               PROVE  /\ \A q, r \in Proc :
                            /\ q # r /\ srv'[q] = s /\ srv'[r] = s
                            /\ Revoking(q)' /\ Revoking(r)' /\ mem'[q] # 0
                            => mem'[q] # mem'[r]
                      /\ lost'[s] /\ live'[s] # 0 =>
                            /\ file'[s] # live'[s]
                            /\ \A q \in Proc : srv'[q] = s => ~ Custody(q)'
    BY DEF LostInv
  <2>6. SingleLogin(s)
    BY <2>1 DEF SingleLogin
  <2>7. \A q, r \in Proc :
          /\ q # r /\ srv'[q] = s /\ srv'[r] = s
          /\ Revoking(q)' /\ Revoking(r)' /\ mem'[q] # 0
          => mem'[q] # mem'[r]
    BY <2>1, <2>2, <2>6 DEF LostInv
  <2>8. lost'[s] /\ live'[s] # 0 =>
          /\ file'[s] # live'[s]
          /\ \A q \in Proc : srv'[q] = s => ~ Custody(q)'
    <3>1. CASE s = srv[p]
      BY <2>3, <2>4, <3>1
    <3>2. CASE s # srv[p]
      BY <2>1, <2>5, <2>6, <3>2 DEF LostInv
    <3> QED
      BY <3>1, <3>2
  <2> QED
    BY <2>7, <2>8
<1>7. ASSUME NEW p \in Proc, EndWrite(p) PROVE LostInv'
  <2>1. /\ UNCHANGED <<live, lost, cmd, srv, mem>>
        /\ pc[p] = "writing" /\ snap[p] = file /\ srv[p] \in Server
        /\ \A q \in Proc \ {p} : pc'[q] = pc[q]
        /\ file' = [file EXCEPT ![srv[p]] = Entry(p)]
        /\ pc'[p] = IF cmd[p] = "api" THEN "post" ELSE "config"
    BY <1>7 DEF EndWrite, Contents, SafetyInv, LockInv, Critical, Label
  <2>2. \A q \in Proc \ {p} : /\ Revoking(q)' <=> Revoking(q)
                              /\ Custody(q)' <=> Custody(q)
    BY <2>1
  <2>3. cmd[p] = "logout" => mem[p] = file[srv[p]]
    BY <2>1 DEF SafetyInv, RefreshInv
  <2>4. ASSUME NEW q \in Proc, NEW r \in Proc, q # r, srv'[q] = srv'[r], Revoking(q)', Revoking(r)',
               SingleLogin(srv[q]), mem'[q] # 0
        PROVE  mem'[q] # mem'[r]
    <3>1. CASE q = p
      BY <2>1, <2>2, <2>3, <2>4, <3>1 DEF CarrierInv
    <3>2. CASE r = p
      BY <2>1, <2>2, <2>3, <2>4, <3>2 DEF CarrierInv
    <3>3. CASE q # p /\ r # p
      BY <2>1, <2>2, <2>4, <3>3 DEF LostInv
    <3> QED
      BY <3>1, <3>2, <3>3
  <2>5. ASSUME NEW s \in Server, SingleLogin(s), lost[s], live[s] # 0
        PROVE  /\ file'[s] # live[s]
               /\ \A q \in Proc : srv[q] = s => ~ Custody(q)'
    <3>1. /\ file[s] # live[s]
          /\ \A q \in Proc : srv[q] = s => ~ Custody(q)
      BY <2>5 DEF LostInv
    <3>2. srv[p] = s /\ cmd[p] # "logout" => mem[p] # live[s]
      <4>1. cmd[p] \in {"api", "login"} /\ srv[p] = s /\ mem[p] # 0 => mem[p] # live[s]
        BY <2>1, <3>1
      <4> QED
        BY <2>5, <4>1 DEF Command
    <3>3. file'[s] # live[s]
      BY <2>1, <2>5, <3>1, <3>2 DEF Entry
    <3>4. srv[p] = s => ~ Custody(p)'
      BY <2>1, <2>3, <3>1, <3>2
    <3> QED
      BY <2>2, <3>1, <3>3, <3>4
  <2> SUFFICES ASSUME NEW s \in Server, SingleLogin(s)'
               PROVE  /\ \A q, r \in Proc :
                            /\ q # r /\ srv'[q] = s /\ srv'[r] = s
                            /\ Revoking(q)' /\ Revoking(r)' /\ mem'[q] # 0
                            => mem'[q] # mem'[r]
                      /\ lost'[s] /\ live'[s] # 0 =>
                            /\ file'[s] # live'[s]
                            /\ \A q \in Proc : srv'[q] = s => ~ Custody(q)'
    BY DEF LostInv
  <2>6. SingleLogin(s)
    BY <2>1 DEF SingleLogin
  <2> QED
    BY <2>1, <2>4, <2>5, <2>6
<1>8. ASSUME NEW p \in Proc, Revoke(p) PROVE LostInv'
  <2>1. /\ UNCHANGED <<file, lost, cmd, srv>>
        /\ \A q \in Proc \ {p} : mem'[q] = mem[q] /\ pc'[q] = pc[q]
        /\ pc'[p] = "ok"
        /\ \A s \in Server \ {srv[p]} : live'[s] = live[s]
        /\ live'[srv[p]] = 0
    BY <1>8 DEF Revoke, End
  <2>2. \A q \in Proc : Revoking(q)' => Revoking(q) /\ mem'[q] = mem[q]
    BY <2>1
  <2>3. \A q \in Proc : Custody(q)' => Custody(q)
    BY <2>1 DEF Command
  <2> QED
    BY <2>1, <2>2, <2>3, QuietLost
<1>9. CASE (\E s \in Server : Tick(s) \/ Reject(s)) \/ UNCHANGED vars
  BY <1>9, QuietLost DEF Tick, Reject, vars
<1> QED
  BY <1>1, <1>2, <1>3, <1>4, <1>5, <1>6, <1>7, <1>8, <1>9 DEF Next, Bounded, Unbounded

\* A credential that a failure has lost never turns up again, and two logouts
\* never set out to revoke the same pair: LostInv always holds.
THEOREM LostSafety == Spec => []LostInv
<1>1. Init => LostInv
  <2> SUFFICES ASSUME Init PROVE LostInv
    OBVIOUS
  <2>1. \A p \in Proc : ~ Revoking(p)
    <3>1. \A p \in Proc : pc[p] = Start[cmd[p]]
      BY DEF Init
    <3>2. Start["logout"] = "edit_tokens"
      BY DEF Start
    <3> QED
      BY <3>1, <3>2 DEF Revoking, CustodyAt
  <2>2. \A s \in Server : ~ lost[s]
    BY DEF Init
  <2> QED
    BY <2>1, <2>2 DEF LostInv
<1>2. TypeOK /\ SafetyInv /\ CarrierInv /\ LostInv /\ [Next]_vars => LostInv'
  BY NextLost
<1> QED
  BY <1>1, <1>2, TypeCorrect, Safety, CarrierSafety, PTL DEF Spec

(***************************************************************************)
(* The steps of the abstract specification.                                *)
(***************************************************************************)
\* The mapped state is type-correct.
LEMMA PlacesTyped == TypeOK' => Cred!TypeOK'
<1> SUFFICES ASSUME TypeOK' PROVE Cred!TypeOK'
  OBVIOUS
<1>1. \A s \in Server : Place(s)' \in Cred!Places
  <2> SUFFICES ASSUME NEW s \in Server PROVE Place(s)' \in Cred!Places
    OBVIOUS
  <2>1. lost'[s] \in BOOLEAN /\ Wrecked' \in BOOLEAN
    BY DEF TypeOK, Wrecked
  <2> QED
    BY <2>1 DEF Place, Cred!Places
<1> QED
  BY <1>1 DEF Cred!TypeOK, TypeOK

\* What nobody touches keeps its place.
LEMMA SameServer ==
  ASSUME NEW s \in Server,
         file'[s] = file[s], issued'[s] = issued[s],
         live'[s] = live[s], lost'[s] = lost[s],
         Wrecked' <=> Wrecked
  PROVE  Cred!Same(s)
BY DEF Cred!Same, Place

\* A step of one server, or of none.
LEMMA OneServer ==
  ASSUME TypeOK', NEW s \in Server, UNCHANGED <<cmd, srv>>,
         SingleLogin(s) => Cred!Step(s) \/ Cred!Same(s),
         \A t \in Server \ {s} : /\ file'[t] = file[t] /\ issued'[t] = issued[t]
                                /\ live'[t] = live[t] /\ lost'[t] = lost[t],
         Wrecked' <=> Wrecked
  PROVE  Cred!Next
<1>1. \A t \in Server \ {s} : Cred!Same(t)
  BY SameServer
<1>2. {t \in Server : ~ SingleLogin(t)}' = {t \in Server : ~ SingleLogin(t)}
  BY DEF SingleLogin
<1> QED
  BY <1>1, <1>2, PlacesTyped DEF Cred!Next

\* Most steps are of no server.
LEMMA Stutter ==
  ASSUME UNCHANGED <<file, issued, live, lost, cmd, srv>>, Wrecked' <=> Wrecked
  PROVE  UNCHANGED Cred!vars
<1>1. {t \in Server : ~ SingleLogin(t)}' = {t \in Server : ~ SingleLogin(t)}
  BY DEF SingleLogin
<1>2. [s \in Server |-> Place(s)]' = [s \in Server |-> Place(s)]
  BY DEF Place
<1> QED
  BY <1>1, <1>2 DEF Cred!vars

\* An error return or a kill loses what only the process had, and in the middle
\* of a write the file with it.
LEMMA QuitRefines ==
  ASSUME TypeOK, TypeOK', SafetyInv, CarrierInv, NEW p \in Proc, Quit(p),
         UNCHANGED <<file, torn, issued, live, cmd, srv>>
  PROVE  [Cred!Next]_Cred!vars
<1>1. /\ srv[p] \in Server
      /\ lost' = [lost EXCEPT ![srv[p]] = @ \/ Custody(p)]
      /\ lock' = IF lock = p THEN NoProc ELSE lock
  BY DEF Quit, ReleaseLock, TypeOK
<1>2. CASE torn /\ lock = p
  <2>1. Wrecked' /\ ~ Wrecked
    BY <1>1, <1>2, NoProcAssumption DEF Wrecked
  <2>2. \A s \in Server : Place(s)' = IF Place(s) = "none" THEN "none" ELSE "lost"
    BY <2>1 DEF Place, TypeOK
  <2>3. {t \in Server : ~ SingleLogin(t)}' = {t \in Server : ~ SingleLogin(t)}
    BY DEF SingleLogin
  <2>4. Cred!Wreck
    BY <2>2 DEF Cred!Wreck
  <2> QED
    BY <2>3, <2>4, PlacesTyped DEF Cred!Next
<1>3. CASE ~ (torn /\ lock = p)
  <2>1. Wrecked' <=> Wrecked
    BY <1>1, <1>3 DEF Wrecked
  <2>2. ASSUME SingleLogin(srv[p]) PROVE Cred!Step(srv[p]) \/ Cred!Same(srv[p])
    <3>1. CASE ~ Custody(p) \/ lost[srv[p]] \/ Wrecked
      <4>1. Place(srv[p])' = Place(srv[p])
        BY <1>1, <2>1, <3>1 DEF Place, TypeOK
      <4> QED
        BY <1>1, <4>1 DEF Cred!Same
    <3>2. CASE Custody(p) /\ ~ lost[srv[p]] /\ ~ Wrecked
      <4>1. file[srv[p]] # live[srv[p]] /\ live[srv[p]] # 0
        BY <2>2, <3>2, CustodyIsOutside DEF Custody
      <4>2. Place(srv[p]) = "carried"
        BY <3>2, <4>1 DEF Place
      <4>3. Place(srv[p])' = "lost"
        BY <1>1, <3>2, <4>1 DEF Place, TypeOK
      <4> QED
        BY <1>1, <4>2, <4>3 DEF Cred!Step, Cred!Lose
    <3> QED
      BY <3>1, <3>2
  <2> QED
    BY <1>1, <2>1, <2>2, OneServer DEF TypeOK
<1> QED
  BY <1>2, <1>3

\* A response of the token endpoint issues the next pair.
LEMMA GrantRefines ==
  ASSUME TypeOK, TypeOK', SafetyInv, NEW p \in Proc, Grant(srv[p]),
         UNCHANGED <<file, cmd, srv>>, NEW l \in BOOLEAN,
         lost' = [lost EXCEPT ![srv[p]] = l], Wrecked' <=> Wrecked
  PROVE  Cred!Next
<1> DEFINE s == srv[p]
<1>1. /\ s \in Server
      /\ issued'[s] = issued[s] + 1 /\ live'[s] = issued[s] + 1
      /\ issued[s] \in Nat /\ file[s] \in Nat /\ file[s] <= issued[s]
      /\ lost'[s] = l
      /\ \A t \in Server \ {s} : /\ issued'[t] = issued[t] /\ live'[t] = live[t]
                               /\ lost'[t] = lost[t]
  BY DEF Grant, TypeOK
<1>2. live'[s] # 0 /\ file'[s] # live'[s]
  BY <1>1
<1>3. Place(s)' \in {"carried", "lost"}
  BY <1>2 DEF Place
<1>4. Cred!Step(s)
  BY <1>1, <1>3 DEF Cred!Step, Cred!Issue
<1> QED
  BY <1>1, <1>4, OneServer

-----------------------------------------------------------------------------
\* The end of a write, by the command that makes it.
LEMMA WriteRefines ==
  ASSUME TypeOK, TypeOK', SafetyInv, CarrierInv, LostInv, NEW p \in Proc, EndWrite(p)
  PROVE  Cred!Next
<1> DEFINE s == srv[p]
<1>1. /\ s \in Server /\ lock = p /\ pc[p] = "writing"
      /\ snap[p] = file /\ cmd[p] \in Command
      /\ UNCHANGED <<issued, live, lost, cmd, srv>>
      /\ file' = [file EXCEPT ![s] = Entry(p)]
      /\ file[s] \in Nat /\ live[s] \in {0, issued[s]} /\ issued[s] \in Nat
      /\ file[s] <= issued[s] /\ mem[p] \in Nat /\ mem[p] <= issued[s]
      /\ lost[s] \in BOOLEAN
  BY DEF EndWrite, Contents, server, TypeOK, SafetyInv, LockInv, Critical
<1>2. ~ Wrecked /\ ~ Wrecked'
  BY <1>1, NoProcAssumption DEF Wrecked, EndWrite
<1>3. file'[s] = Entry(p) /\ \A t \in Server \ {s} : file'[t] = file[t]
  BY <1>1 DEF TypeOK
<1>4. ASSUME SingleLogin(s) PROVE Cred!Step(s) \/ Cred!Same(s)
  <2>1. CASE cmd[p] \in {"api", "login"}
    <3>1. /\ file'[s] = mem[p] /\ mem[p] > file[s]
          /\ live[s] # 0 /\ live[s] = issued[s]
      <4>1. CASE cmd[p] = "api"
        BY <1>1, <1>3, <4>1 DEF Entry, SafetyInv, RefreshInv, CarrierInv, Storing, CustodyAt
      <4>2. CASE cmd[p] = "login"
        <5>1. mem[p] = live[s] /\ file[s] # mem[p] /\ mem[p] # 0
          BY <1>1, <1>4, <4>2 DEF SafetyInv, LoginInv, RoleInv, CustodyAt
        <5> QED
          BY <1>1, <1>3, <4>2, <5>1 DEF Entry
      <4> QED
        BY <2>1, <4>1, <4>2
    <3>2. file[s] # live[s]
      BY <1>1, <3>1
    <3>3. CASE lost[s]
      <4>1. Place(s) = "lost" /\ Place(s)' = "lost"
        BY <1>1, <3>1, <3>3 DEF Place
      <4>2. mem[p] # live[s]
        BY <1>1, <1>4, <2>1, <3>1, <3>3 DEF LostInv, Custody, CustodyAt
      <4> QED
        BY <1>1, <3>1, <4>1, <4>2 DEF Cred!Step, Cred!StoreStale
    <3>4. CASE ~ lost[s] /\ mem[p] # live[s]
      <4>1. Place(s) = "carried" /\ Place(s)' = "carried"
        BY <1>1, <1>2, <3>1, <3>2, <3>4 DEF Place
      <4> QED
        BY <1>1, <3>1, <3>4, <4>1 DEF Cred!Step, Cred!StoreStale
    <3>5. CASE ~ lost[s] /\ mem[p] = live[s]
      <4>1. Place(s) = "carried" /\ Place(s)' = "stored"
        BY <1>1, <1>2, <3>1, <3>2, <3>5 DEF Place
      <4> QED
        BY <1>1, <3>1, <3>5, <4>1 DEF Cred!Step, Cred!Store
    <3> QED
      BY <3>3, <3>4, <3>5
  <2>2. CASE cmd[p] = "logout"
    <3>1. file'[s] = 0
      BY <1>3, <2>2 DEF Entry
    <3>2. CASE file[s] = 0
      <4>1. Place(s)' = Place(s)
        BY <1>1, <1>2, <3>1, <3>2 DEF Place
      <4> QED
        BY <1>1, <3>1, <3>2, <4>1 DEF Cred!Same
    <3>3. CASE file[s] # 0
      <4>1. Place(s)' = IF Place(s) = "stored" THEN "carried" ELSE Place(s)
        BY <1>1, <1>2, <3>1, <3>3 DEF Place
      <4> QED
        BY <1>1, <3>1, <3>3, <4>1 DEF Cred!Step, Cred!Remove
    <3> QED
      BY <3>2, <3>3
  <2> QED
    BY <1>1, <2>1, <2>2 DEF Command
<1> QED
  BY <1>1, <1>2, <1>3, <1>4, OneServer

\* The revocation, and its failure.
LEMMA RevokeRefines ==
  ASSUME TypeOK, TypeOK', SafetyInv, CarrierInv, NEW p \in Proc, Revoke(p)
  PROVE  Cred!Next
<1> DEFINE s == srv[p]
<1>1. /\ s \in Server /\ pc[p] = "revoke" /\ cmd[p] = "logout"
      /\ mem[p] = live[s] /\ live'[s] = 0
      /\ UNCHANGED <<file, issued, lost, cmd, srv>>
      /\ \A t \in Server \ {s} : live'[t] = live[t]
      /\ Wrecked' <=> Wrecked
  BY DEF Revoke, disk, TypeOK, SafetyInv, RoleInv, Wrecked
<1>2. Place(s)' = "none"
  BY <1>1 DEF Place
<1>3. ASSUME SingleLogin(s) PROVE Cred!Step(s) \/ Cred!Same(s)
  <2>1. CASE live[s] = 0
    BY <1>1, <1>2, <2>1 DEF Cred!Same, Place
  <2>2. CASE live[s] # 0
    <3>1. file[s] # live[s]
      BY <1>1, <1>3, <2>2 DEF CarrierInv, Revoking, CustodyAt
    <3>2. Place(s) \in {"carried", "lost"}
      BY <2>2, <3>1 DEF Place
    <3> QED
      BY <1>1, <1>2, <3>2 DEF Cred!Step, Cred!Revoke
  <2> QED
    BY <2>1, <2>2
<1> QED
  BY <1>1, <1>3, OneServer

LEMMA RevokeFailsRefines ==
  ASSUME TypeOK, TypeOK', SafetyInv, CarrierInv, NEW p \in Proc, RevokeFails(p)
  PROVE  Cred!Next
<1> DEFINE s == srv[p]
<1>1. /\ s \in Server /\ lost' = [lost EXCEPT ![s] = @ \/ Custody(p)]
      /\ UNCHANGED <<file, issued, live, cmd, srv>>
      /\ Wrecked' <=> Wrecked
  BY DEF RevokeFails, disk, server, TypeOK, Wrecked
<1>2. ASSUME SingleLogin(s) PROVE Cred!Step(s) \/ Cred!Same(s)
  <2>1. CASE ~ Custody(p) \/ lost[s] \/ Wrecked
    <3>1. Place(s)' = Place(s)
      BY <1>1, <2>1 DEF Place, TypeOK
    <3> QED
      BY <1>1, <3>1 DEF Cred!Same
  <2>2. CASE Custody(p) /\ ~ lost[s] /\ ~ Wrecked
    <3>1. file[s] # live[s] /\ live[s] # 0
      BY <1>2, <2>2, CustodyIsOutside DEF Custody
    <3>2. Place(s) = "carried" /\ Place(s)' = "lost"
      BY <1>1, <2>2, <3>1 DEF Place, TypeOK
    <3> QED
      BY <1>1, <3>2 DEF Cred!Step, Cred!Lose
  <2> QED
    BY <2>1, <2>2
<1> QED
  BY <1>1, <1>2, OneServer DEF TypeOK

-----------------------------------------------------------------------------
LEMMA InitRefines == Init => Cred!Init
<1> SUFFICES ASSUME Init PROVE Cred!Init
  OBVIOUS
<1>1. /\ file \in [Server -> Nat] /\ issued = file /\ live = file
      /\ \A s \in Server : lost[s] = FALSE
      /\ ~ Wrecked
  BY DEF Init, Wrecked
<1>2. \A s \in Server : Place(s) = IF file[s] = 0 THEN "none" ELSE "stored"
  BY <1>1 DEF Place
<1> QED
  BY <1>1, <1>2 DEF Cred!Init

LEMMA NextRefines ==
  TypeOK /\ TypeOK' /\ SafetyInv /\ CarrierInv /\ LostInv /\ [Next]_vars => [Cred!Next]_Cred!vars
<1> SUFFICES ASSUME TypeOK, TypeOK', SafetyInv, CarrierInv, LostInv, [Next]_vars
             PROVE  [Cred!Next]_Cred!vars
  OBVIOUS
<1> USE DEF disk, server, clock, client
<1>1. ASSUME NEW p \in Proc,
             Load(p) \/ EnsureFresh(p) \/ AdoptFresh(p) \/ EditConfig(p)
               \/ EditConfigThenRevoke(p) \/ RevokeUnknown(p) \/ PostExecuted(p)
               \/ PostThenCall(p) \/ PostRejected(p)
      PROVE  [Cred!Next]_Cred!vars
  BY <1>1, Stutter DEF Load, EnsureFresh, AdoptFresh, EditConfig, EditConfigThenRevoke,
       RevokeUnknown, PostExecuted, PostThenCall, PostRejected, Wrecked
<1>2. ASSUME NEW p \in Proc, EditTokens(p) PROVE [Cred!Next]_Cred!vars
  <2>1. Wrecked' <=> Wrecked
    BY <1>2 DEF EditTokens, Wrecked
  <2> QED
    BY <1>2, <2>1, Stutter DEF EditTokens
<1>3. ASSUME NEW p \in Proc, BeginWrite(p) PROVE [Cred!Next]_Cred!vars
  <2>1. lock = p
    BY <1>3 DEF BeginWrite, SafetyInv, LockInv, Critical
  <2>2. Wrecked' <=> Wrecked
    BY <1>3, <2>1, NoProcAssumption DEF BeginWrite, Wrecked
  <2> QED
    BY <1>3, <2>2, Stutter DEF BeginWrite
<1>4. ASSUME NEW p \in Proc,
             LoadFails(p) \/ EditTokensFails(p) \/ RefreshRejected(p)
               \/ PostReplyLost(p) \/ ReplayRejected(p) \/ Fail(p)
      PROVE  [Cred!Next]_Cred!vars
  BY <1>4, QuitRefines DEF LoadFails, EditTokensFails, RefreshRejected, PostReplyLost,
       ReplayRejected, Fail
<1>5. ASSUME NEW p \in Proc, Refresh(p) \/ Exchange(p) PROVE Cred!Next
  <2>1. /\ Grant(srv[p]) /\ UNCHANGED <<file, cmd, srv, torn, lock>>
        /\ lost' = [lost EXCEPT ![srv[p]] = FALSE]
    BY <1>5 DEF Refresh, Exchange
  <2>2. Wrecked' <=> Wrecked
    BY <2>1 DEF Wrecked
  <2> QED
    BY <2>1, <2>2, GrantRefines
<1>6. ASSUME NEW p \in Proc, TokenReplyLost(p) PROVE Cred!Next
  <2>1. Wrecked' <=> Wrecked
    <3>1. lock = p => pc[p] = "refresh"
      BY <1>6 DEF TokenReplyLost, SafetyInv, LockInv, Critical
    <3>2. lock = p => ~ torn
      BY <3>1, NoProcAssumption DEF SafetyInv, LockInv
    <3> QED
      BY <1>6, <3>2 DEF TokenReplyLost, ReleaseLock, Wrecked
  <2> QED
    BY <1>6, <2>1, GrantRefines DEF TokenReplyLost
<1>7. ASSUME NEW p \in Proc, EndWrite(p) \/ Revoke(p) \/ RevokeFails(p) PROVE Cred!Next
  BY <1>7, WriteRefines, RevokeRefines, RevokeFailsRefines
<1>8. CASE (\E s \in Server : Tick(s) \/ Reject(s)) \/ UNCHANGED vars
  BY <1>8, Stutter DEF Tick, Reject, vars, Wrecked
<1> QED
  BY <1>1, <1>2, <1>3, <1>4, <1>5, <1>6, <1>7, <1>8 DEF Next, Bounded, Unbounded

\* The credential protocol implements SharedCredential: whatever the processes
\* do to each other, a live pair leaves the store only when it is replaced,
\* taken out by a logout or lost with the file (edit_tokens, save_credentials,
\* remove and refresh_locked together).
THEOREM Implements == Spec => CredentialRefined
<1>1. Init => Cred!Init
  BY InitRefines
<1>2. TypeOK /\ TypeOK' /\ SafetyInv /\ CarrierInv /\ LostInv /\ [Next]_vars => [Cred!Next]_Cred!vars
  BY NextRefines
<1> QED
  BY <1>1, <1>2, TypeCorrect, Safety, CarrierSafety, LostSafety, PTL DEF Spec, CredentialRefined, Cred!Spec

(***************************************************************************)
(* What follows from the abstract specification alone.                     *)
(***************************************************************************)
\* A step is one of one server, leaves a server as it is, or wrecks them all.
LEMMA CredSteps ==
  ASSUME Cred!Next, NEW s \in Server, SingleLogin(s)
  PROVE  Cred!Step(s) \/ Cred!Same(s) \/ Cred!Wreck
BY DEF Cred!Next

LEMMA CredInit == Cred!Init => Cred!TypeOK /\ Cred!Consistent
<1> SUFFICES ASSUME Cred!Init PROVE Cred!TypeOK /\ Cred!Consistent
  OBVIOUS
<1>1. Cred!TypeOK
  BY DEF Cred!Init, Cred!TypeOK, Cred!Places
<1>2. Cred!Consistent
  BY DEF Cred!Init, Cred!Consistent
<1> QED
  BY <1>1, <1>2

LEMMA CredType == Cred!TypeOK /\ [Cred!Next]_Cred!vars => Cred!TypeOK'
BY DEF Cred!TypeOK, Cred!Next, Cred!vars

LEMMA CredConsistent ==
  Cred!TypeOK /\ Cred!Consistent /\ [Cred!Next]_Cred!vars => Cred!Consistent'
<1> SUFFICES ASSUME Cred!TypeOK, Cred!Consistent, [Cred!Next]_Cred!vars PROVE Cred!Consistent'
  OBVIOUS
<1>1. CASE UNCHANGED Cred!vars
  BY <1>1 DEF Cred!Consistent, Cred!vars
<1>2. CASE Cred!Next
  <2>1. Cred!TypeOK'
    BY CredType
  <2>2. {t \in Server : ~ SingleLogin(t)}' = {t \in Server : ~ SingleLogin(t)}
    BY <1>2 DEF Cred!Next
  <2> SUFFICES ASSUME NEW s \in Server, SingleLogin(s)
               PROVE  /\ file'[s] <= issued'[s]
                      /\ Place(s)' = "stored" => file'[s] = issued'[s] /\ file'[s] # 0
                      /\ Place(s)' = "carried" => file'[s] < issued'[s]
    BY <2>2 DEF Cred!Consistent
  <2>3. /\ file[s] \in Nat /\ issued[s] \in Nat /\ file'[s] \in Nat /\ issued'[s] \in Nat
        /\ file[s] <= issued[s]
        /\ Place(s) = "stored" => file[s] = issued[s] /\ file[s] # 0
        /\ Place(s) = "carried" => file[s] < issued[s]
    BY <2>1 DEF Cred!TypeOK, Cred!Consistent
  <2>4. CASE Cred!Issue(s) \/ Cred!Store(s) \/ Cred!StoreStale(s)
    BY <2>3, <2>4 DEF Cred!Issue, Cred!Store, Cred!StoreStale
  <2>5. CASE Cred!Remove(s) \/ Cred!Revoke(s) \/ Cred!Lose(s)
    BY <2>3, <2>5 DEF Cred!Remove, Cred!Revoke, Cred!Lose
  <2>6. CASE Cred!Same(s) \/ Cred!Wreck
    BY <2>3, <2>6 DEF Cred!Same, Cred!Wreck
  <2> QED
    BY <1>2, <2>4, <2>5, <2>6, CredSteps DEF Cred!Step
<1> QED
  BY <1>1, <1>2

\* The file has a pair the server granted: the live one unless that is on its way
\* to the file, lost or revoked, and an older one while it is on its way.
THEOREM Consistency == Spec => []Cred!Consistent
<1>1. Cred!TypeOK /\ Cred!Consistent /\ [Cred!Next]_Cred!vars
         => Cred!TypeOK' /\ Cred!Consistent'
  BY CredType, CredConsistent
<1> QED
  BY <1>1, CredInit, Implements, PTL DEF CredentialRefined, Cred!Spec

LEMMA CredLives ==
  Cred!TypeOK /\ Cred!Consistent /\ [Cred!Next]_Cred!vars => [Cred!PairsLive]_Cred!vars
<1> SUFFICES ASSUME Cred!TypeOK, Cred!Consistent, Cred!Next PROVE Cred!PairsLive
  OBVIOUS
<1>1. Cred!TypeOK'
  BY CredType
<1> SUFFICES ASSUME NEW s \in Server, SingleLogin(s)
             PROVE  /\ file'[s] # 0 => file'[s] >= file[s]
                    /\ issued'[s] = issued[s] =>
                          /\ Place(s) = "stored" /\ Place(s)' # "stored"
                                => \/ Place(s)' = "lost"
                                   \/ Place(s)' = "carried" /\ file'[s] = 0
                          /\ Place(s) = "lost" => Place(s)' \in {"lost", "none"}
                          /\ Place(s) = "none" => Place(s)' = "none"
  BY DEF Cred!PairsLive
<1>2. /\ file[s] \in Nat /\ issued[s] \in Nat /\ file'[s] \in Nat /\ issued'[s] \in Nat
      /\ file[s] <= issued[s]
  BY <1>1 DEF Cred!TypeOK, Cred!Consistent
<1>3. CASE Cred!Issue(s) \/ Cred!Store(s) \/ Cred!StoreStale(s)
  BY <1>2, <1>3 DEF Cred!Issue, Cred!Store, Cred!StoreStale
<1>4. CASE Cred!Remove(s) \/ Cred!Revoke(s) \/ Cred!Lose(s)
  BY <1>2, <1>4 DEF Cred!Remove, Cred!Revoke, Cred!Lose
<1>5. CASE Cred!Same(s) \/ Cred!Wreck
  BY <1>2, <1>5 DEF Cred!Same, Cred!Wreck
<1> QED
  BY <1>3, <1>4, <1>5, CredSteps DEF Cred!Step

\* A stored pair that is the live one leaves the file only for a newer one, with
\* a logout or with the whole file; a lost or revoked one never comes back, and
\* no write puts an older pair than the stored one.
THEOREM LifeOfAPair == Spec => Cred!LifeOfAPair
<1>1. Cred!TypeOK /\ Cred!Consistent /\ [Cred!Next]_Cred!vars
         => Cred!TypeOK' /\ Cred!Consistent'
  BY CredType, CredConsistent
<1>2. Cred!TypeOK /\ Cred!Consistent /\ [Cred!Next]_Cred!vars
         => [Cred!PairsLive]_Cred!vars
  BY CredLives
<1> QED
  BY <1>1, <1>2, CredInit, Implements, PTL
     DEF CredentialRefined, Cred!Spec, Cred!LifeOfAPair

(***************************************************************************)
(* OneCarrier, from the inductive invariant.                               *)
(***************************************************************************)
\* No two commands are ever about to store or revoke the same live pair.
THEOREM CarriedByOne == Spec => []OneCarrier
<1>1. TypeOK /\ SafetyInv /\ CarrierInv /\ LostInv => OneCarrier
  BY CarrierIsAlone DEF OneCarrier
<1> QED
  BY <1>1, TypeCorrect, Safety, CarrierSafety, LostSafety, PTL
=============================================================================
