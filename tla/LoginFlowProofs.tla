---------------------------- MODULE LoginFlowProofs ----------------------------
(* Theorems about LoginFlow, for any number of connections at a time. *)
EXTENDS LoginFlow, SequenceTheorems, TLAPS

\* What an input is, by its kind.
LEMMA Kinds ==
  /\ \A r \in Redirect : r.kind = "redirect" /\ r.error \in BOOLEAN /\ r.code \in BOOLEAN
                         /\ r.state \in {"own", "other", "none"}
  /\ Is("stray").kind = "stray" /\ Is("nothing").kind = "nothing"
  /\ Is("blank").kind = "blank" /\ Is("eof").kind = "eof"
  /\ Is("unreadable").kind = "unreadable"
  /\ Is("open").kind = "open" /\ Is("spent").kind = "spent"
BY DEF Redirect, Is

LEMMA RequestKinds ==
  ASSUME NEW r \in Request \cup {Is("nothing")}
  PROVE  /\ r.kind \in {"redirect", "stray", "nothing"}
         /\ r.kind = "redirect" <=> r \in Redirect
         /\ r.kind = "nothing" <=> r = Is("nothing")
BY Kinds DEF Request

LEMMA LineKinds ==
  ASSUME NEW i \in Input \cup {Is("open"), Is("spent")}, i.kind = "redirect"
  PROVE  i \in Redirect
BY Kinds DEF Input

\* An input whose code is taken is this attempt's, and no other is.
LEMMA DecideFacts ==
  ASSUME TypeOK, NEW r \in Redirect, Decide(r)
  PROVE  /\ pc' \in {"exchange", "failed"}
         /\ result' \in {"code", "refused", "mismatch", "missing"}
         /\ taken' \in Redirect \cup {Is("nothing")}
         /\ pc' = "exchange" => ~ taken'.error /\ taken'.state = "own" /\ taken'.code
         /\ pc' = "exchange" => result' = "code"
<1>1. classify(r) \in {"code", "refused", "mismatch", "missing"}
  BY DEF classify
<1>2. classify(r) = "code" => ~ r.error /\ r.state = "own" /\ r.code
  BY DEF classify
<1> QED
  BY <1>1, <1>2 DEF Decide, TypeOK

-----------------------------------------------------------------------------
(***************************************************************************)
(* The queue of connections.                                               *)
(***************************************************************************)
LEMMA AppendFacts ==
  ASSUME NEW s \in Seq(Conn), IsInjective(s), NEW c \in Conn, c \notin ToSet(s)
  PROVE  /\ Append(s, c) \in Seq(Conn) /\ IsInjective(Append(s, c))
         /\ ToSet(Append(s, c)) = ToSet(s) \cup {c}
<1> DEFINE t == Append(s, c)
<1>1. /\ Len(s) \in Nat /\ DOMAIN s = 1..Len(s)
      /\ t \in Seq(Conn) /\ Len(t) = Len(s) + 1 /\ DOMAIN t = 1..(Len(s) + 1)
      /\ \A i \in 1..Len(s) : t[i] = s[i]
      /\ t[Len(s) + 1] = c
  BY AppendProperties, LenProperties
<1> HIDE DEF t
<1>2. \A i \in 1..Len(s) : s[i] # c
  BY <1>1 DEF ToSet
<1>3. \A i \in 1..(Len(s) + 1) : i \in 1..Len(s) \/ i = Len(s) + 1
  BY <1>1
<1>4. IsInjective(t)
  <2>1. \A i, j \in 1..Len(s) : s[i] = s[j] => i = j
    BY <1>1 DEF IsInjective
  <2>2. \A i, j \in 1..(Len(s) + 1) : t[i] = t[j] => i = j
    BY <1>1, <1>2, <1>3, <2>1
  <2> QED
    BY <1>1, <2>2 DEF IsInjective
<1>5. ToSet(t) = ToSet(s) \cup {c}
  <2>1. ToSet(t) = {t[i] : i \in 1..(Len(s) + 1)} /\ ToSet(s) = {s[i] : i \in 1..Len(s)}
    BY <1>1 DEF ToSet
  <2>2. Len(s) + 1 \in 1..(Len(s) + 1) /\ \A i \in 1..Len(s) : i \in 1..(Len(s) + 1)
    BY <1>1
  <2> QED
    BY <1>1, <1>3, <2>1, <2>2
<1> QED
  BY <1>1, <1>4, <1>5 DEF t

LEMMA TailFacts ==
  ASSUME NEW s \in Seq(Conn), IsInjective(s), s # <<>>
  PROVE  /\ Tail(s) \in Seq(Conn) /\ IsInjective(Tail(s))
         /\ Head(s) \in Conn
         /\ Head(s) \notin ToSet(Tail(s))
         /\ ToSet(s) = ToSet(Tail(s)) \cup {Head(s)}
<1> DEFINE t == Tail(s)
           n == Len(s) - 1
<1>1. /\ Len(s) \in Nat \ {0} /\ DOMAIN s = 1..Len(s)
      /\ t \in Seq(Conn) /\ DOMAIN t = 1..n /\ Head(s) = s[1] /\ Head(s) \in Conn
      /\ \A i \in 1..n : t[i] = s[i + 1]
  BY HeadTailProperties, LenProperties, EmptySeq
<1> HIDE DEF t
<1>2. /\ n \in Nat /\ 1 \in 1..Len(s)
      /\ \A i \in 1..n : i + 1 \in 1..Len(s) /\ i + 1 # 1
      /\ \A i \in 1..Len(s) : i = 1 \/ (i - 1 \in 1..n /\ (i - 1) + 1 = i)
      /\ \A i, j \in 1..n : i + 1 = j + 1 => i = j
  BY <1>1
<1> HIDE DEF n
<1>3. \A i, j \in 1..Len(s) : s[i] = s[j] => i = j
  BY <1>1 DEF IsInjective
<1>4. IsInjective(t)
  <2>1. \A i, j \in 1..n : t[i] = t[j] => i = j
    BY <1>1, <1>2, <1>3
  <2> QED
    BY <1>1, <2>1 DEF IsInjective
<1>5. ToSet(t) = {t[i] : i \in 1..n} /\ ToSet(s) = {s[i] : i \in 1..Len(s)}
  BY <1>1 DEF ToSet
<1>6. Head(s) \notin ToSet(t)
  BY <1>1, <1>2, <1>3, <1>5
<1>7. ToSet(s) \subseteq ToSet(t) \cup {Head(s)}
  <2> SUFFICES ASSUME NEW i \in 1..Len(s) PROVE s[i] \in ToSet(t) \cup {Head(s)}
    BY <1>5
  <2>1. CASE i = 1
    BY <1>1, <2>1
  <2>2. CASE i - 1 \in 1..n /\ (i - 1) + 1 = i
    BY <1>1, <1>5, <2>2
  <2> QED
    BY <1>2, <2>1, <2>2
<1>8. ToSet(t) \cup {Head(s)} \subseteq ToSet(s)
  BY <1>1, <1>2, <1>5
<1> QED
  BY <1>1, <1>4, <1>6, <1>7, <1>8 DEF t

LEMMA EmptyFacts == <<>> \in Seq(Conn) /\ IsInjective(<<>>) /\ ToSet(<<>>) = {}
BY DEF IsInjective, ToSet

-----------------------------------------------------------------------------
(***************************************************************************)
(* The inductive invariant.                                                *)
(***************************************************************************)
LEMMA InitAll == Init => TypeOK /\ SafetyInv
<1> SUFFICES ASSUME Init PROVE TypeOK /\ SafetyInv
  OBVIOUS
<1>1. TypeOK
  <2>1. \A c \in Conn : asked[c].kind = "nothing"
    BY Kinds DEF Init
  <2> QED
    BY <2>1, EmptyFacts DEF Init, TypeOK, Listening
<1>2. SafetyInv
  <2>1. \A c \in Conn : asked[c].kind = "nothing" /\ c \notin ToSet(queue) /\ c # current
    BY Kinds, EmptyFacts, NoConnAssumption DEF Init
  <2> QED
    BY <2>1 DEF Init, SafetyInv, OpenInv, ReadingInv, ResultInv, CodeIsBound,
                TimeoutMeansNoCallback
<1> QED
  BY <1>1, <1>2

\* Connections come and go one at a time.
LEMMA ConnectStep ==
  ASSUME TypeOK, OpenInv, NEW c \in Conn, NEW r \in Request, Connect(c, r)
  PROVE  TypeOK' /\ OpenInv'
<1>1. c \notin ToSet(queue) /\ c # current
  BY DEF Connect, OpenInv
<1>2. queue' \in Seq(Conn) /\ IsInjective(queue') /\ ToSet(queue') = ToSet(queue) \cup {c}
  BY <1>1, AppendFacts DEF Connect, TypeOK
<1>3. asked' \in [Conn -> Request \cup {Is("nothing")}] /\ asked'[c] = r
      /\ \A d \in Conn \ {c} : asked'[d] = asked[d]
  BY DEF Connect, TypeOK
<1>4. r.kind # "nothing"
  BY Kinds DEF Request
<1>5. OpenInv'
  BY <1>2, <1>3, <1>4 DEF Connect, OpenInv
<1>6. current' \in {NoConn} \cup (Conn \ ToSet(queue'))
  BY <1>1, <1>2 DEF Connect, TypeOK
<1>7. spoken' \subseteq {d \in Conn : asked'[d].kind # "nothing"}
  BY <1>3, <1>4 DEF Connect, TypeOK
<1> QED
  BY <1>2, <1>3, <1>5, <1>6, <1>7 DEF Connect, TypeOK

LEMMA AcceptStep ==
  ASSUME TypeOK, OpenInv, ReadingInv, Accept
  PROVE  TypeOK' /\ OpenInv'
<1>1. /\ queue # <<>> /\ queue' = Tail(queue) /\ current' = Head(queue) /\ current = NoConn
      /\ UNCHANGED <<asked, spoken>>
  BY DEF Accept, ReadingInv
<1>2. /\ queue' \in Seq(Conn) /\ IsInjective(queue') /\ current' \in Conn
      /\ current' \notin ToSet(queue') /\ ToSet(queue) = ToSet(queue') \cup {current'}
  BY <1>1, TailFacts DEF TypeOK
<1>3. OpenInv'
  BY <1>1, <1>2, NoConnAssumption DEF OpenInv
<1> QED
  BY <1>1, <1>2, <1>3, NoConnAssumption DEF Accept, TypeOK, Listening

\* What an answer does to the connections, and to the wait.
LEMMA AnswerStep ==
  ASSUME TypeOK, OpenInv, Answer
  PROVE  /\ TypeOK' /\ OpenInv'
         /\ current' = NoConn /\ pc' \in {"waiting", "exchange", "failed"}
         /\ pc' = "waiting" => UNCHANGED <<result, taken>>
         /\ pc' # "waiting" => result' # "timeout"
         /\ pc' = "exchange" => ~ taken'.error /\ taken'.state = "own" /\ taken'.code
         /\ pc' = "exchange" => result' = "code"
<1> DEFINE c == current
<1>1. c \in Conn /\ asked[c].kind # "nothing" /\ c \notin ToSet(queue)
  BY NoConnAssumption DEF Answer, TypeOK
<1>2. /\ asked' \in [Conn -> Request \cup {Is("nothing")}] /\ asked'[c] = Is("nothing")
      /\ \A d \in Conn \ {c} : asked'[d] = asked[d]
      /\ UNCHANGED <<queue, line, late>> /\ current' = NoConn /\ spoken' = spoken \ {c}
  BY <1>1 DEF Answer, TypeOK
<1>3. OpenInv'
  BY <1>1, <1>2, Kinds, NoConnAssumption DEF OpenInv
<1>4. spoken' \subseteq {d \in Conn : asked'[d].kind # "nothing"}
  BY <1>1, <1>2 DEF TypeOK
<1>5. CASE asked[c].kind = "stray"
  <2>1. pc' = "waiting" /\ UNCHANGED <<result, taken>>
    BY <1>5 DEF Answer
  <2> QED
    BY <1>2, <1>3, <1>4, <2>1 DEF TypeOK, Listening
<1>6. CASE asked[c].kind # "stray"
  <2>1. asked[c] \in Redirect
    BY <1>1, <1>6, RequestKinds DEF TypeOK
  <2>2. Decide(asked[c])
    BY <1>6 DEF Answer
  <2>3. /\ pc' \in {"exchange", "failed"} /\ taken' \in Redirect \cup {Is("nothing")}
        /\ result' \in {"code", "refused", "mismatch", "missing"}
        /\ pc' = "exchange" => ~ taken'.error /\ taken'.state = "own" /\ taken'.code
        /\ pc' = "exchange" => result' = "code"
    BY <2>1, <2>2, DecideFacts
  <2>4. TypeOK'
    BY <1>2, <1>4, <2>3 DEF TypeOK, Ended
  <2> QED
    BY <1>2, <1>3, <2>3, <2>4
<1> QED
  BY <1>5, <1>6

\* A pasted line is read at most once, and judged like a redirect.
LEMMA TakeLineStep ==
  ASSUME TypeOK, TakeLine
  PROVE  /\ TypeOK' /\ UNCHANGED wait
         /\ pc' \in {"exchange", "failed"} /\ result' # "timeout"
         /\ pc' = "exchange" => ~ taken'.error /\ taken'.state = "own" /\ taken'.code
         /\ pc' = "exchange" => result' = "code"
<1>1. UNCHANGED <<queue, current, asked, spoken, late>> /\ line' = Is("spent")
  BY DEF TakeLine, wait
<1>2. CASE Decide(line) /\ line.kind = "redirect"
  <2>1. line \in Redirect
    BY <1>2, LineKinds DEF TypeOK
  <2>2. /\ pc' \in {"exchange", "failed"} /\ taken' \in Redirect \cup {Is("nothing")}
        /\ result' \in {"code", "refused", "mismatch", "missing"}
        /\ pc' = "exchange" => ~ taken'.error /\ taken'.state = "own" /\ taken'.code
        /\ pc' = "exchange" => result' = "code"
    BY <1>2, <2>1, DecideFacts
  <2> QED
    BY <1>1, <2>2 DEF TypeOK, Ended, wait
<1>3. CASE EndWait("error") \/ EndWait("not a redirect")
  <2>1. pc' = "failed" /\ result' \in {"error", "not a redirect"} /\ UNCHANGED taken
    BY <1>3 DEF EndWait
  <2> QED
    BY <1>1, <2>1 DEF TypeOK, Ended, wait
<1> QED
  BY <1>2, <1>3 DEF TakeLine

\* The other actions leave the connections alone.
LEMMA QuietStep ==
  ASSUME TypeOK, OpenInv, UNCHANGED <<queue, current, asked>>,
         spoken' \subseteq {c \in Conn : asked[c].kind # "nothing"},
         pc' = "reading" => pc = "reading",
         pc' \in Listening \cup Ended \cup {"exchange"},
         result' \in {result, "error", "timeout", "killed"}, UNCHANGED taken,
         line' \in Input \cup {Is("open"), Is("spent")}, late' \in BOOLEAN
  PROVE  TypeOK' /\ OpenInv'
BY DEF TypeOK, OpenInv

\* Nothing is open when the deadline ends the wait.
LEMMA TimeoutStep ==
  ASSUME OpenInv, ReadingInv, Timeout
  PROVE  \A c \in Conn : asked'[c] \notin Redirect
<1>1. queue = <<>> /\ current = NoConn /\ asked' = asked
  BY DEF Timeout, ReadingInv, wait
<1>2. \A c \in Conn : asked[c].kind = "nothing"
  BY <1>1, EmptyFacts, NoConnAssumption DEF OpenInv
<1> QED
  BY <1>1, <1>2, Kinds

LEMMA NextAll == TypeOK /\ SafetyInv /\ [Next]_vars => TypeOK' /\ SafetyInv'
<1> SUFFICES ASSUME TypeOK, OpenInv, ReadingInv, ResultInv, CodeIsBound,
                    TimeoutMeansNoCallback, [Next]_vars
             PROVE  TypeOK' /\ SafetyInv'
  BY DEF SafetyInv
<1> USE DEF SafetyInv, ReadingInv, ResultInv, CodeIsBound, TimeoutMeansNoCallback
<1>1. ASSUME NEW c \in Conn, NEW r \in Request, Connect(c, r) PROVE TypeOK' /\ SafetyInv'
  BY <1>1, ConnectStep DEF Connect, Listening
<1>2. ASSUME NEW c \in Conn, Speak(c) PROVE TypeOK' /\ SafetyInv'
  BY <1>2, QuietStep DEF Speak, TypeOK
<1>3. ASSUME NEW i \in Input, Type(i) PROVE TypeOK' /\ SafetyInv'
  BY <1>3, QuietStep DEF Type, wait, TypeOK
<1>4. CASE Clock
  BY <1>4, QuietStep DEF Clock, wait, TypeOK
<1>5. CASE Register \/ AcceptFails \/ Fail
  <2>1. /\ UNCHANGED <<queue, current, asked, spoken, line, late, taken>>
        /\ \/ pc' = "failed" /\ result' \in {"error", "killed"}
           \/ pc = "register" /\ pc' = "waiting" /\ result' = result
    BY <1>5 DEF Register, AcceptFails, Fail, EndWait, wait
  <2> QED
    BY <2>1, QuietStep DEF Listening, Ended, TypeOK
<1>6. CASE Accept
  BY <1>6, AcceptStep DEF Accept
<1>7. CASE Answer
  BY <1>7, AnswerStep DEF Answer
<1>8. CASE TakeLine
  <2>1. UNCHANGED <<queue, current, asked, spoken>> /\ pc = "waiting"
    BY <1>8, TakeLineStep DEF TakeLine, wait
  <2>2. OpenInv'
    BY <2>1 DEF OpenInv
  <2> QED
    BY <1>8, <2>1, <2>2, TakeLineStep
<1>9. CASE TakeEof
  BY <1>9, QuietStep DEF TakeEof, wait, TypeOK
<1>10. CASE Timeout
  <2>1. /\ UNCHANGED <<queue, current, asked, spoken, line, late, taken>>
        /\ pc' = "failed" /\ result' = "timeout"
    BY <1>10 DEF Timeout, EndWait, wait
  <2> QED
    BY <1>10, <2>1, QuietStep, TimeoutStep DEF Ended, TypeOK
<1>11. CASE Exchange
  BY <1>11, QuietStep DEF Exchange, wait, Ended, TypeOK
<1>12. CASE UNCHANGED vars
  BY <1>12, QuietStep DEF vars, wait, TypeOK
<1> QED
  BY <1>1, <1>2, <1>3, <1>4, <1>5, <1>6, <1>7, <1>8, <1>9, <1>10, <1>11, <1>12
     DEF Next, World, Program

-----------------------------------------------------------------------------
\* The inductive invariant, TypeOK with it: an open connection is in the queue
\* or being read, and a code that is exchanged is this attempt's.
THEOREM Safety == Spec => [](TypeOK /\ SafetyInv)
BY InitAll, NextAll, PTL DEF Spec

\* TypeOK of LoginFlow is an invariant; no connection is queued twice.
THEOREM TypeCorrect == Spec => []TypeOK
BY Safety, PTL

\* Whatever is sent to the listener or pasted, and in whatever order, only a
\* code that came with this attempt's state and no error is exchanged.
THEOREM CodeBound == Spec => []CodeIsBound
<1>1. SafetyInv => CodeIsBound
  BY DEF SafetyInv
<1> QED
  BY <1>1, Safety, PTL

\* The deadline never beats a redirect that has come to the listener, be it behind
\* any number of slow and stray connections (timeout_at polls accept first).
THEOREM NoCallbackLost == Spec => []TimeoutMeansNoCallback
<1>1. SafetyInv => TimeoutMeansNoCallback
  BY DEF SafetyInv
<1> QED
  BY <1>1, Safety, PTL

-----------------------------------------------------------------------------
(***************************************************************************)
(* LoginFlow implements LoginDecision.                                     *)
(***************************************************************************)
\* The verdict on a redirect is the abstract one.
LEMMA DecideRefines ==
  ASSUME TypeOK, pc \in Listening, NEW r \in Redirect, Decide(r)
  PROVE  Decision!Judge(r)
<1>1. r \in Own <=> classify(r) = "code"
  BY Kinds DEF Own, classify
<1>2. classify(r) \in {"code", "refused", "mismatch", "missing"}
  BY DEF classify
<1>3. Phase = "open"
  BY DEF Phase, Listening
<1>4. Phase' = IF r \in Own THEN "granted" ELSE "refused"
  BY <1>1, <1>2 DEF Decide, Phase, Listening
<1>5. taken' = IF r \in Own THEN r ELSE taken
  BY <1>1 DEF Decide
<1> QED
  BY <1>3, <1>4, <1>5 DEF Decision!Judge, Own

\* Steps that touch no connection's redirect.
LEMMA SameArrived ==
  ASSUME asked' = asked
  PROVE  [c \in Conn |-> Brought(c)]' = [c \in Conn |-> Brought(c)]
BY DEF Brought

LEMMA ConnectRefines ==
  ASSUME TypeOK, NEW c \in Conn, NEW r \in Request, Connect(c, r)
  PROVE  [Decision!Next]_Decision!vars
<1>1. /\ Phase = "open" /\ Phase' = "open" /\ taken' = taken /\ Pasted' = Pasted
      /\ asked[c].kind = "nothing" /\ asked' = [asked EXCEPT ![c] = r]
      /\ asked \in [Conn -> Request \cup {Nobody}]
  <2>1. pc \in Listening /\ UNCHANGED <<pc, result, taken, line>>
    BY DEF Connect
  <2>2. Phase = "open" /\ Phase' = "open" /\ Pasted' = Pasted
    BY <2>1 DEF Phase, Listening, Pasted
  <2> QED
    BY <2>1, <2>2 DEF Connect, TypeOK, Nobody
<1>2. Brought(c) = Nobody
  BY <1>1, Kinds DEF Brought
<1>3. CASE r \in Redirect
  <2>1. [d \in Conn |-> Brought(d)]' = [[d \in Conn |-> Brought(d)] EXCEPT ![c] = r]
    BY <1>1, <1>3 DEF Brought
  <2>2. Decision!Arrive(c, r)
    BY <1>1, <1>2, <2>1 DEF Decision!Arrive
  <2> QED
    BY <1>3, <2>2 DEF Decision!Next
<1>4. CASE r \notin Redirect
  <2>1. \A d \in Conn : Brought(d)' = Brought(d)
    BY <1>1, <1>2, <1>4 DEF Brought
  <2> QED
    BY <1>1, <2>1 DEF Decision!vars
<1> QED
  BY <1>3, <1>4

LEMMA TypeRefines ==
  ASSUME TypeOK, NEW i \in Input, Type(i)
  PROVE  [Decision!Next]_Decision!vars
<1>1. /\ Phase' = Phase /\ taken' = taken /\ asked' = asked
      /\ line.kind = "open" /\ line' = i
  BY DEF Type, wait, Phase
<1>2. Pasted = Nobody
  BY <1>1 DEF Pasted
<1>3. CASE i.kind = "redirect" /\ (i.code \/ i.error)
  <2>1. Pasted' = i /\ i \in Redirect
    BY <1>1, <1>3, LineKinds DEF Pasted
  <2>2. Decision!Paste(i)
    BY <1>1, <1>2, <2>1, SameArrived DEF Decision!Paste
  <2> QED
    BY <2>1, <2>2 DEF Decision!Next
<1>4. CASE ~ (i.kind = "redirect" /\ (i.code \/ i.error))
  <2>1. Pasted' = Pasted
    BY <1>1, <1>2, <1>4 DEF Pasted
  <2> QED
    BY <1>1, <2>1, SameArrived DEF Decision!vars
<1> QED
  BY <1>3, <1>4

\* A stray request gets its answer and changes nothing; a redirect decides.
LEMMA AnswerRefines ==
  ASSUME TypeOK, OpenInv, Answer
  PROVE  [Decision!Next]_Decision!vars
<1> DEFINE c == current
<1>1. /\ c \in Conn /\ asked[c].kind # "nothing" /\ pc \in Listening
      /\ asked \in [Conn -> Request \cup {Nobody}]
      /\ asked' = [asked EXCEPT ![c] = Nobody] /\ Pasted' = Pasted
  BY NoConnAssumption DEF Answer, TypeOK, Listening, Nobody, Pasted
<1>2. Nobody \notin Redirect
  BY Kinds DEF Nobody
<1>3. CASE asked[c].kind = "stray"
  <2>1. asked[c] \notin Redirect
    BY <1>3, Kinds
  <2>2. pc' = "waiting" /\ UNCHANGED <<result, taken>>
    BY <1>3 DEF Answer
  <2>3. Phase = "open" /\ Phase' = "open"
    BY <1>1, <2>2 DEF Phase, Listening
  <2>4. \A d \in Conn : Brought(d)' = Brought(d)
    BY <1>1, <1>2, <2>1 DEF Brought
  <2> QED
    BY <1>1, <2>2, <2>3, <2>4 DEF Decision!vars
<1>4. CASE asked[c].kind # "stray"
  <2>1. asked[c] \in Redirect /\ asked[c] # Nobody
    BY <1>1, <1>2, <1>4, RequestKinds DEF Nobody
  <2>2. Decision!Judge(asked[c])
    BY <1>1, <1>4, <2>1, DecideRefines DEF Answer
  <2>3. [d \in Conn |-> Brought(d)]' = [[d \in Conn |-> Brought(d)] EXCEPT ![c] = Nobody]
    BY <1>1, <1>2 DEF Brought
  <2>4. Brought(c) = asked[c]
    BY <2>1 DEF Brought
  <2>5. Decision!Answer(c)
    BY <1>1, <2>1, <2>2, <2>3, <2>4 DEF Decision!Answer
  <2> QED
    BY <1>1, <2>5 DEF Decision!Next
<1> QED
  BY <1>3, <1>4

LEMMA TakeLineRefines ==
  ASSUME TypeOK, TakeLine
  PROVE  [Decision!Next]_Decision!vars
<1>1. asked' = asked /\ line' = Is("spent") /\ pc = "waiting" /\ pc \in Listening
  BY DEF TakeLine, wait, Listening
<1>2. Pasted' = Nobody
  BY <1>1, Kinds DEF Pasted
<1>3. CASE line.kind = "redirect" /\ (line.code \/ line.error)
  <2>1. line \in Redirect /\ line # Nobody
    BY <1>3, LineKinds, Kinds DEF TypeOK, Nobody
  <2>2. Decision!Judge(line)
    BY <1>1, <1>3, <2>1, DecideRefines DEF TakeLine
  <2>3. Decision!TakePasted
    BY <1>1, <1>2, <1>3, <2>1, <2>2, SameArrived DEF Decision!TakePasted, Pasted
  <2> QED
    BY <2>3 DEF Decision!Next
<1>4. CASE ~ (line.kind = "redirect" /\ (line.code \/ line.error))
  <2>1. pc' = "failed" /\ result' \in {"error", "not a redirect"} /\ taken' = taken
    BY <1>4 DEF TakeLine, EndWait
  <2>2. Phase = "open" /\ Phase' = "failed"
    BY <1>1, <2>1 DEF Phase, Listening
  <2>3. Pasted = Nobody
    BY <1>4 DEF Pasted
  <2>4. Decision!Abandon
    BY <1>1, <1>2, <2>1, <2>2, <2>3, SameArrived DEF Decision!Abandon
  <2> QED
    BY <2>4 DEF Decision!Next
<1> QED
  BY <1>3, <1>4

LEMMA TimeoutRefines ==
  ASSUME TypeOK, OpenInv, ReadingInv, Timeout
  PROVE  Decision!Next
<1>1. /\ asked' = asked /\ line' = line /\ taken' = taken /\ pc = "waiting"
      /\ pc' = "failed" /\ result' = "timeout"
  BY DEF Timeout, EndWait, wait
<1>2. Phase = "open" /\ Phase' = "timed out" /\ Pasted' = Pasted
  BY <1>1 DEF Phase, Listening, Pasted
<1>3. \A c \in Conn : Brought(c) = Nobody
  BY <1>1, TimeoutStep DEF Brought
<1>4. Decision!TimeOut
  BY <1>1, <1>2, <1>3, SameArrived DEF Decision!TimeOut
<1> QED
  BY <1>4 DEF Decision!Next

LEMMA InitRefines == Init => Decision!Init
<1> SUFFICES ASSUME Init PROVE Decision!Init
  OBVIOUS
<1>1. Phase = "open"
  BY DEF Init, Phase, Listening
<1>2. \A c \in Conn : Brought(c) = Nobody
  BY DEF Init, Brought, Nobody
<1>3. Pasted = Nobody /\ taken = Nobody
  BY Kinds DEF Init, Pasted, Nobody
<1> QED
  BY <1>1, <1>2, <1>3 DEF Decision!Init

LEMMA NextRefines ==
  TypeOK /\ SafetyInv /\ [Next]_vars => [Decision!Next]_Decision!vars
<1> SUFFICES ASSUME TypeOK, SafetyInv, [Next]_vars PROVE [Decision!Next]_Decision!vars
  OBVIOUS
<1> USE DEF SafetyInv
<1>1. ASSUME NEW c \in Conn, NEW r \in Request, Connect(c, r)
      PROVE  [Decision!Next]_Decision!vars
  BY <1>1, ConnectRefines
<1>2. ASSUME NEW i \in Input, Type(i) PROVE [Decision!Next]_Decision!vars
  BY <1>2, TypeRefines
<1>3. CASE \/ (\E c \in Conn : Speak(c)) \/ Clock \/ Accept \/ TakeEof
           \/ UNCHANGED vars
  <2>1. /\ asked' = asked /\ taken' = taken /\ result' = result
        /\ pc' = pc \/ {pc, pc'} \subseteq Listening
        /\ line' = line \/ (line.kind = "eof" /\ line' = Is("spent"))
    <3>1. CASE (\E c \in Conn : Speak(c)) \/ Clock \/ UNCHANGED vars
      BY <3>1 DEF Speak, Clock, vars, wait
    <3>2. CASE Accept
      BY <3>2 DEF Accept, Listening
    <3>3. CASE TakeEof
      BY <3>3 DEF TakeEof, wait
    <3> QED
      BY <1>3, <3>1, <3>2, <3>3, Zenon
  <2>2. Phase' = Phase
    <3>1. CASE pc' = pc
      BY <2>1, <3>1 DEF Phase
    <3>2. CASE {pc, pc'} \subseteq Listening
      BY <3>2 DEF Phase, Listening
    <3> QED
      BY <2>1, <3>1, <3>2
  <2>3. Pasted' = Pasted
    BY <2>1, Kinds DEF Pasted
  <2> QED
    BY <2>1, <2>2, <2>3, SameArrived DEF Decision!vars
<1>4. CASE Register \/ AcceptFails \/ Fail
  <2>1. /\ asked' = asked /\ taken' = taken /\ line' = line /\ pc \notin Ended
        /\ \/ pc' = "failed" /\ result' \in {"error", "killed"}
           \/ pc = "register" /\ pc' = "waiting" /\ result' = result
    BY <1>4 DEF Register, AcceptFails, Fail, EndWait, wait, Ended
  <2>2. Phase \in {"open", "granted"} /\ Pasted' = Pasted
    BY <2>1 DEF Phase, Pasted, TypeOK, Ended, Listening
  <2>3. CASE pc' = "failed" /\ result' \in {"error", "killed"}
    <3>1. Phase' = "failed"
      BY <2>3 DEF Phase, Listening
    <3>2. Decision!Abandon
      BY <2>1, <2>2, <3>1, SameArrived DEF Decision!Abandon
    <3> QED
      BY <3>2 DEF Decision!Next
  <2>4. CASE pc = "register" /\ pc' = "waiting"
    <3>1. Phase' = Phase
      BY <2>4 DEF Phase, Listening
    <3> QED
      BY <2>1, <2>2, <3>1, SameArrived DEF Decision!vars
  <2> QED
    BY <2>1, <2>3, <2>4
<1>5. CASE Answer \/ TakeLine \/ Timeout
  BY <1>5, AnswerRefines, TakeLineRefines, TimeoutRefines
<1>6. CASE Exchange
  <2>1. /\ asked' = asked /\ taken' = taken /\ line' = line /\ result' = "code"
        /\ pc = "exchange" /\ pc' \in Ended
    BY <1>6 DEF Exchange, wait, ResultInv
  <2>2. Phase = "granted" /\ Phase' \in {"done", "failed"} /\ Pasted' = Pasted
    BY <2>1 DEF Phase, Pasted, Ended, Listening
  <2>3. Decision!Store \/ Decision!Abandon
    BY <2>1, <2>2, SameArrived DEF Decision!Store, Decision!Abandon
  <2> QED
    BY <2>3 DEF Decision!Next
<1> QED
  BY <1>1, <1>2, <1>3, <1>4, <1>5, <1>6 DEF Next, World, Program

\* LoginFlow implements LoginDecision: the first redirect that is looked at decides
\* the login, however it came and whatever waits beside it (wait_for_code).
THEOREM Implements == Spec => DecisionRefined
<1>1. TypeOK /\ SafetyInv /\ [Next]_vars => [Decision!Next]_Decision!vars
  BY NextRefines
<1> QED
  BY <1>1, InitRefines, Safety, PTL DEF Spec, DecisionRefined, Decision!Spec

(***************************************************************************)
(* What follows from the abstract specification alone.                     *)
(***************************************************************************)
LEMMA NobodyBringsNothing == Nobody \notin Redirect /\ Own \subseteq Redirect
BY Kinds DEF Nobody, Own

LEMMA DecisionInit == Decision!Init => Decision!TypeOK /\ Decision!Consistent
<1> SUFFICES ASSUME Decision!Init PROVE Decision!TypeOK /\ Decision!Consistent
  OBVIOUS
<1>1. Phase = "open" /\ taken = Nobody /\ Pasted = Nobody
      /\ [c \in Conn |-> Brought(c)] = [c \in Conn |-> Nobody]
  BY DEF Decision!Init
<1> QED
  BY <1>1 DEF Decision!TypeOK, Decision!Consistent

LEMMA DecisionNext ==
  Decision!TypeOK /\ Decision!Consistent /\ [Decision!Next]_Decision!vars
     => Decision!TypeOK' /\ Decision!Consistent'
<1> SUFFICES ASSUME Decision!TypeOK, Decision!Consistent, [Decision!Next]_Decision!vars
             PROVE  Decision!TypeOK' /\ Decision!Consistent'
  OBVIOUS
<1> USE DEF Decision!TypeOK, Decision!Consistent
<1>1. ASSUME NEW p \in Conn, NEW r \in Redirect, Decision!Arrive(p, r)
      PROVE  Decision!TypeOK' /\ Decision!Consistent'
  BY <1>1 DEF Decision!Arrive
<1>2. ASSUME NEW r \in Redirect, Decision!Paste(r)
      PROVE  Decision!TypeOK' /\ Decision!Consistent'
  BY <1>2 DEF Decision!Paste
<1>3. ASSUME NEW p \in Conn, Decision!Answer(p)
      PROVE  Decision!TypeOK' /\ Decision!Consistent'
  BY <1>3 DEF Decision!Answer, Decision!Judge
<1>4. CASE Decision!TakePasted
  BY <1>4 DEF Decision!TakePasted, Decision!Judge
<1>5. CASE Decision!TimeOut
  BY <1>5 DEF Decision!TimeOut
<1>6. CASE Decision!Abandon \/ Decision!Store
  BY <1>6 DEF Decision!Abandon, Decision!Store
<1>7. CASE UNCHANGED Decision!vars
  BY <1>7 DEF Decision!vars
<1> QED
  BY <1>1, <1>2, <1>3, <1>4, <1>5, <1>6, <1>7 DEF Decision!Next

LEMMA DecisionDecisive ==
  Decision!TypeOK /\ Decision!Consistent /\ [Decision!Next]_Decision!vars
     => [Decision!Decisive]_Decision!vars
<1> SUFFICES ASSUME Decision!TypeOK, Decision!Consistent, Decision!Next
             PROVE  Decision!Decisive
  OBVIOUS
<1> USE DEF Decision!TypeOK, Decision!Consistent, Decision!Decisive
<1>1. ASSUME NEW p \in Conn, NEW r \in Redirect, Decision!Arrive(p, r)
      PROVE  Decision!Decisive
  BY <1>1, NobodyBringsNothing DEF Decision!Arrive
<1>2. ASSUME NEW r \in Redirect, Decision!Paste(r) PROVE Decision!Decisive
  BY <1>2 DEF Decision!Paste
<1>3. ASSUME NEW p \in Conn, Decision!Answer(p) PROVE Decision!Decisive
  BY <1>3 DEF Decision!Answer, Decision!Judge
<1>4. CASE Decision!TakePasted
  BY <1>4 DEF Decision!TakePasted, Decision!Judge
<1>5. CASE Decision!TimeOut \/ Decision!Abandon \/ Decision!Store
  BY <1>5 DEF Decision!TimeOut, Decision!Abandon, Decision!Store
<1> QED
  BY <1>1, <1>2, <1>3, <1>4, <1>5 DEF Decision!Next

\* The code that is exchanged is this attempt's, and a login that timed out has
\* left no peer's redirect without an answer: both follow from LoginDecision.
THEOREM Consistency == Spec => []Decision!Consistent
BY DecisionInit, DecisionNext, Implements, PTL DEF DecisionRefined, Decision!Spec

\* No redirect is answered and forgotten: the first one decides the login, for the
\* exchange of its own code or against it, and the choice stands.
THEOREM FirstDecides == Spec => Decision!FirstDecides
BY DecisionInit, DecisionNext, DecisionDecisive, Implements, PTL
   DEF DecisionRefined, Decision!Spec, Decision!FirstDecides
=============================================================================
