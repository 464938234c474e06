-------------------------- MODULE TokenCacheProofs ---------------------------
(***************************************************************************)
(* Theorems about TokenCache, for any number of overlapping runs, tokens   *)
(* and failures.                                                           *)
(***************************************************************************)
EXTENDS TokenCache, TLAPS

(***************************************************************************)
(* The inductive invariant                                                 *)
(***************************************************************************)

\* A run that sends or has sent a refresh token has one, and saves only to a
\* cache that is configured.
AskOK == \A p \in Procs :
            /\ pc[p] \in {"ask"} \cup Saving => using[p] \in Tokens
            /\ pc[p] \in Saving => CachePath

\* Nobody knows a token that was not issued; without rotation none is replaced.
Bounded ==
    /\ superseded \subseteq 1..issued
    /\ config \in 1..issued
    /\ file.refresh \in 0..issued
    /\ \A p \in Procs : using[p] \in 0..issued /\ draft[p].refresh \in 0..issued
    /\ ~Rotates => superseded = {}

\* The expiry a cache states is not later than the real one.
Timely ==
    /\ file.expiry <= file.access
    /\ \A p \in Procs : start[p] <= now /\ draft[p].expiry <= draft[p].access
    /\ FreshAccess

\* With rotation, the refresh token a run is about to save is known to it alone.
Secret(p) ==
    LET d == draft[p].refresh IN
    /\ d # None
    /\ d \notin superseded
    /\ d # config
    /\ d # file.refresh
    /\ \A q \in Procs : using[q] # d
    /\ \A q \in Procs \ {p} : pc[q] \in Saving => draft[q].refresh # d

Fresh == Rotates => \A p \in Procs : pc[p] \in Saving => Secret(p)

IInv == TypeOK /\ AskOK /\ Bounded /\ Timely /\ Fresh /\ CacheCurrent

USE TokenAssumption

LEMMA InitIInv == Init => IInv
<1>. SUFFICES ASSUME Init PROVE IInv
  OBVIOUS
<1>1. TypeOK
  BY DEF Init, TypeOK, tokenCache, Empty, NoAccess, None, Saving, Tokens
<1>2. AskOK
  BY DEF Init, AskOK, Saving
<1>3. Bounded
  BY DEF Init, Bounded, Empty, None
<1>4. Timely
  BY DEF Init, Timely, FreshAccess, Empty, None
<1>5. Fresh
  BY DEF Init, Fresh, Saving
<1>6. CacheCurrent
  BY DEF Init, CacheCurrent
<1>. QED
  BY <1>1, <1>2, <1>3, <1>4, <1>5, <1>6 DEF IInv

(***************************************************************************)
(* What the parts of the actions do, run by run                            *)
(***************************************************************************)

\* Run q stays as it is.
Same(q) == /\ pc'[q] = pc[q]
           /\ start'[q] = start[q]
           /\ using'[q] = using[q]
           /\ draft'[q] = draft[q]
           /\ access'[q] = access[q]

LocalType ==
    /\ pc \in [Procs -> {"idle", "load", "ask", "use"} \cup Saving]
    /\ start \in [Procs -> 0..MaxTime]
    /\ using \in [Procs -> Tokens \cup {None}]
    /\ draft \in [Procs -> tokenCache]
    /\ access \in [Procs -> [until : Nat, cached : BOOLEAN]]

LEMMA TypeLocal == TypeOK => LocalType
  BY DEF TypeOK, LocalType

LEMMA LeaveLocal ==
    ASSUME TypeOK, NEW p \in Procs, Leave(p)
    PROVE  /\ LocalType'
           /\ \A q \in Procs \ {p} : Same(q)
           /\ pc'[p] = "idle"
           /\ start'[p] = 0
           /\ using'[p] = None
           /\ draft'[p] = Empty
           /\ access'[p] = NoAccess
<1>1. LocalType
  BY TypeLocal
<1>2. Empty \in tokenCache /\ NoAccess \in [until : Nat, cached : BOOLEAN]
  BY DEF Empty, NoAccess, None, tokenCache
<1>3. LocalType'
  BY <1>1, <1>2 DEF Leave, LocalType, TypeOK
<1>. QED
  BY <1>1, <1>3 DEF Leave, LocalType, Same

LEMMA FaultType == ASSUME TypeOK, NEW kind, Fault(kind) PROVE faults' \in 0..MaxFaults
  BY DEF Fault, TypeOK

LEMMA LosingType ==
    ASSUME TypeOK, NEW p \in Procs, using[p] \in Tokens, Losing(p)
    PROVE  lost' \subseteq Tokens /\ lost \subseteq lost' /\ (Rotates => using[p] \in lost')
  BY DEF Losing, TypeOK

\* What the records and functions of the state contain.
LEMMA Values ==
    ASSUME TypeOK, NEW p \in Procs
    PROVE  /\ now \in Nat /\ issued \in Nat /\ config \in Nat
           /\ start[p] \in Nat
           /\ using[p] \in Nat
           /\ file.access \in Nat /\ file.expiry \in Nat /\ file.refresh \in Tokens \cup {None}
           /\ draft[p].access \in Nat /\ draft[p].expiry \in Nat
           /\ draft[p].refresh \in Tokens \cup {None}
           /\ access[p].until \in Nat /\ access[p].cached \in BOOLEAN
  BY DEF TypeOK, tokenCache, Tokens, None

(***************************************************************************)
(* A run gives up, or is done: nothing but its own variables changes, and  *)
(* lost takes in what was not saved.                                       *)
(***************************************************************************)
LEMMA GiveUp ==
    ASSUME IInv, NEW p \in Procs, Leave(p),
           UNCHANGED <<now, endpoint, config, file>>,
           faults' \in 0..MaxFaults,
           \/ Losing(p) /\ pc[p] \in {"ask"} \cup Saving
           \/ UNCHANGED lost /\ pc[p] \notin Saving
    PROVE  IInv'
<1>. USE DEF IInv, endpoint
<1>1. /\ LocalType'
      /\ \A q \in Procs \ {p} : Same(q)
      /\ pc'[p] = "idle"
      /\ start'[p] = 0
      /\ using'[p] = None
      /\ draft'[p] = Empty
      /\ access'[p] = NoAccess
  BY LeaveLocal
<1>2. /\ lost' \subseteq Tokens
      /\ lost \subseteq lost'
      /\ Rotates /\ pc[p] \in Saving => using[p] \in lost'
  <2>1. CASE Losing(p) /\ pc[p] \in {"ask"} \cup Saving
    BY <2>1, LosingType DEF AskOK
  <2>2. CASE UNCHANGED lost /\ pc[p] \notin Saving
    BY <2>2 DEF TypeOK
  <2>. QED
    BY <2>1, <2>2
<1>3. TypeOK'
  BY <1>1, <1>2 DEF TypeOK, LocalType
<1>4. AskOK'
  BY <1>1 DEF AskOK, Same, Saving
<1>5. Bounded'
  BY <1>1, Values DEF Bounded, Same, Empty, None
<1>6. Timely'
  BY <1>1, Values DEF Timely, FreshAccess, Same, Empty, None, NoAccess
<1>7. Fresh'
  BY <1>1 DEF Fresh, Secret, Same, Saving, None
<1>8. CacheCurrent'
  <2>1. Choose(file)' = Choose(file)
    BY DEF Choose
  <2>. SUFFICES ASSUME CachePath, Choose(file) \in superseded, Choose(file) \notin lost'
                PROVE  \E q \in Procs : pc'[q] \in Saving /\ using'[q] = Choose(file)
    BY <2>1 DEF CacheCurrent
  <2>2. PICK q \in Procs : pc[q] \in Saving /\ using[q] = Choose(file)
    BY <1>2 DEF CacheCurrent
  <2>3. q # p
    BY <1>2, <2>2 DEF Bounded
  <2>. QED
    BY <1>1, <2>2, <2>3 DEF Same
<1>. QED
  BY <1>3, <1>4, <1>5, <1>6, <1>7, <1>8

(***************************************************************************)
(* The clock, then loadCache and the decision                              *)
(***************************************************************************)
LEMMA BeginInv == ASSUME IInv, NEW p \in Procs, Begin(p) PROVE IInv'
<1>. USE DEF IInv
<1>1. /\ pc[p] = "idle"
      /\ pc' = [pc EXCEPT ![p] = "load"]
      /\ start' = [start EXCEPT ![p] = now]
      /\ UNCHANGED <<now, issued, superseded, dead, config, file, lost, faults,
                     using, draft, access>>
  BY DEF Begin, endpoint
<1>2. /\ pc' \in [Procs -> {"idle", "load", "ask", "use"} \cup Saving]
      /\ start' \in [Procs -> 0..MaxTime]
      /\ pc'[p] = "load" /\ start'[p] = now
      /\ \A q \in Procs \ {p} : pc'[q] = pc[q] /\ start'[q] = start[q]
  BY <1>1 DEF TypeOK
<1>3. \A q \in Procs : pc'[q] \in Saving => pc[q] \in Saving /\ q # p
  BY <1>2 DEF Saving
<1>4. TypeOK'
  BY <1>1, <1>2 DEF TypeOK
<1>5. AskOK' /\ Bounded'
  BY <1>1, <1>2, <1>3 DEF AskOK, Bounded
<1>6. Timely'
  BY <1>1, <1>2, Values DEF Timely, FreshAccess
<1>7. Fresh'
  BY <1>1, <1>2, <1>3 DEF Fresh, Secret
<1>8. CacheCurrent'
  <2>1. \A q \in Procs : pc[q] \in Saving => pc'[q] \in Saving
    BY <1>1, <1>2 DEF Saving
  <2>2. QED
    BY <1>1, <2>1 DEF CacheCurrent, Choose
<1>. QED
  BY <1>4, <1>5, <1>6, <1>7, <1>8

LEMMA LoadInv == ASSUME IInv, NEW p \in Procs, Load(p) PROVE IInv'
<1>. USE DEF IInv
<1>1. PICK c \in {file, Empty} :
         /\ faults' \in 0..MaxFaults
         /\ IF Good(p, c)
            THEN /\ access' = [access EXCEPT ![p] = [until |-> c.access, cached |-> TRUE]]
                 /\ pc' = [pc EXCEPT ![p] = "use"]
                 /\ UNCHANGED using
            ELSE /\ using' = [using EXCEPT ![p] = Choose(c)]
                 /\ pc' = [pc EXCEPT ![p] = "ask"]
                 /\ UNCHANGED access
  <2>1. faults' \in 0..MaxFaults
    BY FaultType DEF Load, TypeOK
  <2>. QED
    BY <2>1 DEF Load
<1>2. /\ pc[p] = "load"
      /\ UNCHANGED <<now, issued, superseded, dead, config, file, lost, start, draft>>
  BY DEF Load, endpoint
<1>3. c \in tokenCache
  BY DEF TypeOK, tokenCache, Empty, None
<1>4. Choose(c) \in Tokens /\ Choose(c) \in 1..issued
  BY <1>3, Values DEF Choose, tokenCache, TypeOK, None, Bounded, Tokens, Empty
<1>5. /\ LocalType'
      /\ \A q \in Procs \ {p} : Same(q)
      /\ start' = start
      /\ pc'[p] \in {"ask", "use"}
      /\ using'[p] \in {using[p], Choose(c)}
      /\ pc'[p] = "ask" => using'[p] = Choose(c)
      /\ pc'[p] = "use" => (access'[p].cached => Good(p, c) /\ access'[p].until = c.access)
      /\ draft' = draft
  <2>1. LocalType
    BY TypeLocal
  <2>2. start' = start
    BY <1>2
  <2>3. CASE Good(p, c)
    <3>1. /\ access' = [access EXCEPT ![p] = [until |-> c.access, cached |-> TRUE]]
          /\ pc' = [pc EXCEPT ![p] = "use"]
          /\ using' = using
      BY <1>1, <2>3
    <3>2. c.access \in Nat
      BY <1>3 DEF tokenCache
    <3>3. /\ access' \in [Procs -> [until : Nat, cached : BOOLEAN]]
          /\ access'[p].until = c.access
          /\ \A q \in Procs \ {p} : access'[q] = access[q]
      BY <2>1, <3>1, <3>2 DEF LocalType
    <3>4. /\ pc' \in [Procs -> {"idle", "load", "ask", "use"} \cup Saving]
          /\ pc'[p] = "use"
          /\ \A q \in Procs \ {p} : pc'[q] = pc[q]
      BY <2>1, <3>1 DEF LocalType
    <3>. QED
      BY <1>2, <2>1, <2>2, <2>3, <3>1, <3>3, <3>4 DEF LocalType, Same
  <2>4. CASE ~Good(p, c)
    <3>1. /\ using' = [using EXCEPT ![p] = Choose(c)]
          /\ pc' = [pc EXCEPT ![p] = "ask"]
          /\ access' = access
      BY <1>1, <2>4
    <3>. QED
      BY <1>2, <1>4, <2>1, <2>2, <3>1 DEF LocalType, Same
  <2>. QED
    BY <2>3, <2>4
<1>6. TypeOK'
  BY <1>1, <1>2, <1>5 DEF TypeOK, LocalType
<1>7. AskOK'
  BY <1>4, <1>5 DEF AskOK, Same, Saving
<1>8. Bounded'
  BY <1>2, <1>4, <1>5, Values DEF Bounded, Same
<1>9. Timely'
  <2>1. pc'[p] = "use" /\ access'[p].cached => access'[p].until > start'[p] + Skew
    BY <1>3, <1>5, Values DEF Good, Timely, tokenCache, Empty
  <2>. QED
    BY <1>2, <1>5, <2>1, Values DEF Timely, FreshAccess, Same
<1>10. Fresh'
  <2>. SUFFICES ASSUME Rotates, NEW r \in Procs, pc'[r] \in Saving PROVE Secret(r)'
    BY <1>2 DEF Fresh
  <2>1. r # p /\ pc[r] \in Saving /\ Secret(r)
    BY <1>5 DEF Fresh, Same, Saving
  <2>2. draft[r].refresh # Choose(c)
    BY <1>3, <2>1 DEF Secret, Choose, Empty, None
  <2>. QED
    BY <1>2, <1>5, <2>1, <2>2 DEF Secret, Same, Saving
<1>11. CacheCurrent'
  BY <1>2, <1>5 DEF CacheCurrent, Choose, Same, Saving
<1>. QED
  BY <1>6, <1>7, <1>8, <1>9, <1>10, <1>11

(***************************************************************************)
(* refresh                                                                 *)
(***************************************************************************)

\* The endpoint takes the token of run p, which then knows the new one, if
\* there is a new one, or has lost it.
LEMMA GrantedFacts ==
    ASSUME IInv, NEW p \in Procs, pc[p] = "ask", Granted(p)
    PROVE  /\ issued' \in Tokens /\ issued <= issued'
           /\ superseded' \subseteq Tokens
           /\ dead' \subseteq superseded'
           /\ superseded' \subseteq superseded \cup {using[p]}
           /\ Rotates => issued' = issued + 1 /\ using[p] \in superseded'
           /\ superseded' \subseteq 1..issued'
           /\ ~Rotates => superseded' = {} /\ issued' = issued
<1>1. using[p] \in Tokens /\ using[p] \in 1..issued
  BY DEF IInv, AskOK, Bounded, Tokens
<1>2. issued \in Tokens /\ superseded \subseteq Tokens /\ dead \subseteq superseded
      /\ superseded \subseteq 1..issued
      /\ (~Rotates => superseded = {})
  BY DEF IInv, TypeOK, Bounded
<1>3. CASE Rotates
  <2>1. issued < MaxTokens /\ issued' = issued + 1
        /\ superseded' = superseded \cup {using[p]} /\ dead' = dead
    BY <1>3 DEF Granted
  <2>. QED
    <3>1. issued' \in Tokens /\ issued <= issued'
      BY <1>2, <2>1 DEF Tokens
    <3>2. 1..issued \subseteq 1..issued'
      BY <1>2, <3>1 DEF Tokens
    <3>. QED
      BY <1>1, <1>2, <1>3, <2>1, <3>1, <3>2
<1>4. CASE ~Rotates
  <2>1. issued' = issued /\ superseded' = superseded /\ dead' = dead
    BY <1>4 DEF Granted
  <2>. QED
    BY <1>2, <1>4, <2>1 DEF Tokens
<1>. QED
  BY <1>3, <1>4

\* The answer arrives and is going to be saved.
LEMMA AnswerInv ==
    ASSUME IInv, NEW p \in Procs, pc[p] = "ask", CachePath, Granted(p),
           NEW life \in Lives, NEW minted \in start[p]..now,
           NEW stated \in Stated(life),
           draft' = [draft EXCEPT ![p] = Answer(p, minted, life, stated)],
           pc' = [pc EXCEPT ![p] = "write"],
           UNCHANGED <<now, config, file, lost, faults, start, using, access>>
    PROVE  IInv'
<1>. USE DEF IInv
<1>. DEFINE a == Answer(p, minted, life, stated)
<1>1. /\ issued' \in Tokens /\ issued <= issued'
      /\ superseded' \subseteq Tokens
      /\ dead' \subseteq superseded'
      /\ superseded' \subseteq superseded \cup {using[p]}
      /\ Rotates => issued' = issued + 1 /\ using[p] \in superseded'
      /\ superseded' \subseteq 1..issued'
      /\ ~Rotates => superseded' = {} /\ issued' = issued
  BY GrantedFacts
<1>2. /\ using[p] \in Tokens /\ using[p] \in 1..issued
      /\ issued \in Nat /\ start[p] \in Nat /\ minted \in Nat /\ life \in Nat
      /\ start[p] <= minted
      /\ stated \in Nat /\ stated <= life
  BY Values DEF Stated, AskOK, Bounded, Tokens, TypeOK
<1>3. /\ a.refresh = (IF Rotates THEN issued + 1 ELSE using[p])
      /\ a.access = minted + life
      /\ a.expiry = start[p] + stated
      /\ a.refresh \in Tokens
      /\ a.refresh \in 0..issued'
  BY <1>1, <1>2 DEF Answer, Tokens
<1>4. a \in tokenCache /\ a.expiry <= a.access
  BY <1>2, <1>3 DEF tokenCache, Answer
<1>. HIDE DEF a
<1>5. /\ draft' \in [Procs -> tokenCache] /\ draft'[p] = a
      /\ \A q \in Procs \ {p} : draft'[q] = draft[q]
  BY <1>4 DEF TypeOK, a
<1>6. /\ pc' \in [Procs -> {"idle", "load", "ask", "use"} \cup Saving] /\ pc'[p] = "write"
      /\ \A q \in Procs \ {p} : pc'[q] = pc[q]
  BY DEF TypeOK, Saving
<1>7. TypeOK'
  BY <1>1, <1>5, <1>6 DEF TypeOK
<1>8. AskOK'
  BY <1>2, <1>6 DEF AskOK, Saving
<1>9. Bounded'
  <2>1. issued' \in Nat
    BY <1>1 DEF Tokens
  <2>2. config' \in 1..issued' /\ file'.refresh \in 0..issued'
    BY <1>1, <1>2, <2>1, Values DEF Bounded
  <2>3. \A q \in Procs : using'[q] \in 0..issued' /\ draft'[q].refresh \in 0..issued'
    BY <1>1, <1>2, <1>3, <1>5, <2>1, Values DEF Bounded
  <2>. QED
    BY <1>1, <2>2, <2>3 DEF Bounded
<1>10. Timely'
  BY <1>4, <1>5, <1>6 DEF Timely, FreshAccess
<1>11. Fresh'
  <2>. SUFFICES ASSUME Rotates, NEW r \in Procs, pc'[r] \in Saving PROVE Secret(r)'
    BY DEF Fresh
  <2>1. CASE r = p
    <3>1. draft'[r].refresh = issued + 1
      BY <1>3, <1>5, <2>1
    <3>2. /\ \A t \in superseded' : t # issued + 1
          /\ config # issued + 1 /\ file.refresh # issued + 1
          /\ issued + 1 # None
      BY <1>1, <1>2, Values DEF Bounded, None
    <3>3. \A q \in Procs : using[q] # issued + 1 /\ draft[q].refresh # issued + 1
      BY <1>2 DEF Bounded
    <3>. QED
      BY <1>5, <2>1, <3>1, <3>2, <3>3 DEF Secret
  <2>2. CASE r # p
    <3>1. pc[r] \in Saving /\ Secret(r) /\ draft'[r] = draft[r]
      BY <1>5, <1>6, <2>2 DEF Fresh
    <3>2. draft[r].refresh # issued + 1
      BY <1>2 DEF Bounded
    <3>. QED
      BY <1>1, <1>3, <1>5, <1>6, <2>2, <3>1, <3>2 DEF Secret
  <2>. QED
    BY <2>1, <2>2
<1>12. CacheCurrent'
  <2>1. Choose(file)' = Choose(file)
    BY DEF Choose
  <2>. SUFFICES ASSUME Choose(file) \in superseded', Choose(file) \notin lost
                PROVE  \E q \in Procs : pc'[q] \in Saving /\ using[q] = Choose(file)
    BY <2>1 DEF CacheCurrent
  <2>2. CASE Choose(file) = using[p]
    BY <1>6, <2>2 DEF Saving
  <2>3. CASE Choose(file) # using[p]
    <3>1. PICK q \in Procs : pc[q] \in Saving /\ using[q] = Choose(file)
      BY <1>1, <2>3 DEF CacheCurrent
    <3>. QED
      BY <1>6, <2>3, <3>1
  <2>. QED
    BY <2>2, <2>3
<1>. QED
  BY <1>7, <1>8, <1>9, <1>10, <1>11, <1>12

\* There is no cache: the access token is handed out, and a new refresh token
\* is dropped.
LEMMA UncachedInv ==
    ASSUME IInv, NEW p \in Procs, pc[p] = "ask", ~CachePath, Granted(p), Losing(p),
           NEW u \in Nat, access' = [access EXCEPT ![p] = [until |-> u, cached |-> FALSE]],
           pc' = [pc EXCEPT ![p] = "use"],
           UNCHANGED <<now, config, file, faults, start, using, draft>>
    PROVE  IInv'
<1>. USE DEF IInv
<1>1. /\ issued' \in Tokens /\ issued <= issued'
      /\ superseded' \subseteq Tokens
      /\ dead' \subseteq superseded'
      /\ superseded' \subseteq 1..issued'
      /\ ~Rotates => superseded' = {}
  BY GrantedFacts
<1>2. lost' \subseteq Tokens
  BY LosingType DEF AskOK
<1>3. /\ pc' \in [Procs -> {"idle", "load", "ask", "use"} \cup Saving] /\ pc'[p] = "use"
      /\ \A q \in Procs \ {p} : pc'[q] = pc[q]
  BY DEF TypeOK
<1>4. /\ access' \in [Procs -> [until : Nat, cached : BOOLEAN]]
      /\ access'[p].cached = FALSE
      /\ \A q \in Procs \ {p} : access'[q] = access[q]
  BY DEF TypeOK
<1>5. TypeOK'
  BY <1>1, <1>2, <1>3, <1>4 DEF TypeOK
<1>6. AskOK'
  BY <1>3 DEF AskOK, Saving
<1>7. Bounded'
  <2>1. issued' \in Nat
    BY <1>1 DEF Tokens
  <2>2. config' \in 1..issued' /\ file'.refresh \in 0..issued'
    BY <1>1, <2>1, Values DEF Bounded
  <2>3. \A q \in Procs : using'[q] \in 0..issued' /\ draft'[q].refresh \in 0..issued'
    BY <1>1, <2>1, Values DEF Bounded
  <2>. QED
    BY <1>1, <2>2, <2>3 DEF Bounded
<1>8. Timely'
  BY <1>3, <1>4 DEF Timely, FreshAccess
<1>9. Fresh'
  BY <1>6 DEF Fresh, AskOK
<1>10. CacheCurrent'
  BY DEF CacheCurrent
<1>. QED
  BY <1>5, <1>6, <1>7, <1>8, <1>9, <1>10

\* The endpoint has answered and the answer is lost.
LEMMA ReplyLostInv ==
    ASSUME IInv, NEW p \in Procs, pc[p] = "ask", Granted(p), Losing(p), Leave(p),
           faults' \in 0..MaxFaults, UNCHANGED <<now, config, file>>
    PROVE  IInv'
<1>. USE DEF IInv
<1>1. /\ issued' \in Tokens /\ issued <= issued'
      /\ superseded' \subseteq Tokens
      /\ dead' \subseteq superseded'
      /\ superseded' \subseteq superseded \cup {using[p]}
      /\ superseded' \subseteq 1..issued'
      /\ ~Rotates => superseded' = {}
  BY GrantedFacts
<1>2. /\ LocalType'
      /\ \A q \in Procs \ {p} : Same(q)
      /\ pc'[p] = "idle"
      /\ start'[p] = 0
      /\ using'[p] = None
      /\ draft'[p] = Empty
      /\ access'[p] = NoAccess
  BY LeaveLocal
<1>3. lost' \subseteq Tokens /\ lost \subseteq lost' /\ (Rotates => using[p] \in lost')
  BY LosingType DEF AskOK
<1>4. TypeOK'
  BY <1>1, <1>2, <1>3 DEF TypeOK, LocalType
<1>5. AskOK'
  BY <1>2 DEF AskOK, Same, Saving
<1>6. Bounded'
  <2>1. issued' \in Nat
    BY <1>1 DEF Tokens
  <2>2. config' \in 1..issued' /\ file'.refresh \in 0..issued'
    BY <1>1, <2>1, Values DEF Bounded
  <2>3. \A q \in Procs : using'[q] \in 0..issued' /\ draft'[q].refresh \in 0..issued'
    BY <1>1, <1>2, <2>1, Values DEF Bounded, Same, Empty, None
  <2>. QED
    BY <1>1, <2>2, <2>3 DEF Bounded
<1>7. Timely'
  BY <1>2, Values DEF Timely, FreshAccess, Same, Empty, None, NoAccess
<1>8. Fresh'
  <2>. SUFFICES ASSUME Rotates, NEW r \in Procs, pc'[r] \in Saving PROVE Secret(r)'
    BY DEF Fresh
  <2>1. r # p /\ pc[r] \in Saving /\ Secret(r)
    BY <1>2 DEF Fresh, Same, Saving
  <2>. QED
    BY <1>1, <1>2, <2>1 DEF Secret, Same, Saving, None
<1>9. CacheCurrent'
  <2>1. Choose(file)' = Choose(file)
    BY DEF Choose
  <2>. SUFFICES ASSUME CachePath, Choose(file) \in superseded', Choose(file) \notin lost'
                PROVE  \E q \in Procs : pc'[q] \in Saving /\ using'[q] = Choose(file)
    BY <2>1 DEF CacheCurrent
  <2>2. Choose(file) # using[p]
    BY <1>1, <1>3
  <2>3. PICK q \in Procs : pc[q] \in Saving /\ using[q] = Choose(file)
    BY <1>1, <1>3, <2>2 DEF CacheCurrent
  <2>. QED
    BY <1>2, <2>2, <2>3 DEF Same
<1>. QED
  BY <1>4, <1>5, <1>6, <1>7, <1>8, <1>9

LEMMA RefreshInv == ASSUME IInv, NEW p \in Procs, Refresh(p) PROVE IInv'
<1>1. pc[p] = "ask" /\ UNCHANGED <<now, config, file>>
  BY DEF Refresh
<1>2. CASE \E life \in Lives, minted \in start[p]..now :
             /\ Granted(p)
             /\ IF CachePath
                THEN /\ \E stated \in Stated(life) :
                           draft' = [draft EXCEPT ![p] = Answer(p, minted, life, stated)]
                     /\ pc' = [pc EXCEPT ![p] = "write"]
                     /\ UNCHANGED <<access, lost>>
                ELSE /\ access' = [access EXCEPT ![p] =
                                      [until |-> minted + life, cached |-> FALSE]]
                     /\ pc' = [pc EXCEPT ![p] = "use"]
                     /\ Losing(p)
                     /\ UNCHANGED draft
             /\ UNCHANGED <<faults, start, using>>
  <2>1. PICK life \in Lives, minted \in start[p]..now :
             /\ Granted(p)
             /\ IF CachePath
                THEN /\ \E stated \in Stated(life) :
                           draft' = [draft EXCEPT ![p] = Answer(p, minted, life, stated)]
                     /\ pc' = [pc EXCEPT ![p] = "write"]
                     /\ UNCHANGED <<access, lost>>
                ELSE /\ access' = [access EXCEPT ![p] =
                                      [until |-> minted + life, cached |-> FALSE]]
                     /\ pc' = [pc EXCEPT ![p] = "use"]
                     /\ Losing(p)
                     /\ UNCHANGED draft
             /\ UNCHANGED <<faults, start, using>>
    BY <1>2
  <2>2. CASE CachePath
    <3>1. PICK stated \in Stated(life) :
             draft' = [draft EXCEPT ![p] = Answer(p, minted, life, stated)]
      BY <2>1, <2>2
    <3>2. Granted(p) /\ pc' = [pc EXCEPT ![p] = "write"]
          /\ UNCHANGED <<access, lost, faults, start, using>>
      BY <2>1, <2>2
    <3>. QED
      BY <1>1, <2>2, <3>1, <3>2, AnswerInv
  <2>3. CASE ~CachePath
    <3>1. minted + life \in Nat
      BY Values DEF IInv
    <3>2. access' = [access EXCEPT ![p] = [until |-> minted + life, cached |-> FALSE]]
          /\ pc' = [pc EXCEPT ![p] = "use"] /\ Losing(p) /\ Granted(p)
          /\ UNCHANGED <<faults, start, using, draft>>
      BY <2>1, <2>3
    <3>. QED
      BY <1>1, <2>3, <3>1, <3>2, UncachedInv
  <2>. QED
    BY <2>2, <2>3
<1>3. CASE Granted(p) /\ Fault("reply") /\ Losing(p) /\ Leave(p)
  <2>1. faults' \in 0..MaxFaults
    BY <1>3, FaultType DEF IInv
  <2>. QED
    BY <1>1, <1>3, <2>1, ReplyLostInv
<1>4. CASE UNCHANGED <<endpoint, faults, lost>> /\ Leave(p)
  <2>1. faults' \in 0..MaxFaults /\ pc[p] \notin Saving
    BY <1>1, <1>4 DEF IInv, TypeOK, Saving
  <2>. QED
    BY <1>1, <1>4, <2>1, GiveUp
<1>. QED
  BY <1>2, <1>3, <1>4 DEF Refresh

(***************************************************************************)
(* saveCache                                                               *)
(***************************************************************************)
LEMMA WrittenInv ==
    ASSUME IInv, NEW p \in Procs, pc[p] \in Saving, pc' = [pc EXCEPT ![p] = "rename"],
           UNCHANGED <<now, endpoint, config, file, faults, lost, start, using, draft, access>>
    PROVE  IInv'
<1>. USE DEF IInv, endpoint
<1>1. /\ pc' \in [Procs -> {"idle", "load", "ask", "use"} \cup Saving]
      /\ \A q \in Procs \ {p} : pc'[q] = pc[q]
      /\ pc'[p] \in Saving
  BY DEF TypeOK, Saving
<1>2. \A q \in Procs : pc'[q] \in Saving <=> pc[q] \in Saving
  BY <1>1
<1>3. TypeOK'
  BY <1>1 DEF TypeOK
<1>4. AskOK'
  BY <1>1, <1>2 DEF AskOK, Saving
<1>5. Bounded'
  BY DEF Bounded
<1>6. Timely'
  BY <1>1 DEF Timely, FreshAccess, Saving
<1>7. Fresh'
  BY <1>2 DEF Fresh, Secret
<1>8. CacheCurrent'
  BY <1>2 DEF CacheCurrent, Choose
<1>. QED
  BY <1>3, <1>4, <1>5, <1>6, <1>7, <1>8

LEMMA SaveFailsInv ==
    ASSUME IInv, NEW p \in Procs, NEW kind, pc[p] \in Saving, SaveFails(p, kind),
           UNCHANGED <<now, endpoint, config>>
    PROVE  IInv'
<1>1. faults' \in 0..MaxFaults
  BY FaultType DEF IInv, SaveFails
<1>. QED
  BY <1>1, GiveUp DEF SaveFails

LEMMA RenamedInv ==
    ASSUME IInv, NEW p \in Procs, pc[p] = "rename",
           file' = draft[p],
           access' = [access EXCEPT ![p] = [until |-> draft[p].access, cached |-> FALSE]],
           draft' = [draft EXCEPT ![p] = Empty],
           pc' = [pc EXCEPT ![p] = "use"],
           UNCHANGED <<now, endpoint, config, faults, lost, start, using>>
    PROVE  IInv'
<1>. USE DEF IInv, endpoint
<1>1. pc[p] \in Saving
  BY DEF Saving
<1>2. /\ pc' \in [Procs -> {"idle", "load", "ask", "use"} \cup Saving] /\ pc'[p] = "use"
      /\ \A q \in Procs \ {p} : pc'[q] = pc[q]
  BY DEF TypeOK
<1>3. /\ draft' \in [Procs -> tokenCache] /\ draft'[p] = Empty
      /\ \A q \in Procs \ {p} : draft'[q] = draft[q]
  BY DEF TypeOK, tokenCache, Empty, None
<1>4. /\ access' \in [Procs -> [until : Nat, cached : BOOLEAN]]
      /\ access'[p].cached = FALSE
      /\ \A q \in Procs \ {p} : access'[q] = access[q]
  <2>1. draft[p].access \in Nat
    BY Values
  <2>. QED
    BY <2>1 DEF TypeOK
<1>5. file' \in tokenCache
  BY DEF TypeOK
<1>6. TypeOK'
  BY <1>2, <1>3, <1>4, <1>5 DEF TypeOK
<1>7. AskOK'
  BY <1>2 DEF AskOK, Saving
<1>8. Bounded'
  BY <1>3, Values DEF Bounded, Empty, None
<1>9. Timely'
  BY <1>2, <1>3, <1>4, Values DEF Timely, FreshAccess, Empty, None
<1>10. Fresh'
  <2>. SUFFICES ASSUME Rotates, NEW r \in Procs, pc'[r] \in Saving PROVE Secret(r)'
    BY DEF Fresh
  <2>1. r # p /\ pc[r] \in Saving /\ Secret(r) /\ draft'[r] = draft[r]
    BY <1>2, <1>3 DEF Fresh, Saving
  <2>2. draft[r].refresh # file'.refresh
    BY <1>1, <2>1 DEF Secret
  <2>. QED
    BY <1>2, <1>3, <2>1, <2>2 DEF Secret, Saving
<1>11. CacheCurrent'
  <2>1. CASE Rotates
    <3>1. draft[p].refresh # None /\ draft[p].refresh \notin superseded
      BY <1>1, <2>1 DEF Fresh, Secret
    <3>2. Choose(file)' = draft[p].refresh
      BY <3>1 DEF Choose
    <3>. QED
      BY <3>1, <3>2 DEF CacheCurrent
  <2>2. CASE ~Rotates
    BY <2>2 DEF CacheCurrent, Bounded
  <2>. QED
    BY <2>1, <2>2
<1>. QED
  BY <1>6, <1>7, <1>8, <1>9, <1>10, <1>11

(***************************************************************************)
(* The world                                                               *)
(***************************************************************************)
LEMMA TickInv == ASSUME IInv, Tick PROVE IInv'
<1>. USE DEF IInv, Tick, endpoint
<1>1. TypeOK'
  BY DEF TypeOK
<1>2. AskOK' /\ Bounded' /\ CacheCurrent'
  BY DEF AskOK, Bounded, CacheCurrent, Choose
<1>3. Timely'
  BY Values DEF Timely, FreshAccess
<1>4. Fresh'
  BY DEF Fresh, Secret
<1>. QED
  BY <1>1, <1>2, <1>3, <1>4

LEMMA RetireInv == ASSUME IInv, NEW t \in Tokens, Retire(t) PROVE IInv'
<1>. USE DEF IInv, Retire
<1>1. TypeOK'
  BY DEF TypeOK
<1>2. AskOK' /\ Bounded' /\ CacheCurrent'
  BY DEF AskOK, Bounded, CacheCurrent, Choose
<1>3. Timely' /\ Fresh'
  BY DEF Timely, FreshAccess, Fresh, Secret
<1>. QED
  BY <1>1, <1>2, <1>3

LEMMA RebootstrapInv == ASSUME IInv, Rebootstrap PROVE IInv'
<1>. USE DEF IInv, Rebootstrap
<1>1. /\ issued \in Nat /\ issued' = issued + 1 /\ config' = issued + 1
      /\ issued' \in Tokens /\ config' \in Tokens
  BY Values DEF TypeOK, Tokens
<1>2. TypeOK'
  BY <1>1 DEF TypeOK
<1>3. AskOK'
  BY DEF AskOK
<1>4. Bounded'
  BY <1>1, Values DEF Bounded
<1>5. Timely'
  BY DEF Timely, FreshAccess
<1>6. Fresh'
  <2>1. \A r \in Procs : draft[r].refresh # issued + 1
    BY <1>1 DEF Bounded
  <2>. QED
    BY <1>1, <2>1 DEF Fresh, Secret
<1>7. CacheCurrent'
  <2>1. issued + 1 \notin superseded
    BY <1>1 DEF Bounded
  <2>. QED
    BY <1>1, <2>1 DEF CacheCurrent, Choose
<1>. QED
  BY <1>2, <1>3, <1>4, <1>5, <1>6, <1>7

(***************************************************************************)
(* The theorems                                                            *)
(***************************************************************************)
LEMMA StepIInv == IInv /\ [Next]_vars => IInv'
<1>. SUFFICES ASSUME IInv, [Next]_vars PROVE IInv'
  OBVIOUS
<1>1. CASE Tick
  BY <1>1, TickInv
<1>2. CASE Rebootstrap
  BY <1>2, RebootstrapInv
<1>3. ASSUME NEW t \in Tokens, Retire(t) PROVE IInv'
  BY <1>3, RetireInv
<1>4. ASSUME NEW p \in Procs, Begin(p) \/ Load(p) PROVE IInv'
  BY <1>4, BeginInv, LoadInv
<1>5. ASSUME NEW p \in Procs, Refresh(p) PROVE IInv'
  BY <1>5, RefreshInv
<1>6. ASSUME NEW p \in Procs, Write(p) PROVE IInv'
  <2>1. pc[p] \in Saving /\ UNCHANGED <<now, endpoint, config>>
    BY <1>6 DEF Write, Saving
  <2>2. CASE SaveFails(p, "write")
    BY <2>1, <2>2, SaveFailsInv
  <2>3. CASE ~SaveFails(p, "write")
    BY <1>6, <2>1, <2>3, WrittenInv DEF Write
  <2>. QED
    BY <2>2, <2>3
<1>7. ASSUME NEW p \in Procs, Rename(p) PROVE IInv'
  <2>1. pc[p] \in Saving /\ pc[p] = "rename" /\ UNCHANGED <<now, endpoint, config>>
    BY <1>7 DEF Rename, Saving
  <2>2. CASE SaveFails(p, "rename")
    BY <2>1, <2>2, SaveFailsInv
  <2>3. CASE ~SaveFails(p, "rename")
    BY <1>7, <2>1, <2>3, RenamedInv DEF Rename
  <2>. QED
    BY <2>2, <2>3
<1>8. ASSUME NEW p \in Procs, Done(p) PROVE IInv'
  <2>1. /\ Leave(p) /\ pc[p] \notin Saving
        /\ UNCHANGED <<now, endpoint, config, file, lost>>
        /\ faults' \in 0..MaxFaults
    BY <1>8 DEF Done, Saving, IInv, TypeOK
  <2>. QED
    BY <2>1, GiveUp
<1>9. ASSUME NEW p \in Procs, Crash(p) PROVE IInv'
  <2>1. Leave(p) /\ UNCHANGED <<now, endpoint, config, file>> /\ faults' \in 0..MaxFaults
    BY <1>9, FaultType DEF Crash, IInv
  <2>2. CASE pc[p] \in Saving
    BY <1>9, <2>1, <2>2, GiveUp DEF Crash
  <2>3. CASE pc[p] \notin Saving
    BY <1>9, <2>1, <2>3, GiveUp DEF Crash
  <2>. QED
    BY <2>2, <2>3
<1>10. CASE UNCHANGED vars
  <2>. USE <1>10 DEF IInv, vars, endpoint
  <2>1. TypeOK' /\ AskOK' /\ Bounded'
    BY DEF TypeOK, AskOK, Bounded
  <2>2. Timely' /\ Fresh' /\ CacheCurrent'
    BY DEF Timely, FreshAccess, Fresh, Secret, CacheCurrent, Choose
  <2>. QED
    BY <2>1, <2>2
<1>. QED
  BY <1>1, <1>2, <1>3, <1>4, <1>5, <1>6, <1>7, <1>8, <1>9, <1>10
     DEF Next, World, Step

LEMMA Inductive == Spec => []IInv
BY InitIInv, StepIInv, PTL DEF Spec

\* Every variable keeps its type.
THEOREM TokenTypeCorrect == Spec => []TypeOK
<1>1. IInv => TypeOK
  BY DEF IInv
<1>. QED
  BY <1>1, Inductive, PTL

\* What the cache hands out lives on for longer than the skew, for any
\* lifetimes, skew, delays and overlapping runs: Token measures the lifetime
\* from before its request.
THEOREM FreshTheorem == Spec => []FreshAccess
<1>1. IInv => FreshAccess
  BY DEF IInv, Timely
<1>. QED
  BY <1>1, Inductive, PTL

\* No interleaving of runs puts a replaced refresh token back into the cache:
\* the token a run saves is known to that run alone until it is saved.
THEOREM CurrentTheorem == Spec => []CacheCurrent
<1>1. IInv => CacheCurrent
  BY DEF IInv
<1>. QED
  BY <1>1, Inductive, PTL
=============================================================================
