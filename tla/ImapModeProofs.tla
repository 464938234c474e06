--------------------------- MODULE ImapModeProofs ---------------------------
(***************************************************************************)
(* What is proved about IMAP mode for every configuration, every number of *)
(* overlapping invocations and every bound: its own properties, then that  *)
(* it implements MailCustody, then what a duplicate costs and what the     *)
(* state file keeps.                                                       *)
(***************************************************************************)
EXTENDS ImapCustody, TLAPS

USE DEF Accounts, Uids, Epochs, NoEpoch, DuringWrite

(***************************************************************************)
(* The inductive invariant                                                 *)
(***************************************************************************)

InSession == {"prune", "fetch", "post", "clean", "store"}
HasJob == {"post", "clean", "store"}

\* UIDs on the server have arrived, in this epoch or an earlier one.
ArrivalsOK ==
    /\ \A m \in arrived : m[2] <= box[m[1]].val
    /\ \A k \in Keys : /\ box[k].flagged \subseteq box[k].present
                       /\ \A u \in box[k].present : <<k, box[k].val, u>> \in arrived

\* A session fetches only what was once in the mailbox.
SessionOK ==
    \A p \in Procs : pc[p] \in InSession =>
        \A u \in sess[p].todo : <<Key(p), sess[p].val, u>> \in arrived

\* The file in hand holds its message, or the message was gone when fetched.
JobOK ==
    \A p \in Procs : pc[p] \in HasJob =>
        InHand(p) \in arrived /\ (job[p].full \/ Gone(InHand(p)))

IInv == TypeOK /\ ArrivalsOK /\ SessionOK /\ JobOK

LEMMA EmptyTypes ==
    /\ EmptyState \in [Keys -> Entry]
    /\ NoSession \in Session
    /\ NoJob \in Job
BY BoundAssumption DEF EmptyState, Entry, NoSession, Session, NoJob, Job

LEMMA KeyType ==
    ASSUME TypeOK, NEW p \in Procs
    PROVE  Key(p) \in Keys
BY ConfigAssumption DEF TypeOK, Key

LEMMA InitTypeOK == Init => TypeOK
<1> SUFFICES ASSUME Init PROVE TypeOK
  OBVIOUS
<1> USE BoundAssumption, EmptyTypes
<1>1. box \in [Keys -> Mailbox]
  BY DEF Init, Mailbox
<1>2. accepted \in [Msgs -> 0..MaxAccepts]
  BY DEF Init
<1> QED
  BY <1>1, <1>2 DEF Init, TypeOK

LEMMA InHandType ==
    ASSUME TypeOK, NEW p \in Procs, sess[p].val # 0, job[p].uid # 0
    PROVE  InHand(p) \in Msgs
BY KeyType DEF TypeOK, InHand, Msgs, Session, Job
LEMMA ExitType ==
    ASSUME TypeOK, NEW p \in Procs, Exit(p)
    PROVE  /\ pc' \in [Procs -> {"idle", "open", "prune", "fetch",
                                 "post", "clean", "store", "end", "rename"}]
           /\ acct' \in [Procs -> Accounts]
           /\ mem' \in [Procs -> [Keys -> Entry]]
           /\ sess' \in [Procs -> Session]
           /\ job' \in [Procs -> Job]
           /\ rc' \in [Procs -> BOOLEAN]
BY EmptyTypes, BoundAssumption DEF Exit, TypeOK

LEMMA NextAccountType ==
    ASSUME TypeOK, NEW p \in Procs, NextAccount(p)
    PROVE  /\ pc' \in [Procs -> {"idle", "open", "prune", "fetch",
                                 "post", "clean", "store", "end", "rename"}]
           /\ acct' \in [Procs -> Accounts]
           /\ sess' \in [Procs -> Session]
<1>1. sess' \in [Procs -> Session]
  BY EmptyTypes DEF NextAccount, TypeOK
<1>2. acct' \in [Procs -> Accounts]
  BY BoundAssumption DEF NextAccount, TypeOK
<1> QED
  BY <1>1, <1>2 DEF NextAccount, TypeOK

LEMMA FaultType ==
    ASSUME TypeOK, NEW kind, Fault(kind)
    PROVE  faults' \in 0..MaxFaults
BY BoundAssumption DEF Fault, TypeOK

LEMMA OutcomeType ==
    ASSUME TypeOK, NEW p \in Procs, Fails(p) \/ rc' = rc
    PROVE  rc' \in [Procs -> BOOLEAN]
BY DEF TypeOK, Fails

LEMMA TypeStep ==
    ASSUME IInv, [Next]_vars
    PROVE  TypeOK'
<1> TypeOK /\ JobOK
  BY DEF IInv
<1> DEFINE Boxes == [Keys -> Mailbox]
           Sessions == [Procs -> Session]
           Jobs == [Procs -> Job]
           Outcomes == [Procs -> BOOLEAN]
<1>a. box \in Boxes
  BY DEF TypeOK
<1>b. sess \in Sessions
  BY DEF TypeOK
<1>c. job \in Jobs
  BY DEF TypeOK
<1>1. ASSUME NEW p \in Procs, Start(p) PROVE TypeOK'
  BY <1>1, EmptyTypes, FaultType DEF Start, TypeOK
<1>2. ASSUME NEW p \in Procs, Open(p) PROVE TypeOK'
  <2>1. CASE Fault("open") /\ Fails(p) /\ NextAccount(p)
    <3>1. rc' \in Outcomes
      BY <2>1, OutcomeType
    <3> QED
      BY <1>2, <2>1, <3>1, NextAccountType, FaultType DEF Open, TypeOK
  <2>2. ASSUME NEW cand \in Candidates(p),
               sess' = [sess EXCEPT ![p] = [val |-> box[Key(p)].val, todo |-> cand,
                                            processed |-> {}, deleted |-> FALSE]],
               pc' = [pc EXCEPT ![p] = "prune"],
               UNCHANGED <<acct, rc, faults>>
        PROVE  TypeOK'
    <3>1. box[Key(p)] \in Mailbox
      BY KeyType, <1>a
    <3>2. cand \in SUBSET Uids
      BY <3>1 DEF Candidates, Mailbox
    <3>3. [val |-> box[Key(p)].val, todo |-> cand,
           processed |-> {}, deleted |-> FALSE] \in Session
      BY <3>1, <3>2 DEF Mailbox, Session
    <3>4. sess' \in Sessions
      BY <2>2, <3>3, <1>b
    <3> QED
      BY <1>2, <2>2, <3>4 DEF Open, TypeOK
  <2> QED
    BY <1>2, <2>1, <2>2 DEF Open
<1>3. ASSUME NEW p \in Procs, Prune(p) PROVE TypeOK'
  <2>1. PICK S \in {sess[p].todo, box[Key(p)].present}, batch \in Fetchable(p) :
           /\ OnServer(p, S)
           /\ sess' = [sess EXCEPT ![p].processed = Carried(p, S), ![p].todo = batch]
    BY <1>3 DEF Prune
  <2>2. batch \in SUBSET Uids
    BY <1>b DEF Fetchable, Batches, Session
  <2>3. Carried(p, S) \in SUBSET Uids
    BY KeyType DEF Carried, Processed, TypeOK, Entry
  <2>4. sess' \in Sessions
    BY <2>1, <2>2, <2>3, <1>b DEF Session
  <2>5. faults' \in 0..MaxFaults
    BY <2>1, FaultType DEF OnServer, CommandWorks, CommandFails, TypeOK
  <2> QED
    BY <1>3, <2>4, <2>5 DEF Prune, TypeOK
<1>4. ASSUME NEW p \in Procs, Fetch(p) PROVE TypeOK'
  <2>1. PICK u \in sess[p].todo :
           \/ /\ CommandWorks(p)
              /\ job' = [job EXCEPT ![p] = [uid |-> u, delivered |-> FALSE,
                                            full |-> u \in box[Key(p)].present]]
              /\ sess' = [sess EXCEPT ![p].todo = @ \ {u}]
              /\ pc' = [pc EXCEPT ![p] = "post"]
              /\ UNCHANGED rc
           \/ /\ CommandFails(p, "fetch")
              /\ sess' = [sess EXCEPT ![p].todo = {}]
              /\ Fails(p)
              /\ UNCHANGED <<job, pc>>
    BY <1>4 DEF Fetch
  <2>2. u \in Uids
    BY <1>b DEF Session
  <2>3. sess' \in Sessions
    <3>1. CASE sess' = [sess EXCEPT ![p].todo = @ \ {u}]
      BY <3>1, <1>b DEF Session
    <3>2. CASE sess' = [sess EXCEPT ![p].todo = {}]
      BY <3>2, <1>b DEF Session
    <3> QED
      BY <2>1, <3>1, <3>2
  <2>4. job' \in Jobs
    <3>1. CASE job' = job
      BY <3>1, <1>c
    <3>2. CASE job' = [job EXCEPT ![p] = [uid |-> u, delivered |-> FALSE,
                                          full |-> u \in box[Key(p)].present]]
      <4>1. [uid |-> u, delivered |-> FALSE,
             full |-> u \in box[Key(p)].present] \in Job
        BY <2>2 DEF Job
      <4> QED
        BY <3>2, <4>1, <1>c
    <3> QED
      BY <2>1, <3>1, <3>2
  <2>5. rc' \in Outcomes
    <3>1. Fails(p) \/ rc' = rc
      BY <2>1
    <3> QED
      BY <3>1, OutcomeType
  <2>6. faults' \in 0..MaxFaults
    <3>1. CommandWorks(p) \/ CommandFails(p, "fetch")
      BY <2>1
    <3> QED
      BY <3>1, FaultType DEF CommandWorks, CommandFails, TypeOK
  <2>7. pc' = [pc EXCEPT ![p] = "post"] \/ pc' = pc
    BY <2>1
  <2> QED
    BY <1>4, <2>3, <2>4, <2>5, <2>6, <2>7 DEF Fetch, TypeOK
<1>5. ASSUME NEW p \in Procs, Post(p) PROVE TypeOK'
  <2>1. job' \in [Procs -> Job]
    <3>1. PICK d \in BOOLEAN : job' = [job EXCEPT ![p].delivered = d]
      BY <1>5 DEF Post, Delivered
    <3> QED
      BY <3>1, <1>c DEF Job
  <2>2. accepted' \in [Msgs -> 0..MaxAccepts]
    <3>1. Accept(p) \/ accepted' = accepted
      BY <1>5 DEF Post
    <3> QED
      <4>1. accepted \in [Msgs -> 0..MaxAccepts] /\ InHand(p) \in Msgs
        BY <1>5 DEF TypeOK, JobOK, HasJob, Post
      <4>2. CASE accepted' = accepted
        BY <4>1, <4>2
      <4>3. CASE accepted' = [accepted EXCEPT ![InHand(p)] = @ + 1]
                   /\ accepted[InHand(p)] < MaxAccepts
        BY <4>1, <4>3, BoundAssumption
      <4> QED
        BY <3>1, <4>2, <4>3 DEF Accept
  <2> QED
    BY <1>5, <2>1, <2>2, FaultType DEF Post, TypeOK
<1>6. ASSUME NEW p \in Procs, Clean(p) PROVE TypeOK'
  <2>1. InHand(p) \in Msgs
    <3>1. InHand(p) \in arrived
      BY <1>6 DEF Clean, JobOK, HasJob
    <3> QED
      BY <3>1 DEF TypeOK
  <2>2. job' \in Jobs /\ rc' \in Outcomes
    <3>1. (job' = job \/ job' = [job EXCEPT ![p] = NoJob])
            /\ (rc' = rc \/ Fails(p))
      BY <1>6 DEF Clean
    <3> QED
      BY <3>1, <1>c, EmptyTypes, OutcomeType
  <2>3. sess' \in [Procs -> Session]
    <3>1. job[p].uid \in Uids
      BY <2>1 DEF InHand, Msgs
    <3>2. Recorded(p) \in SUBSET Uids
      BY <3>1, <1>b DEF Recorded, Session
    <3>3. sess' = [sess EXCEPT ![p].processed = Recorded(p)]
      BY <1>6 DEF Clean
    <3> QED
      BY <3>2, <3>3, <1>b DEF Session
  <2> QED
    BY <1>6, <2>1, <2>2, <2>3 DEF Clean, TypeOK
<1>7. ASSUME NEW p \in Procs, Store(p) PROVE TypeOK'
  <2>1. Key(p) \in Keys
    BY KeyType
  <2>2. box' \in [Keys -> Mailbox]
    <3>1. Flagged(p) \/ box' = box
      BY <1>7 DEF Store
    <3> QED
      BY <2>1, <3>1, <1>a DEF Flagged, Mailbox
  <2>3. sess' \in [Procs -> Session]
    <3>1. sess' = [sess EXCEPT ![p].deleted = TRUE] \/ sess' = sess
      BY <1>7 DEF Store
    <3> QED
      BY <3>1, <1>b DEF Session
  <2> QED
    <3>1. faults' \in 0..MaxFaults
      <4>1. CommandWorks(p) \/ CommandFails(p, "store")
        BY <1>7 DEF Store
      <4> QED
        BY <4>1, FaultType DEF CommandWorks, CommandFails, TypeOK
    <3>2. job' \in Jobs
      BY <1>7, <1>c, EmptyTypes DEF Store
    <3> QED
      BY <1>7, <2>2, <2>3, <3>1, <3>2 DEF Store, TypeOK
<1>8. ASSUME NEW p \in Procs, Finish(p) PROVE TypeOK'
  <2>1. Key(p) \in Keys
    BY KeyType
  <2>2. box' \in [Keys -> Mailbox]
    <3>1. Expunged(Key(p)) \/ box' = box
      BY <1>8 DEF Finish
    <3> QED
      BY <2>1, <3>1, <1>a DEF Expunged, Mailbox
  <2>3. mem' \in [Procs -> [Keys -> Entry]]
    <3>1. [val |-> sess[p].val, uids |-> sess[p].processed] \in Entry
      BY <1>b DEF Session, Entry
    <3>2. Put(p)
      BY <1>8 DEF Finish
    <3> QED
      <4>1. mem \in [Procs -> [Keys -> Entry]]
        BY DEF TypeOK
      <4> DEFINE entry == [val |-> sess[p].val, uids |-> sess[p].processed]
      <4>2. [mem[p] EXCEPT ![Key(p)] = entry] \in [Keys -> Entry]
        BY <2>1, <3>1, <4>1
      <4>3. mem' = mem \/ mem' = [mem EXCEPT ![p] = [mem[p] EXCEPT ![Key(p)] = entry]]
        BY <3>2 DEF Put
      <4> QED
        BY <4>1, <4>2, <4>3
  <2> QED
    BY <1>8, <2>2, <2>3, NextAccountType, FaultType DEF Finish, CommandWorks, CommandFails, TypeOK
<1>9. ASSUME NEW p \in Procs, End(p) \/ Rename(p) PROVE TypeOK'
  <2>1. CASE Exit(p)
    BY <1>9, <2>1, ExitType, FaultType DEF End, Rename, TypeOK
  <2>2. CASE ~Exit(p)
    BY <1>9, <2>2 DEF End, Rename, TypeOK
  <2> QED
    BY <2>1, <2>2
<1>10. ASSUME NEW p \in Procs, Crash(p) PROVE TypeOK'
  <2>1. kept' \subseteq Msgs
    BY <1>10 DEF Crash, JobOK, HasJob, TypeOK
  <2> QED
    BY <1>10, <2>1, ExitType, FaultType DEF Crash, TypeOK
<1>11. ASSUME NEW k \in Keys, NEW u \in Uids, Arrive(k, u) PROVE TypeOK'
  <2>1. box' \in Boxes
    BY <1>11, <1>a DEF Arrive, Mailbox
  <2>2. arrived' \subseteq Msgs
    BY <1>11, <1>a DEF Arrive, TypeOK, Mailbox, Msgs
  <2> QED
    BY <1>11, <2>1, <2>2 DEF Arrive, TypeOK
<1>12. ASSUME NEW k \in Keys, NEW u \in Uids, OthersFlag(k, u) PROVE TypeOK'
  BY <1>12 DEF OthersFlag, TypeOK, Mailbox, Msgs
<1>13. ASSUME NEW k \in Keys, OthersExpunge(k) PROVE TypeOK'
  BY <1>13 DEF OthersExpunge, Expunged, TypeOK, Mailbox
<1>14. ASSUME NEW k \in Keys, Recreate(k) PROVE TypeOK'
  <2>1. [val |-> box[k].val + 1, present |-> {}, flagged |-> {}] \in Mailbox
    BY <1>14, <1>a, BoundAssumption DEF Recreate, Mailbox
  <2>2. box' \in Boxes
    BY <1>14, <2>1, <1>a DEF Recreate
  <2>3. {<<k, box[k].val, u>> : u \in box[k].present} \subseteq Msgs
    BY <1>a DEF Mailbox, Msgs
  <2> QED
    BY <1>14, <2>2, <2>3 DEF Recreate, TypeOK
<1>15. CASE UNCHANGED vars
  BY <1>15 DEF vars, TypeOK
<1> QED
  BY <1>1, <1>2, <1>3, <1>4, <1>5, <1>6, <1>7, <1>8, <1>9, <1>10, <1>11, <1>12,
     <1>13, <1>14, <1>15 DEF Next, Environment, Step

(***************************************************************************)
(* How a step changes the mailbox and the processes                        *)
(***************************************************************************)

ExpungedOnly(k) == Expunged(k) /\ arrived' = arrived /\ withdrawn' = withdrawn

FlaggedOnly(k) ==
    \E F \in SUBSET box[k].present :
        box' = [box EXCEPT ![k].flagged = F] /\ arrived' = arrived

LEMMA BoxStep ==
    ASSUME IInv, [Next]_vars
    PROVE  \/ box' = box /\ arrived' = arrived
           \/ \E k \in Keys : \/ \E u \in Uids : Arrive(k, u)
                              \/ FlaggedOnly(k)
                              \/ ExpungedOnly(k)
                              \/ Recreate(k)
<1> TypeOK /\ ArrivalsOK
  BY DEF IInv
<1>1. ASSUME NEW p \in Procs, Step(p) \/ Crash(p)
      PROVE  \/ box' = box /\ arrived' = arrived
             \/ Store(p) /\ Flagged(p)
             \/ Finish(p) /\ Expunged(Key(p))
  BY <1>1 DEF Step, Start, Open, Prune, Fetch, Post, Clean, Store, Finish, End, Rename, Crash
<1>2. ASSUME NEW p \in Procs, Store(p), Flagged(p) PROVE FlaggedOnly(Key(p))
  <2>1. Key(p) \in Keys
    BY KeyType
  <2>2. box[Key(p)].flagged \cup ({job[p].uid} \cap box[Key(p)].present)
          \in SUBSET box[Key(p)].present
    BY <2>1 DEF ArrivalsOK
  <2> QED
    BY <1>2, <2>2 DEF FlaggedOnly, Flagged, Store
<1>3. ASSUME NEW p \in Procs, Finish(p), Expunged(Key(p)) PROVE ExpungedOnly(Key(p))
  BY <1>3 DEF ExpungedOnly, Finish
<1>4. ASSUME NEW k \in Keys, NEW u \in Uids, OthersFlag(k, u) PROVE FlaggedOnly(k)
  <2>1. box[k].flagged \cup {u} \in SUBSET box[k].present
    BY <1>4 DEF OthersFlag, ArrivalsOK
  <2> QED
    BY <1>4, <2>1 DEF OthersFlag, FlaggedOnly
<1>5. ASSUME NEW k \in Keys, OthersExpunge(k) PROVE ExpungedOnly(k)
  BY <1>5 DEF OthersExpunge, ExpungedOnly
<1>6. CASE UNCHANGED vars
  BY <1>6 DEF vars
<1>7. CASE Environment
  BY <1>7, <1>4, <1>5 DEF Environment
<1>8. ASSUME NEW p \in Procs, Step(p) \/ Crash(p)
      PROVE  \/ box' = box /\ arrived' = arrived
             \/ \E k \in Keys : FlaggedOnly(k) \/ ExpungedOnly(k)
  BY <1>8, <1>1, <1>2, <1>3, KeyType
<1> QED
  BY <1>6, <1>7, <1>8 DEF Next

\* What a mailbox looks like after each kind of change.
LEMMA FlaggedBox ==
    ASSUME TypeOK, NEW k \in Keys, FlaggedOnly(k), NEW j \in Keys
    PROVE  /\ box'[j].val = box[j].val
           /\ box'[j].present = box[j].present
           /\ j # k => box'[j] = box[j]
           /\ k = j => box'[j].flagged \subseteq box[j].present
<1> PICK F \in SUBSET box[k].present : box' = [box EXCEPT ![k].flagged = F]
  BY DEF FlaggedOnly
<1> box \in [Keys -> Mailbox]
  BY DEF TypeOK
<1> QED
  BY DEF Mailbox

LEMMA ExpungedBox ==
    ASSUME TypeOK, NEW k \in Keys, Expunged(k), NEW j \in Keys
    PROVE  /\ box'[j].val = box[j].val
           /\ box'[j].present \subseteq box[j].present
           /\ j # k => box'[j] = box[j]
           /\ j = k => /\ box'[j].present = box[j].present \ box[j].flagged
                       /\ box'[j].flagged = {}
<1> box \in [Keys -> Mailbox]
  BY DEF TypeOK
<1> QED
  BY DEF Mailbox, Expunged

LEMMA ArriveBox ==
    ASSUME TypeOK, NEW k \in Keys, NEW u \in Uids, Arrive(k, u), NEW j \in Keys
    PROVE  /\ box'[j].val = box[j].val
           /\ box'[j].flagged = box[j].flagged
           /\ j # k => box'[j] = box[j]
           /\ j = k => box'[j].present = box[j].present \cup {u}
<1> box \in [Keys -> Mailbox]
  BY DEF TypeOK
<1> QED
  BY DEF Mailbox, Arrive

LEMMA RecreateBox ==
    ASSUME TypeOK, NEW k \in Keys, Recreate(k), NEW j \in Keys
    PROVE  /\ j # k => box'[j] = box[j]
           /\ j = k => /\ box'[j].val = box[j].val + 1
                       /\ box'[j].present = {}
                       /\ box'[j].flagged = {}
<1> box \in [Keys -> Mailbox]
  BY DEF TypeOK
<1> QED
  BY DEF Mailbox, Recreate

\* No mailbox goes back to an earlier epoch.
LEMMA EpochGrows ==
    ASSUME IInv, [Next]_vars, NEW k \in Keys
    PROVE  /\ box[k].val \in Nat /\ box'[k].val \in Nat
           /\ box[k].val <= box'[k].val
<1> TypeOK
  BY DEF IInv
<1>1. box[k].val \in Nat
  BY BoundAssumption DEF TypeOK, Mailbox
<1>2. ASSUME NEW j \in Keys, Recreate(j) PROVE box'[k].val \in {box[k].val, box[k].val + 1}
  BY <1>2, RecreateBox
<1> QED
  BY <1>1, <1>2, BoxStep, FlaggedBox, ExpungedBox, ArriveBox DEF ExpungedOnly

LEMMA ArrivalsStep ==
    ASSUME IInv, [Next]_vars
    PROVE  ArrivalsOK'
<1> TypeOK /\ ArrivalsOK /\ TypeOK'
  BY TypeStep DEF IInv
<1>1. CASE box' = box /\ arrived' = arrived
  BY <1>1 DEF ArrivalsOK
<1>2. ASSUME NEW k \in Keys, NEW u \in Uids, Arrive(k, u) PROVE ArrivalsOK'
  <2>1. ASSUME NEW m \in arrived' PROVE m[2] <= box'[m[1]].val
    <3>1. m[1] \in Keys
      BY <2>1 DEF TypeOK, Msgs
    <3>2. m \in arrived \/ m = <<k, box[k].val, u>>
      BY <1>2 DEF Arrive
    <3>3. box'[m[1]].val = box[m[1]].val
      BY <1>2, <3>1, ArriveBox
    <3>4. box[k].val \in Nat
      BY BoundAssumption DEF TypeOK, Mailbox
    <3> QED
      BY <3>2, <3>3, <3>4 DEF ArrivalsOK
  <2>2. ASSUME NEW j \in Keys
        PROVE  /\ box'[j].flagged \subseteq box'[j].present
               /\ \A v \in box'[j].present : <<j, box'[j].val, v>> \in arrived'
    BY <1>2, ArriveBox DEF ArrivalsOK, Arrive
  <2> QED
    BY <2>1, <2>2 DEF ArrivalsOK
<1>3. ASSUME NEW k \in Keys, FlaggedOnly(k) \/ ExpungedOnly(k) PROVE ArrivalsOK'
  <2>1. arrived' = arrived
    BY <1>3 DEF FlaggedOnly, ExpungedOnly
  <2>2. ASSUME NEW j \in Keys
        PROVE  /\ box'[j].val = box[j].val
               /\ box'[j].present \subseteq box[j].present
               /\ box'[j].flagged \subseteq box'[j].present
    BY <1>3, FlaggedBox, ExpungedBox DEF ArrivalsOK, ExpungedOnly
  <2>3. \A m \in arrived : m[1] \in Keys
    BY DEF TypeOK, Msgs
  <2> QED
    BY <2>1, <2>2, <2>3 DEF ArrivalsOK
<1>4. ASSUME NEW k \in Keys, Recreate(k) PROVE ArrivalsOK'
  <2>1. arrived' = arrived
    BY <1>4 DEF Recreate
  <2>2. ASSUME NEW m \in arrived PROVE m[2] <= box'[m[1]].val
    <3>1. m[1] \in Keys /\ m[2] \in Nat
      BY BoundAssumption DEF TypeOK, Msgs
    <3>2. m[2] <= box[m[1]].val
      BY DEF ArrivalsOK
    <3> QED
      BY <3>1, <3>2, EpochGrows
  <2>3. ASSUME NEW j \in Keys
        PROVE  /\ box'[j].flagged \subseteq box'[j].present
               /\ \A v \in box'[j].present : <<j, box'[j].val, v>> \in arrived
    BY <1>4, RecreateBox DEF ArrivalsOK
  <2> QED
    BY <2>1, <2>2, <2>3 DEF ArrivalsOK
<1> QED
  BY <1>1, <1>2, <1>3, <1>4, BoxStep

\* What has left the mailbox does not come back.
LEMMA GoneStays ==
    ASSUME IInv, [Next]_vars, NEW m \in Msgs, Gone(m)
    PROVE  Gone(m)'
<1> TypeOK /\ ArrivalsOK
  BY DEF IInv
<1>1. m[1] \in Keys /\ m[2] \in Nat /\ m[3] \in Uids /\ m = <<m[1], m[2], m[3]>>
  BY BoundAssumption DEF Msgs
<1>2. m \in arrived /\ ~Live(m) /\ m[2] <= box[m[1]].val
  BY DEF Gone, ArrivalsOK
<1>3. CASE box' = box /\ arrived' = arrived
  BY <1>2, <1>3 DEF Gone, Live
<1>4. ASSUME NEW k \in Keys, NEW u \in Uids, Arrive(k, u) PROVE Gone(m)'
  <2>1. m \in arrived' /\ m # <<k, box[k].val, u>>
    BY <1>2, <1>4 DEF Arrive
  <2> QED
    BY <1>1, <1>2, <1>4, <2>1, ArriveBox DEF Gone, Live
<1>5. ASSUME NEW k \in Keys, FlaggedOnly(k) \/ ExpungedOnly(k) PROVE Gone(m)'
  <2>1. arrived' = arrived
    BY <1>5 DEF FlaggedOnly, ExpungedOnly
  <2> QED
    BY <1>1, <1>2, <1>5, <2>1, FlaggedBox, ExpungedBox DEF Gone, Live, ExpungedOnly
<1>6. ASSUME NEW k \in Keys, Recreate(k) PROVE Gone(m)'
  <2>1. arrived' = arrived
    BY <1>6 DEF Recreate
  <2>2. box[k].val \in Nat
    BY EpochGrows
  <2> QED
    BY <1>1, <1>2, <1>6, <2>1, <2>2, RecreateBox DEF Gone, Live
<1> QED
  BY <1>3, <1>4, <1>5, <1>6, BoxStep
\* A step of one process leaves the others where they are.
LEMMA OthersStay ==
    ASSUME TypeOK, NEW p \in Procs, Step(p) \/ Crash(p), NEW q \in Procs, q # p
    PROVE  /\ pc'[q] = pc[q] /\ acct'[q] = acct[q] /\ mem'[q] = mem[q]
           /\ sess'[q] = sess[q] /\ job'[q] = job[q]
<1> USE DEF TypeOK
<1>1. CASE Start(p) \/ Open(p)
  BY <1>1 DEF Start, Open, NextAccount
<1>2. CASE Prune(p) \/ Fetch(p)
  BY <1>2 DEF Prune, Fetch
<1>3. CASE Post(p)
  BY <1>3 DEF Post, Delivered
<1>4. CASE Clean(p) \/ Store(p)
  BY <1>4 DEF Clean, Store
<1>5. CASE Finish(p)
  BY <1>5 DEF Finish, NextAccount, Put
<1>6. CASE End(p) \/ Rename(p) \/ Crash(p)
  BY <1>6 DEF End, Rename, Crash, Exit
<1> QED
  BY <1>1, <1>2, <1>3, <1>4, <1>5, <1>6 DEF Step

LEMMA EnvironmentStays ==
    ASSUME Environment \/ UNCHANGED vars
    PROVE  UNCHANGED <<accepted, kept, disk, pc, acct, mem, sess, job, rc>>
BY DEF Environment, Arrive, OthersFlag, OthersExpunge, Recreate, vars

LEMMA HistoryGrows ==
    ASSUME IInv, [Next]_vars
    PROVE  arrived \subseteq arrived' /\ withdrawn \subseteq withdrawn' /\ kept \subseteq kept'
<1> TypeOK
  BY DEF IInv
<1>1. ASSUME NEW p \in Procs, Step(p) \/ Crash(p)
      PROVE  arrived' = arrived /\ withdrawn' = withdrawn /\ kept \subseteq kept'
  BY <1>1 DEF Step, Start, Open, Prune, Fetch, Post, Clean, Store, Finish, End, Rename, Crash
<1>2. CASE Environment \/ UNCHANGED vars
  BY <1>2 DEF Environment, Arrive, OthersFlag, OthersExpunge, Recreate, vars
<1> QED
  BY <1>1, <1>2 DEF Next

LEMMA AcceptedGrows ==
    ASSUME IInv, [Next]_vars, NEW m \in Msgs, accepted[m] > 0
    PROVE  accepted'[m] > 0
<1>1. accepted \in [Msgs -> 0..MaxAccepts]
  BY DEF IInv, TypeOK
<1>2. ASSUME NEW p \in Procs, Accept(p) PROVE accepted'[m] > 0
  BY <1>1, <1>2, BoundAssumption DEF Accept
<1>3. ASSUME NEW p \in Procs, Step(p) \/ Crash(p)
      PROVE  accepted' = accepted \/ Accept(p)
  BY <1>3 DEF Step, Start, Open, Prune, Fetch, Post, Clean, Store, Finish, End, Rename, Crash
<1>4. CASE Environment \/ UNCHANGED vars
  BY <1>4, EnvironmentStays
<1> QED
  BY <1>2, <1>3, <1>4 DEF Next

\* What a process in a session knows of its session after a step of its own.
LEMMA SessionKept ==
    ASSUME TypeOK, NEW p \in Procs,
           Prune(p) \/ Fetch(p) \/ Post(p) \/ Clean(p) \/ Store(p)
    PROVE  /\ acct'[p] = acct[p] /\ sess'[p].val = sess[p].val
           /\ sess'[p].todo \subseteq sess[p].todo
           /\ pc[p] \in InSession
           /\ arrived' = arrived
<1>1. sess \in [Procs -> Session]
  BY DEF TypeOK
<1>2. CASE Prune(p)
  BY <1>1, <1>2 DEF Prune, Fetchable, Batches, InSession, Session
<1>3. CASE Fetch(p)
  <2>1. PICK T \in {sess[p].todo \ {u} : u \in sess[p].todo} \cup {{}} :
           sess' = [sess EXCEPT ![p].todo = T]
    BY <1>3 DEF Fetch
  <2> QED
    BY <1>1, <1>3, <2>1 DEF Fetch, InSession, Session
<1>4. CASE Post(p)
  BY <1>4 DEF Post, InSession
<1>5. CASE Clean(p)
  BY <1>1, <1>5 DEF Clean, InSession, Session
<1>6. CASE Store(p)
  <2>1. sess' = [sess EXCEPT ![p].deleted = TRUE] \/ sess' = sess
    BY <1>6 DEF Store
  <2> QED
    BY <1>1, <1>6, <2>1 DEF Store, InSession, Session
<1> QED
  BY <1>2, <1>3, <1>4, <1>5, <1>6

\* The other steps of a process end outside a session, or begin one.
LEMMA SessionLeft ==
    ASSUME TypeOK, NEW p \in Procs,
           Start(p) \/ Finish(p) \/ End(p) \/ Rename(p) \/ Crash(p)
    PROVE  pc'[p] \notin InSession
BY DEF TypeOK, Start, Finish, NextAccount, End, Rename, Crash, Exit, InSession

LEMMA OpenSession ==
    ASSUME TypeOK, NEW p \in Procs, Open(p), pc'[p] \in InSession
    PROVE  \E cand \in Candidates(p) :
              /\ sess' = [sess EXCEPT ![p] = [val |-> box[Key(p)].val, todo |-> cand,
                                              processed |-> {}, deleted |-> FALSE]]
              /\ pc' = [pc EXCEPT ![p] = "prune"]
              /\ UNCHANGED <<acct, rc, faults>>
BY DEF Open, NextAccount, InSession, TypeOK

LEMMA SessionStep ==
    ASSUME IInv, [Next]_vars
    PROVE  SessionOK'
<1> TypeOK /\ ArrivalsOK /\ SessionOK
  BY DEF IInv
<1> arrived \subseteq arrived'
  BY HistoryGrows
<1> SUFFICES ASSUME NEW q \in Procs, pc'[q] \in InSession
             PROVE  \A u \in sess'[q].todo : <<Key(q)', sess'[q].val, u>> \in arrived'
  BY DEF SessionOK
<1>1. ASSUME pc'[q] = pc[q], acct'[q] = acct[q], sess'[q] = sess[q]
      PROVE  \A u \in sess'[q].todo : <<Key(q)', sess'[q].val, u>> \in arrived'
  BY <1>1 DEF SessionOK, Key
<1>2. CASE Environment \/ UNCHANGED vars
  BY <1>1, <1>2, EnvironmentStays
<1>3. ASSUME NEW p \in Procs, Step(p) \/ Crash(p), q # p
      PROVE  \A u \in sess'[q].todo : <<Key(q)', sess'[q].val, u>> \in arrived'
  BY <1>1, <1>3, OthersStay
<1>4. CASE Prune(q) \/ Fetch(q) \/ Post(q) \/ Clean(q) \/ Store(q)
  BY <1>4, SessionKept DEF SessionOK, Key
<1>5. CASE Open(q)
  <2>1. PICK cand \in Candidates(q) :
           /\ sess' = [sess EXCEPT ![q] = [val |-> box[Key(q)].val, todo |-> cand,
                                           processed |-> {}, deleted |-> FALSE]]
           /\ acct' = acct
    BY <1>5, OpenSession
  <2>2. sess'[q].val = box[Key(q)].val /\ sess'[q].todo = cand
    BY <2>1 DEF TypeOK
  <2>3. Key(q)' = Key(q) /\ Key(q) \in Keys
    BY <2>1, KeyType DEF Key
  <2>4. cand \subseteq box[Key(q)].present
    BY DEF Candidates
  <2> QED
    BY <2>2, <2>3, <2>4 DEF ArrivalsOK
<1> QED
  BY <1>2, <1>3, <1>4, <1>5, SessionLeft DEF Next, Step

LEMMA InHandStays ==
    ASSUME TypeOK, NEW p \in Procs, Post(p) \/ Clean(p), pc'[p] \in HasJob
    PROVE  InHand(p)' = InHand(p) /\ job'[p].full = job[p].full /\ pc[p] \in HasJob
<1>1. acct'[p] = acct[p] /\ sess'[p].val = sess[p].val
  BY SessionKept
<1>2. job \in [Procs -> Job]
  BY DEF TypeOK
<1>3. job'[p].uid = job[p].uid /\ job'[p].full = job[p].full /\ pc[p] \in HasJob
  <2>1. CASE Post(p)
    <3>1. PICK d \in BOOLEAN : job' = [job EXCEPT ![p].delivered = d]
      BY <2>1 DEF Post, Delivered
    <3> QED
      BY <1>2, <2>1, <3>1 DEF Job, Post, HasJob
  <2>2. CASE Clean(p)
    BY <2>2 DEF Clean, HasJob, TypeOK
  <2> QED
    BY <2>1, <2>2
<1> QED
  BY <1>1, <1>3 DEF InHand, Key

LEMMA FetchedJob ==
    ASSUME IInv, NEW p \in Procs, Fetch(p), pc'[p] \in HasJob
    PROVE  /\ InHand(p)' \in arrived'
           /\ job'[p].full \/ Gone(InHand(p))'
<1> TypeOK /\ SessionOK /\ pc[p] = "fetch"
  BY DEF IInv, Fetch
<1>1. PICK u \in sess[p].todo :
         /\ CommandWorks(p)
         /\ job' = [job EXCEPT ![p] = [uid |-> u, delivered |-> FALSE,
                                       full |-> u \in box[Key(p)].present]]
  BY DEF Fetch, HasJob
<1>2. job'[p].uid = u /\ job'[p].full = (u \in box[Key(p)].present)
  BY <1>1 DEF TypeOK
<1>3. acct'[p] = acct[p] /\ sess'[p].val = sess[p].val /\ arrived' = arrived
  BY SessionKept
<1>4. InHand(p)' = <<Key(p), sess[p].val, u>>
  BY <1>2, <1>3 DEF InHand, Key
<1>5. <<Key(p), sess[p].val, u>> \in arrived
  BY DEF SessionOK, InSession
<1>6. box' = box
  BY DEF Fetch
<1>7. Gone(InHand(p))' = (InHand(p)' \in arrived /\ ~(sess[p].val = box[Key(p)].val
                                                    /\ u \in box[Key(p)].present))
  BY <1>3, <1>4, <1>6 DEF Gone, Live
<1> QED
  BY <1>2, <1>3, <1>4, <1>5, <1>7

LEMMA JobStep ==
    ASSUME IInv, [Next]_vars
    PROVE  JobOK'
<1> TypeOK /\ JobOK
  BY DEF IInv
<1> DEFINE Fine(q) == InHand(q) \in arrived /\ (job[q].full \/ Gone(InHand(q)))
<1> SUFFICES ASSUME NEW q \in Procs, pc'[q] \in HasJob
             PROVE  Fine(q)'
  BY DEF JobOK
<1>1. ASSUME pc[q] \in HasJob, InHand(q)' = InHand(q), job'[q].full = job[q].full
      PROVE  Fine(q)'
  <2>1. InHand(q) \in arrived /\ InHand(q) \in Msgs
    BY <1>1 DEF JobOK, TypeOK
  <2>2. job[q].full \/ Gone(InHand(q))
    BY <1>1 DEF JobOK
  <2>3. Gone(InHand(q)) => Gone(InHand(q))'
    BY <1>1, <2>1, GoneStays DEF Gone, Live
  <2> QED
    BY <1>1, <2>1, <2>2, <2>3, HistoryGrows
<1>2. CASE Environment \/ UNCHANGED vars
  BY <1>1, <1>2, EnvironmentStays DEF InHand, Key
<1>3. ASSUME NEW p \in Procs, Step(p) \/ Crash(p), q # p
      PROVE  Fine(q)'
  BY <1>1, <1>3, OthersStay DEF InHand, Key
<1>4. CASE Post(q) \/ Clean(q)
  BY <1>1, <1>4, InHandStays
<1>5. CASE Fetch(q)
  BY <1>5, FetchedJob
<1>6. ASSUME Start(q) \/ Open(q) \/ Prune(q) \/ Store(q) \/ Finish(q) \/ End(q) \/ Rename(q) \/ Crash(q)
      PROVE  pc'[q] \notin HasJob
  BY <1>6 DEF TypeOK, Start, Open, Prune, Store, Finish, NextAccount, End, Rename, Crash,
     Exit, HasJob
<1> QED
  BY <1>2, <1>3, <1>4, <1>5, <1>6 DEF Next, Step

LEMMA IInvInit == Init => IInv
<1> SUFFICES ASSUME Init PROVE IInv
  OBVIOUS
<1>1. TypeOK
  BY InitTypeOK
<1>2. ArrivalsOK
  BY DEF Init, ArrivalsOK
<1>3. SessionOK /\ JobOK
  BY DEF Init, SessionOK, JobOK, InSession, HasJob
<1> QED
  BY <1>1, <1>2, <1>3 DEF IInv

THEOREM IInvHolds == Spec => []IInv
<1>1. IInv /\ [Next]_vars => IInv'
  BY TypeStep, ArrivalsStep, SessionStep, JobStep DEF IInv
<1> QED
  BY IInvInit, <1>1, PTL DEF Spec

\* Every variable keeps its type, whatever the faults and the interleaving.
THEOREM TypeCorrect == Spec => []TypeOK
<1>1. IInv => TypeOK
  BY DEF IInv
<1> QED
  BY <1>1, IInvHolds, PTL

(***************************************************************************)
(* No message is lost                                                      *)
(***************************************************************************)

\* A reply that reads as a delivery comes from a backend that took the message.
HonestReplies == "hollow" \notin Faults /\ ~DebugParse

\* super_clean does not remove the file of a message max_pop3_delete deletes.
Careful == HonestReplies /\ ~(SuperClean /\ MaxDelete)

\* A message that may leave the server: without max_pop3_delete only a delivery
\* counts, with it a saved file does too.
Secured(m) == accepted[m] > 0 \/ (MaxDelete /\ m \in kept)

DeliveredOK ==
    \A p \in Procs : pc[p] = "clean" /\ job[p].delivered /\ job[p].full
                        => accepted[InHand(p)] > 0

StoreOK ==
    \A p \in Procs : pc[p] = "store" => Secured(InHand(p)) \/ Gone(InHand(p))

FlagOK ==
    \A k \in Keys : \A u \in box[k].flagged :
        LET m == <<k, box[k].val, u>> IN m \in withdrawn \/ Secured(m)

GoneOK == \A m \in arrived : Gone(m) => m \in withdrawn \/ Secured(m)

SafeInv == StoreOK /\ FlagOK /\ GoneOK

LEMMA SecuredStays ==
    ASSUME IInv, [Next]_vars, NEW m \in Msgs, Secured(m)
    PROVE  Secured(m)'
BY AcceptedGrows, HistoryGrows DEF Secured

LEMMA DeliveredStep ==
    ASSUME IInv, DeliveredOK, HonestReplies, [Next]_vars
    PROVE  DeliveredOK'
<1> TypeOK /\ JobOK
  BY DEF IInv
<1> SUFFICES ASSUME NEW q \in Procs,
                    pc'[q] = "clean", job'[q].delivered, job'[q].full
             PROVE  accepted'[InHand(q)'] > 0
  BY DEF DeliveredOK
<1>1. ASSUME pc[q] = "clean", job[q] = job'[q], InHand(q)' = InHand(q)
      PROVE  accepted'[InHand(q)'] > 0
  <2>1. InHand(q) \in Msgs
    BY <1>1 DEF JobOK, HasJob, TypeOK
  <2>2. accepted[InHand(q)] > 0
    BY <1>1 DEF DeliveredOK
  <2> QED
    BY <1>1, <2>1, <2>2, AcceptedGrows
<1>2. CASE Environment \/ UNCHANGED vars
  BY <1>1, <1>2, EnvironmentStays DEF InHand, Key
<1>3. ASSUME NEW p \in Procs, Step(p) \/ Crash(p), q # p
      PROVE  accepted'[InHand(q)'] > 0
  BY <1>1, <1>3, OthersStay DEF InHand, Key
<1>4. CASE Post(q)
  <2>1. InHand(q)' = InHand(q) /\ job'[q].full = job[q].full /\ pc[q] \in HasJob
    BY <1>4, InHandStays DEF HasJob
  <2>2. InHand(q) \in Msgs
    BY <2>1 DEF JobOK, TypeOK
  <2>3. job \in [Procs -> Job] /\ accepted \in [Msgs -> 0..MaxAccepts]
    BY DEF TypeOK
  <2>4. ~Delivered(q, FALSE)
    BY <2>3 DEF Delivered, Job
  <2>5. Accept(q)
    BY <1>4, <2>4 DEF Post, HonestReplies, Fault
  <2> QED
    BY <2>1, <2>2, <2>3, <2>5, BoundAssumption DEF Accept
<1>5. ASSUME Start(q) \/ Open(q) \/ Prune(q) \/ Fetch(q) \/ Clean(q) \/ Store(q)
               \/ Finish(q) \/ End(q) \/ Rename(q) \/ Crash(q)
      PROVE  pc'[q] # "clean"
  BY <1>5 DEF TypeOK, Start, Open, Prune, Fetch, Clean, Store, Finish, NextAccount,
     End, Rename, Crash, Exit
<1> QED
  BY <1>2, <1>3, <1>4, <1>5 DEF Next, Step

LEMMA StoreStep ==
    ASSUME IInv, DeliveredOK, StoreOK, Careful, [Next]_vars
    PROVE  StoreOK'
<1> TypeOK /\ JobOK
  BY DEF IInv
<1> SUFFICES ASSUME NEW q \in Procs, pc'[q] = "store"
             PROVE  Secured(InHand(q))' \/ Gone(InHand(q))'
  BY DEF StoreOK
<1>1. ASSUME pc[q] = "store", InHand(q)' = InHand(q)
      PROVE  Secured(InHand(q))' \/ Gone(InHand(q))'
  <2>1. InHand(q) \in Msgs
    BY <1>1 DEF JobOK, HasJob, TypeOK
  <2>2. Secured(InHand(q)) \/ Gone(InHand(q))
    BY <1>1 DEF StoreOK
  <2>3. DEFINE m == InHand(q)
  <2>4. (Secured(m) => accepted'[m] > 0 \/ (MaxDelete /\ m \in kept'))
    BY <2>1, SecuredStays DEF Secured
  <2>5. Gone(m) => m \in arrived' /\ ~(m[2] = box'[m[1]].val /\ m[3] \in box'[m[1]].present)
    BY <2>1, GoneStays DEF Gone, Live
  <2> QED
    BY <1>1, <2>2, <2>4, <2>5 DEF Secured, Gone, Live
<1>2. CASE Environment \/ UNCHANGED vars
  BY <1>1, <1>2, EnvironmentStays DEF InHand, Key
<1>3. ASSUME NEW p \in Procs, Step(p) \/ Crash(p), q # p
      PROVE  Secured(InHand(q))' \/ Gone(InHand(q))'
  BY <1>1, <1>3, OthersStay DEF InHand, Key
<1>4. CASE Clean(q)
  <2>1. InHand(q)' = InHand(q) /\ job'[q].full = job[q].full /\ pc[q] \in HasJob
    BY <1>4, InHandStays DEF HasJob
  <2>2. InHand(q) \in Msgs
    BY <2>1 DEF JobOK, TypeOK
  <2>3. MaxDelete \/ job[q].delivered
    BY <1>4 DEF Clean, Deletes, TypeOK
  <2>4. CASE ~job[q].full
    <3>1. Gone(InHand(q))
      BY <2>1, <2>4 DEF JobOK
    <3>2. box' = box /\ arrived' = arrived
      BY <1>4 DEF Clean
    <3> QED
      BY <2>1, <3>1, <3>2 DEF Gone, Live
  <2>5. CASE job[q].full /\ job[q].delivered
    <3>1. accepted[InHand(q)] > 0 /\ accepted' = accepted
      BY <1>4, <2>5 DEF Clean, DeliveredOK
    <3> QED
      BY <2>1, <3>1 DEF Secured
  <2>6. CASE job[q].full /\ ~job[q].delivered
    <3>1. MaxDelete /\ ~SuperClean
      BY <2>3, <2>6 DEF Careful
    <3>2. kept' = kept \cup {InHand(q)}
      BY <1>4, <2>6, <3>1 DEF Clean, LeavesFile
    <3> QED
      BY <2>1, <3>1, <3>2 DEF Secured
  <2> QED
    BY <2>4, <2>5, <2>6
<1>5. ASSUME Start(q) \/ Open(q) \/ Prune(q) \/ Fetch(q) \/ Post(q) \/ Store(q)
               \/ Finish(q) \/ End(q) \/ Rename(q) \/ Crash(q)
      PROVE  pc'[q] # "store"
  BY <1>5 DEF TypeOK, Start, Open, Prune, Fetch, Post, Store, Finish, NextAccount,
     End, Rename, Crash, Exit
<1> QED
  BY <1>2, <1>3, <1>4, <1>5 DEF Next, Step

\* The message may be missing from the mailbox in the next state.
SafeAfter(m) == m \in withdrawn' \/ accepted'[m] > 0 \/ (MaxDelete /\ m \in kept')

LEMMA FlagStep ==
    ASSUME IInv, StoreOK, FlagOK, [Next]_vars
    PROVE  FlagOK'
<1> TypeOK /\ ArrivalsOK
  BY DEF IInv
<1> SUFFICES ASSUME NEW j \in Keys, NEW v \in box'[j].flagged
             PROVE  SafeAfter(<<j, box'[j].val, v>>)
  BY DEF FlagOK, Secured, SafeAfter
<1>1. ASSUME v \in box[j].flagged, box'[j].val = box[j].val
      PROVE  SafeAfter(<<j, box'[j].val, v>>)
  <2> DEFINE m == <<j, box[j].val, v>>
  <2>1. m \in withdrawn \/ Secured(m)
    BY <1>1 DEF FlagOK
  <2>2. m \in Msgs
    BY <1>1 DEF ArrivalsOK, TypeOK
  <2> QED
    BY <1>1, <2>1, <2>2, SecuredStays, HistoryGrows DEF Secured, SafeAfter
<1>2. CASE box' = box
  BY <1>1, <1>2
<1>3. ASSUME NEW p \in Procs, Store(p), Flagged(p), box' # box
      PROVE  SafeAfter(<<j, box'[j].val, v>>)
  <2>1. Key(p) \in Keys /\ box \in [Keys -> Mailbox]
    BY KeyType DEF TypeOK
  <2>2. ~Stale(p)
    BY <1>3 DEF Store, CommandWorks
  <2>3. box'[j].val = box[j].val
    BY <1>3, <2>1 DEF Flagged, Mailbox
  <2>4. v \in box[j].flagged \/ (j = Key(p) /\ v = job[p].uid /\ v \in box[j].present)
    BY <1>3, <2>1 DEF Flagged, Mailbox
  <2>5. CASE v \in box[j].flagged
    BY <1>1, <2>3, <2>5
  <2>6. CASE j = Key(p) /\ v = job[p].uid /\ v \in box[j].present
    <3>1. InHand(p) = <<j, box[j].val, v>>
      BY <2>2, <2>6 DEF InHand, Stale
    <3>2. <<j, box[j].val, v>> \in Msgs
      BY <2>6 DEF ArrivalsOK, TypeOK
    <3>3. ~Gone(InHand(p))
      BY <2>6, <3>1 DEF Gone, Live
    <3>4. Secured(<<j, box[j].val, v>>)
      BY <1>3, <3>1, <3>3 DEF StoreOK, Store
    <3> QED
      BY <2>3, <3>2, <3>4, SecuredStays DEF Secured, SafeAfter
  <2> QED
    BY <2>4, <2>5, <2>6
<1>4. ASSUME NEW k \in Keys, NEW u \in Uids, OthersFlag(k, u)
      PROVE  SafeAfter(<<j, box'[j].val, v>>)
  <2>1. box'[j].val = box[j].val
          /\ (v \in box[j].flagged \/ (j = k /\ v = u))
    BY <1>4 DEF OthersFlag, TypeOK, Mailbox
  <2> QED
    BY <1>1, <1>4, <2>1 DEF OthersFlag, SafeAfter
<1>5. ASSUME NEW k \in Keys,
             ExpungedOnly(k) \/ Recreate(k) \/ \E u \in Uids : Arrive(k, u)
      PROVE  SafeAfter(<<j, box'[j].val, v>>)
  <2>1. v \in box[j].flagged /\ box'[j].val = box[j].val
    BY <1>5, ExpungedBox, RecreateBox, ArriveBox DEF ExpungedOnly
  <2> QED
    BY <1>1, <2>1
<1>6. CASE UNCHANGED vars
  BY <1>2, <1>6 DEF vars
<1>7. CASE Environment
  BY <1>4, <1>5, <1>7 DEF Environment, OthersExpunge, ExpungedOnly
<1>8. ASSUME NEW p \in Procs, Step(p) \/ Crash(p)
      PROVE  \/ box' = box
             \/ Store(p) /\ Flagged(p)
             \/ Finish(p) /\ ExpungedOnly(Key(p))
  BY <1>8 DEF Step, Start, Open, Prune, Fetch, Post, Clean, Store, Finish, End, Rename, Crash,
     ExpungedOnly
<1> QED
  BY <1>2, <1>3, <1>5, <1>6, <1>7, <1>8, KeyType DEF Next

LEMMA GoneStep ==
    ASSUME IInv, FlagOK, GoneOK, [Next]_vars
    PROVE  GoneOK'
<1> TypeOK /\ ArrivalsOK /\ TypeOK'
  BY TypeStep DEF IInv
<1> SUFFICES ASSUME NEW m \in arrived', Gone(m)'
             PROVE  m \in withdrawn' \/ Secured(m)'
  BY DEF GoneOK
<1>1. m \in Msgs
  BY DEF TypeOK
<1>2. ASSUME m \in withdrawn \/ Secured(m) PROVE m \in withdrawn' \/ Secured(m)'
  BY <1>1, <1>2, SecuredStays, HistoryGrows
<1>3. CASE Gone(m)
  <2>1. m \in arrived
    BY <1>3 DEF Gone
  <2> QED
    BY <1>2, <1>3, <2>1 DEF GoneOK
<1>4. CASE ~Gone(m)
  <2>1. m[1] \in Keys /\ m = <<m[1], m[2], m[3]>>
    BY <1>1 DEF Msgs
  <2>2. m \in arrived => m[2] = box[m[1]].val /\ m[3] \in box[m[1]].present
    BY <1>4 DEF Gone, Live
  <2>3. ~(m[2] = box'[m[1]].val /\ m[3] \in box'[m[1]].present)
    BY DEF Gone, Live
  <2>4. CASE box' = box /\ arrived' = arrived
    BY <2>2, <2>3, <2>4
  <2>5. ASSUME NEW k \in Keys, NEW u \in Uids, Arrive(k, u) PROVE FALSE
    <3>1. m \in arrived \/ m = <<k, box[k].val, u>>
      BY <2>5 DEF Arrive
    <3>2. CASE m \in arrived
      BY <2>1, <2>2, <2>3, <2>5, <3>2, ArriveBox
    <3>3. CASE m = <<k, box[k].val, u>>
      <4>1. m[1] = k /\ m[2] = box[k].val /\ m[3] = u
        BY <3>3
      <4> QED
        BY <2>3, <2>5, <4>1, ArriveBox
    <3> QED
      BY <3>1, <3>2, <3>3
  <2>6. ASSUME NEW k \in Keys, FlaggedOnly(k) PROVE FALSE
    BY <2>1, <2>2, <2>3, <2>6, FlaggedBox DEF FlaggedOnly
  <2>7. ASSUME NEW k \in Keys, ExpungedOnly(k) PROVE m \in withdrawn' \/ Secured(m)'
    <3>1. m \in arrived
      BY <2>7 DEF ExpungedOnly
    <3>2. m[1] = k /\ m[3] \in box[k].flagged
      BY <2>1, <2>2, <2>3, <2>7, <3>1, ExpungedBox DEF ExpungedOnly
    <3> QED
      BY <1>2, <2>1, <2>2, <3>1, <3>2 DEF FlagOK
  <2>8. ASSUME NEW k \in Keys, Recreate(k) PROVE m \in withdrawn'
    <3>1. m \in arrived
      BY <2>8 DEF Recreate
    <3>2. m[1] = k
      BY <2>1, <2>2, <2>3, <2>8, <3>1, RecreateBox
    <3>3. m = <<k, box[k].val, m[3]>> /\ m[3] \in box[k].present
      BY <2>1, <2>2, <3>1, <3>2
    <3> QED
      BY <2>8, <3>3 DEF Recreate
  <2> QED
    BY <2>4, <2>5, <2>6, <2>7, <2>8, BoxStep
<1> QED
  BY <1>3, <1>4

LEMMA SafeStep ==
    ASSUME IInv, DeliveredOK, SafeInv, Careful, [Next]_vars
    PROVE  SafeInv'
BY StoreStep, FlagStep, GoneStep DEF SafeInv

LEMMA SafeInit == Init => DeliveredOK /\ SafeInv
BY DEF Init, DeliveredOK, SafeInv, StoreOK, FlagOK, GoneOK

\* A message that is treated as delivered was accepted: with honest replies the
\* violation that an HTTP error with an empty body causes cannot happen.
THEOREM DeliveredTheorem == Spec => [](HonestReplies => DeliveredMeansAccepted)
<1>1. Init => (HonestReplies => DeliveredOK)
  BY SafeInit
<1>2. IInv /\ (HonestReplies => DeliveredOK) /\ [Next]_vars => (HonestReplies => DeliveredOK)'
  BY DeliveredStep DEF HonestReplies
<1>3. (HonestReplies => DeliveredOK) => (HonestReplies => DeliveredMeansAccepted)
  BY DEF DeliveredOK, DeliveredMeansAccepted
<1> QED
  BY <1>1, <1>2, <1>3, IInvHolds, PTL DEF Spec

LEMMA CarefulInv ==
    Spec => [](Careful => DeliveredOK /\ SafeInv)
<1> DEFINE Inv == Careful => DeliveredOK /\ SafeInv
<1>1. Init => Inv
  BY SafeInit
<1>2. IInv /\ Inv /\ [Next]_vars => Inv'
  <2> SUFFICES ASSUME IInv, Inv, [Next]_vars, Careful PROVE DeliveredOK' /\ SafeInv'
    BY DEF Careful, HonestReplies
  <2>1. HonestReplies
    BY DEF Careful
  <2> QED
    BY <2>1, DeliveredStep, SafeStep
<1> HIDE DEF Inv
<1>3. Spec => []Inv
  BY <1>1, <1>2, IInvHolds, PTL DEF Spec
<1> QED
  BY <1>3 DEF Inv

\* A message that has left the mailbox, other than by the will of another client,
\* is in the backend or in a saved file.
THEOREM NoLossTheorem == Spec => [](Careful => NoLoss)
<1>1. (Careful => DeliveredOK /\ SafeInv) => (Careful => NoLoss)
  BY DEF SafeInv, GoneOK, NoLoss, Secured
<1> QED
  BY <1>1, CarefulInv, PTL

\* Without max_pop3_delete the program flags and removes delivered messages only,
\* with super_clean or without it.
THEOREM OnlyDeliveredTheorem == Spec => [](HonestReplies => OnlyDeliveredAreDeleted)
<1>1. ASSUME HonestReplies, ~MaxDelete PROVE Careful
  BY <1>1 DEF Careful
<1>2. IInv /\ (Careful => DeliveredOK /\ SafeInv)
        => (HonestReplies => OnlyDeliveredAreDeleted)
  <2> SUFFICES ASSUME IInv, SafeInv, ~MaxDelete,
                      NEW m \in arrived \ withdrawn,
                      Gone(m) \/ (Live(m) /\ m[3] \in box[m[1]].flagged)
               PROVE  accepted[m] > 0
    BY <1>1 DEF OnlyDeliveredAreDeleted
  <2>1. CASE Gone(m)
    BY <2>1 DEF SafeInv, GoneOK, Secured
  <2>2. CASE Live(m) /\ m[3] \in box[m[1]].flagged
    <3>1. m[1] \in Keys /\ m = <<m[1], m[2], m[3]>>
      BY DEF IInv, TypeOK, Msgs
    <3>2. m = <<m[1], box[m[1]].val, m[3]>>
      BY <2>2, <3>1 DEF Live
    <3> QED
      BY <2>2, <3>1, <3>2 DEF SafeInv, FlagOK, Secured
  <2> QED
    BY <2>1, <2>2
<1> QED
  BY <1>2, IInvHolds, CarefulInv, PTL

(***************************************************************************)
(* Nothing is skipped                                                      *)
(***************************************************************************)

\* Whatever is recorded, in the state file, by a run, or in a session, is in S.
StateIn(st, S) == \A k \in Keys : \A u \in st[k].uids : <<k, st[k].val, u>> \in S

RecordsIn(S) ==
    /\ StateIn(disk, S)
    /\ \A p \in Procs : StateIn(mem[p], S)
    /\ \A p \in Procs : pc[p] \in InSession =>
          \A u \in sess[p].processed : <<Key(p), sess[p].val, u>> \in S

\* Messages whose record cannot make a run skip them wrongly.
Backed == {m \in arrived : accepted[m] > 0 \/ ~Live(m)}

RecordOK == RecordsIn(Backed)

LEMMA EmptyStateIn == ASSUME NEW S PROVE StateIn(EmptyState, S)
BY DEF EmptyState, StateIn

LEMMA SavedStep ==
    ASSUME IInv, NEW S, RecordsIn(S), [Next]_vars
    PROVE  StateIn(disk', S)
<1>1. ASSUME NEW p \in Procs, Step(p) \/ Crash(p) PROVE disk' = disk \/ disk' = mem[p]
  BY <1>1 DEF Step, Start, Open, Prune, Fetch, Post, Clean, Store, Finish, End, Rename, Crash
<1> QED
  BY <1>1, EnvironmentStays DEF Next, RecordsIn

LEMMA LoadedStep ==
    ASSUME IInv, NEW S, RecordsIn(S), [Next]_vars, NEW q \in Procs
    PROVE  StateIn(mem'[q], S)
<1> TypeOK
  BY DEF IInv
<1>1. CASE mem'[q] \in {mem[q], disk, EmptyState}
  BY <1>1, EmptyStateIn DEF RecordsIn
<1>2. CASE Finish(q) /\ StateFile
  <2> DEFINE entry == [val |-> sess[q].val, uids |-> sess[q].processed]
  <2>1. Key(q) \in Keys /\ mem \in [Procs -> [Keys -> Entry]]
    BY KeyType DEF TypeOK
  <2>2. mem' = [mem EXCEPT ![q] = [mem[q] EXCEPT ![Key(q)] = entry]]
    BY <1>2 DEF Finish, Put
  <2>3. mem'[q] = [mem[q] EXCEPT ![Key(q)] = entry]
    BY <2>1, <2>2
  <2>4. ASSUME NEW k \in Keys, NEW u \in mem'[q][k].uids, k # Key(q)
        PROVE  <<k, mem'[q][k].val, u>> \in S
    <3>1. mem'[q][k] = mem[q][k]
      BY <2>1, <2>3, <2>4
    <3> QED
      BY <2>4, <3>1 DEF RecordsIn, StateIn
  <2>5. ASSUME NEW u \in mem'[q][Key(q)].uids
        PROVE  <<Key(q), mem'[q][Key(q)].val, u>> \in S
    <3>1. mem'[q][Key(q)] = entry
      BY <2>1, <2>3
    <3>2. u \in sess[q].processed /\ pc[q] \in InSession
      BY <1>2, <2>5, <3>1 DEF Finish, InSession
    <3> QED
      BY <3>1, <3>2 DEF RecordsIn
  <2> QED
    BY <2>4, <2>5 DEF StateIn
<1>3. ASSUME NEW p \in Procs, Step(p) \/ Crash(p)
      PROVE  StateIn(mem'[q], S)
  <2>1. CASE p # q
    BY <1>1, <1>3, <2>1, OthersStay
  <2>2. CASE p = q
    BY <1>1, <1>2, <1>3, <2>2
       DEF TypeOK, Step, Start, Open, Prune, Fetch, Post, Clean, Store, Finish, Put,
           End, Rename, Crash, Exit
  <2> QED
    BY <2>1, <2>2
<1> QED
  BY <1>1, <1>3, EnvironmentStays DEF Next

\* A session adds to what was recorded only the messages it has delivered.
LEMMA ProcessedStep ==
    ASSUME IInv, NEW S, RecordsIn(S), [Next]_vars,
           NEW q \in Procs, pc'[q] \in InSession, NEW u \in sess'[q].processed,
           Clean(q) /\ job[q].delivered => InHand(q) \in S
    PROVE  <<KeyOf[acct'[q]], sess'[q].val, u>> \in S
<1> TypeOK
  BY DEF IInv
<1> sess \in [Procs -> Session]
  BY DEF TypeOK
<1>1. ASSUME pc[q] \in InSession, u \in sess[q].processed,
             acct'[q] = acct[q], sess'[q].val = sess[q].val
      PROVE  <<KeyOf[acct'[q]], sess'[q].val, u>> \in S
  BY <1>1 DEF RecordsIn, Key
<1>2. CASE Environment \/ UNCHANGED vars
  BY <1>1, <1>2, EnvironmentStays
<1>3. ASSUME NEW p \in Procs, Step(p) \/ Crash(p), q # p
      PROVE  <<KeyOf[acct'[q]], sess'[q].val, u>> \in S
  BY <1>1, <1>3, OthersStay
<1>4. CASE Prune(q)
  <2>1. PICK A, batch : sess' = [sess EXCEPT ![q].processed = Carried(q, A),
                                             ![q].todo = batch]
    BY <1>4 DEF Prune
  <2>2. u \in Processed(q)
    BY <2>1 DEF Carried, Session
  <2>3. u \in mem[q][Key(q)].uids /\ mem[q][Key(q)].val = sess[q].val
    BY <2>2 DEF Processed
  <2>4. <<Key(q), sess[q].val, u>> \in S
    BY <2>3, KeyType DEF RecordsIn, StateIn
  <2> QED
    BY <1>4, <2>4, SessionKept DEF Key
<1>5. CASE Fetch(q) \/ Post(q) \/ Store(q)
  <2>1. sess'[q].processed = sess[q].processed
    <3>1. CASE Fetch(q)
      <4>1. PICK T : sess' = [sess EXCEPT ![q].todo = T]
        BY <3>1 DEF Fetch
      <4> QED
        BY <4>1 DEF Session
    <3>2. CASE Post(q)
      BY <3>2 DEF Post
    <3>3. CASE Store(q)
      <4>1. sess' = [sess EXCEPT ![q].deleted = TRUE] \/ sess' = sess
        BY <3>3 DEF Store
      <4> QED
        BY <4>1 DEF Session
    <3> QED
      BY <1>5, <3>1, <3>2, <3>3
  <2> QED
    BY <1>1, <1>5, <2>1, SessionKept
<1>6. CASE Clean(q)
  <2>1. acct'[q] = acct[q] /\ sess'[q].val = sess[q].val /\ pc[q] \in InSession
    BY <1>6, SessionKept
  <2>2. sess'[q].processed = Recorded(q)
    BY <1>6 DEF Clean, Session
  <2>3. u \in sess[q].processed \/ (u = job[q].uid /\ job[q].delivered)
    BY <2>2 DEF Recorded
  <2>4. CASE u = job[q].uid /\ job[q].delivered
    <3>1. InHand(q) = <<KeyOf[acct'[q]], sess'[q].val, u>>
      BY <2>1, <2>4 DEF InHand, Key
    <3> QED
      BY <1>6, <2>4, <3>1
  <2> QED
    BY <1>1, <2>1, <2>3, <2>4
<1>7. CASE Open(q)
  <2>1. PICK cand :
           sess' = [sess EXCEPT ![q] = [val |-> box[Key(q)].val, todo |-> cand,
                                        processed |-> {}, deleted |-> FALSE]]
    BY <1>7, OpenSession
  <2> QED
    BY <2>1
<1> QED
  BY <1>2, <1>3, <1>4, <1>5, <1>6, <1>7, SessionLeft DEF Next, Step

LEMMA RecordsStep ==
    ASSUME IInv, NEW S, RecordsIn(S), [Next]_vars,
           \A q \in Procs : Clean(q) /\ job[q].delivered => InHand(q) \in S
    PROVE  /\ StateIn(disk', S)
           /\ \A q \in Procs : StateIn(mem'[q], S)
           /\ \A q \in Procs : pc'[q] \in InSession =>
                 \A u \in sess'[q].processed : <<KeyOf[acct'[q]], sess'[q].val, u>> \in S
BY SavedStep, LoadedStep, ProcessedStep

LEMMA BackedStays ==
    ASSUME IInv, [Next]_vars
    PROVE  Backed \subseteq Backed'
<1> SUFFICES ASSUME NEW m \in Backed PROVE m \in Backed'
  OBVIOUS
<1>1. m \in arrived /\ m \in Msgs
  BY DEF Backed, IInv, TypeOK
<1>2. m \in arrived'
  BY <1>1, HistoryGrows
<1>3. accepted[m] > 0 => accepted'[m] > 0
  BY <1>1, AcceptedGrows
<1>4. ~Live(m) => Gone(m)'
  BY <1>1, GoneStays DEF Gone
<1> QED
  BY <1>2, <1>3, <1>4 DEF Backed, Gone

LEMMA RecordStep ==
    ASSUME IInv, DeliveredOK, RecordOK, [Next]_vars
    PROVE  RecordOK'
<1>1. ASSUME NEW q \in Procs, Clean(q), job[q].delivered PROVE InHand(q) \in Backed
  BY <1>1 DEF Clean, IInv, JobOK, HasJob, DeliveredOK, Backed, Gone
<1>2. /\ StateIn(disk', Backed)
      /\ \A q \in Procs : StateIn(mem'[q], Backed)
      /\ \A q \in Procs : pc'[q] \in InSession =>
            \A u \in sess'[q].processed : <<KeyOf[acct'[q]], sess'[q].val, u>> \in Backed
  BY <1>1, RecordsStep DEF RecordOK
<1> HIDE DEF Backed
<1> QED
  BY <1>2, BackedStays DEF RecordOK, RecordsIn, StateIn, Key

\* A UID in the state file, recorded under the epoch of its entry, belongs to a
\* message that was accepted or has left the mailbox: the dedup never skips a
\* message the backend does not have, for overlapping runs too.
THEOREM DedupTheorem == Spec => [](HonestReplies => DedupSound)
<1> DEFINE Inv == HonestReplies => DeliveredOK /\ RecordOK
<1>1. Init => Inv
  BY SafeInit, EmptyStateIn DEF Init, RecordOK, RecordsIn, InSession
<1>2. IInv /\ Inv /\ [Next]_vars => Inv'
  <2> SUFFICES ASSUME IInv, Inv, [Next]_vars, HonestReplies
               PROVE  DeliveredOK' /\ RecordOK'
    BY DEF HonestReplies
  <2> QED
    BY DeliveredStep, RecordStep
<1>3. Inv => (HonestReplies => DedupSound)
  BY DEF RecordOK, RecordsIn, StateIn, Backed, DedupSound, Gone
<1> HIDE DEF Inv
<1> QED
  BY <1>1, <1>2, <1>3, IInvHolds, PTL DEF Spec

(***************************************************************************)
(* IMAP mode implements MailCustody                                        *)
(***************************************************************************)

Files == kept \cup Held

\* Nothing is saved, accepted or withdrawn of a message that has not arrived.
KnownOK == kept \cup withdrawn \cup {m \in Msgs : accepted[m] > 0} \subseteq arrived

CustodyInv == IInv /\ SafeInv /\ KnownOK

LEMMA KnownStep ==
    ASSUME IInv, KnownOK, [Next]_vars
    PROVE  KnownOK'
<1> TypeOK /\ JobOK /\ ArrivalsOK
  BY DEF IInv
<1>1. ASSUME NEW p \in Procs, Step(p) \/ Crash(p) PROVE KnownOK'
  <2>1. arrived' = arrived /\ withdrawn' = withdrawn
    BY <1>1 DEF Step, Start, Open, Prune, Fetch, Post, Clean, Store, Finish, End, Rename, Crash
  <2>2. pc[p] \in HasJob => InHand(p) \in arrived /\ InHand(p) \in Msgs
    BY DEF JobOK, TypeOK
  <2>3. kept' \subseteq arrived
    <3>1. kept' = kept \/ (kept' = kept \cup {InHand(p)} /\ pc[p] \in HasJob)
      BY <1>1 DEF Step, Start, Open, Prune, Fetch, Post, Clean, Store, Finish, End,
         Rename, Crash, HasJob
    <3> QED
      BY <2>2, <3>1 DEF KnownOK
  <2>4. ASSUME NEW m \in Msgs, accepted'[m] > 0 PROVE m \in arrived
    <3>1. accepted' = accepted \/ (Accept(p) /\ pc[p] \in HasJob)
      BY <1>1 DEF Step, Start, Open, Prune, Fetch, Post, Clean, Store, Finish, End,
         Rename, Crash, HasJob
    <3>2. CASE accepted' = accepted
      BY <2>4, <3>2 DEF KnownOK
    <3>3. CASE Accept(p) /\ pc[p] \in HasJob
      BY <2>2, <2>4, <3>3 DEF Accept, KnownOK, TypeOK
    <3> QED
      BY <3>1, <3>2, <3>3
  <2> QED
    BY <2>1, <2>3, <2>4 DEF KnownOK
<1>2. ASSUME NEW k \in Keys, (\E u \in Uids : Arrive(k, u)) \/ OthersExpunge(k) PROVE KnownOK'
  BY <1>2 DEF Arrive, OthersExpunge, KnownOK
<1>3. ASSUME NEW k \in Keys, NEW u \in Uids, OthersFlag(k, u) PROVE KnownOK'
  BY <1>3 DEF OthersFlag, KnownOK, ArrivalsOK
<1>4. ASSUME NEW k \in Keys, Recreate(k) PROVE KnownOK'
  BY <1>4 DEF Recreate, KnownOK, ArrivalsOK
<1>5. CASE UNCHANGED vars
  BY <1>5 DEF vars, KnownOK
<1> QED
  BY <1>1, <1>2, <1>3, <1>4, <1>5 DEF Next, Environment

(***************************************************************************)
(* The files of the processes                                              *)
(***************************************************************************)

HasFile(p) == pc[p] \in {"post", "clean"} /\ job[p].full

LEMMA HeldIs == Held = {InHand(p) : p \in {q \in Procs : HasFile(q)}}
BY DEF Held, HasFile

\* What a step of a process does to the files in hand is what it does to its own.
LEMMA HeldOf ==
    ASSUME TypeOK, NEW p \in Procs, Step(p) \/ Crash(p)
    PROVE  /\ ~HasFile(p) /\ ~HasFile(p)' => Held' = Held
           /\ ~HasFile(p) /\ HasFile(p)' => Held' = Held \cup {InHand(p)'}
           /\ HasFile(p) /\ HasFile(p)' /\ InHand(p)' = InHand(p) => Held' = Held
           /\ HasFile(p) /\ ~HasFile(p)' => /\ Held = Held' \cup {InHand(p)}
<1>1. \A q \in Procs \ {p} : HasFile(q)' = HasFile(q) /\ InHand(q)' = InHand(q)
  BY OthersStay DEF HasFile, InHand, Key
<1>2. Held' = {InHand(q)' : q \in {q \in Procs : HasFile(q)'}}
  BY DEF Held, HasFile
<1>3. ASSUME ~HasFile(p), ~HasFile(p)' PROVE Held' = Held
  BY <1>1, <1>2, <1>3, HeldIs
<1>4. ASSUME ~HasFile(p), HasFile(p)' PROVE Held' = Held \cup {InHand(p)'}
  BY <1>1, <1>2, <1>4, HeldIs
<1>5. ASSUME HasFile(p), HasFile(p)', InHand(p)' = InHand(p) PROVE Held' = Held
  BY <1>1, <1>2, <1>5, HeldIs
<1>6. ASSUME HasFile(p), ~HasFile(p)' PROVE Held = Held' \cup {InHand(p)}
  BY <1>1, <1>2, <1>6, HeldIs
<1> QED
  BY <1>3, <1>4, <1>5, <1>6

(***************************************************************************)
(* The mailbox                                                             *)
(***************************************************************************)

LEMMA ServerSame ==
    ASSUME TypeOK, arrived' = arrived,
           \A k \in Keys : box'[k].val = box[k].val /\ box'[k].present = box[k].present
    PROVE  OnTheServer' = OnTheServer
<1>1. \A m \in arrived : m[1] \in Keys
  BY DEF TypeOK, Msgs
<1> QED
  BY <1>1 DEF OnTheServer, Live

Stutter == UNCHANGED M!vars

\* EXPUNGE removes what was delivered, saved, or flagged by others.
LEMMA ExpungeCustody ==
    ASSUME CustodyInv, NEW k \in Keys, Expunged(k), Files' = Files,
           UNCHANGED <<arrived, accepted, withdrawn>>
    PROVE  M!Next
<1> TypeOK /\ ArrivalsOK /\ FlagOK
  BY DEF CustodyInv, IInv, SafeInv
<1> DEFINE S == {<<k, box[k].val, u>> : u \in box[k].flagged}
<1>1. S \in SUBSET Msgs
  BY DEF ArrivalsOK, TypeOK
<1>2. OnTheServer' = OnTheServer \ S
  <2>1. ASSUME NEW m \in arrived PROVE Live(m)' <=> Live(m) /\ m \notin S
    <3>1. m[1] \in Keys /\ m = <<m[1], m[2], m[3]>>
      BY DEF TypeOK, Msgs
    <3>2. CASE m[1] # k
      BY <3>1, <3>2, ExpungedBox DEF Live
    <3>3. CASE m[1] = k
      <4>1. m \in S <=> m[2] = box[k].val /\ m[3] \in box[k].flagged
        BY <3>1, <3>3
      <4> QED
        BY <3>1, <3>3, <4>1, ExpungedBox DEF Live
    <3> QED
      BY <3>2, <3>3
  <2> HIDE DEF S
  <2> QED
    BY <2>1 DEF OnTheServer
<1>3. S \subseteq Files \cup {m \in Msgs : accepted[m] > 0} \cup withdrawn
  <2> SUFFICES ASSUME NEW u \in box[k].flagged
               PROVE  <<k, box[k].val, u>> \in
                         Files \cup {m \in Msgs : accepted[m] > 0} \cup withdrawn
    OBVIOUS
  <2>1. <<k, box[k].val, u>> \in Msgs
    BY <1>1
  <2> QED
    BY <2>1 DEF FlagOK, Secured, Files
<1> HIDE DEF S
<1>4. M!Remove(S)
  BY <1>2, <1>3 DEF M!Remove, Files
<1> QED
  BY <1>1, <1>4 DEF M!Next

LEMMA ArriveCustody ==
    ASSUME CustodyInv, NEW k \in Keys, NEW u \in Uids, Arrive(k, u)
    PROVE  M!Next
<1> TypeOK /\ JobOK /\ KnownOK
  BY DEF CustodyInv, IInv
<1>1. PICK m \in Msgs : /\ m = <<k, box[k].val, u>> /\ m \notin arrived
                        /\ arrived' = arrived \cup {m}
  BY DEF Arrive, TypeOK, Mailbox, Msgs
<1>2. Held \subseteq arrived
  BY DEF Held, JobOK, HasJob
<1>3. Held' = Held /\ UNCHANGED <<kept, accepted, withdrawn>>
  BY DEF Arrive, Held, InHand, Key
<1>4. m \notin OnTheServer \cup Files \cup {n \in Msgs : accepted[n] > 0} \cup withdrawn
  BY <1>1, <1>2 DEF KnownOK, Files, OnTheServer
<1>5. OnTheServer' = OnTheServer \cup {m}
  <2>1. Live(m)'
    <3>1. m[1] = k /\ m[2] = box[k].val /\ m[3] = u
      BY <1>1
    <3> QED
      BY <3>1, ArriveBox DEF Live
  <2>2. ASSUME NEW n \in arrived PROVE Live(n)' <=> Live(n)
    <3>1. n[1] \in Keys /\ n = <<n[1], n[2], n[3]>>
      BY DEF TypeOK, Msgs
    <3>4. n # m
      BY <1>1
    <3>2. CASE n[1] # k
      BY <3>1, <3>2, ArriveBox DEF Live
    <3>3. CASE n[1] = k
      <4>1. ~(n[2] = box[k].val /\ n[3] = u)
        BY <1>1, <3>1, <3>3, <3>4
      <4> QED
        BY <3>1, <3>3, <4>1, ArriveBox DEF Live
    <3> QED
      BY <3>2, <3>3
  <2> QED
    BY <1>1, <2>1, <2>2 DEF OnTheServer
<1>6. M!Appear(m)
  BY <1>3, <1>4, <1>5 DEF M!Appear, M!Somewhere, Files
<1> QED
  BY <1>1, <1>6 DEF M!Next

LEMMA OthersFlagCustody ==
    ASSUME CustodyInv, NEW k \in Keys, NEW u \in Uids, OthersFlag(k, u)
    PROVE  M!Next
<1> TypeOK /\ ArrivalsOK
  BY DEF CustodyInv, IInv
<1> DEFINE m == <<k, box[k].val, u>>
<1>1. m \in OnTheServer /\ m \in Msgs
  <2>1. m \in arrived /\ u \in box[k].present
    BY DEF OthersFlag, ArrivalsOK
  <2>2. m[1] = k /\ m[2] = box[k].val /\ m[3] = u
    OBVIOUS
  <2>3. Live(m)
    BY <2>1, <2>2 DEF Live
  <2> QED
    BY <2>1, <2>3 DEF OnTheServer, TypeOK
<1>2. OnTheServer' = OnTheServer
  <2>1. FlaggedOnly(k)
    <3>1. box[k].flagged \cup {u} \in SUBSET box[k].present
      BY DEF OthersFlag, ArrivalsOK
    <3> QED
      BY <3>1 DEF OthersFlag, FlaggedOnly
  <2> QED
    BY <2>1, FlaggedBox, ServerSame DEF OthersFlag
<1>3. Held' = Held /\ UNCHANGED <<kept, accepted>> /\ withdrawn' = withdrawn \cup {m}
  BY DEF OthersFlag, Held, InHand, Key
<1> HIDE DEF m
<1>4. M!Withdraw({m})
  BY <1>1, <1>2, <1>3 DEF M!Withdraw
<1>5. {m} \in SUBSET Msgs
  BY <1>1
<1> QED
  BY <1>4, <1>5 DEF M!Next

LEMMA RecreateCustody ==
    ASSUME CustodyInv, NEW k \in Keys, Recreate(k)
    PROVE  M!Next
<1> TypeOK /\ ArrivalsOK
  BY DEF CustodyInv, IInv
<1> DEFINE S == {<<k, box[k].val, u>> : u \in box[k].present}
<1>1. S \in SUBSET Msgs /\ S \subseteq arrived
  BY DEF ArrivalsOK, TypeOK
<1>2. ASSUME NEW m \in arrived PROVE /\ m \in S => Live(m)
                                     /\ Live(m)' <=> Live(m) /\ m \notin S
  <2>1. m[1] \in Keys /\ m = <<m[1], m[2], m[3]>>
    BY DEF TypeOK, Msgs
  <2>2. CASE m[1] # k
    BY <2>1, <2>2, RecreateBox DEF Live
  <2>3. CASE m[1] = k
    <3>1. m \in S <=> m[2] = box[k].val /\ m[3] \in box[k].present
      BY <2>1, <2>3
    <3> QED
      BY <2>1, <2>3, <3>1, RecreateBox DEF Live
  <2> QED
    BY <2>2, <2>3
<1>3. /\ Held' = Held /\ UNCHANGED <<kept, accepted, arrived>>
      /\ withdrawn' = withdrawn \cup S
  BY DEF Recreate, Held, InHand, Key
<1> HIDE DEF S
<1>4. S \subseteq OnTheServer /\ OnTheServer' = OnTheServer \ S
  BY <1>1, <1>2, <1>3 DEF OnTheServer
<1>5. M!Withdraw(S)
  BY <1>3, <1>4 DEF M!Withdraw
<1> QED
  BY <1>1, <1>5 DEF M!Next

(***************************************************************************)
(* The processes                                                           *)
(***************************************************************************)

\* Steps that leave the files, the mailbox and the backend alone.
LEMMA QuietCustody ==
    ASSUME CustodyInv, NEW p \in Procs,
           \/ Start(p) \/ Open(p) \/ Prune(p) \/ Store(p) \/ End(p) \/ Rename(p)
    PROVE  Stutter
<1> TypeOK /\ ArrivalsOK
  BY DEF CustodyInv, IInv
<1>1. ~HasFile(p) /\ ~HasFile(p)'
  BY DEF HasFile, TypeOK, Start, Open, Prune, Store, End, Rename, NextAccount, Exit
<1>2. Held' = Held
  BY <1>1, HeldOf DEF Step
<1>3. UNCHANGED <<arrived, withdrawn, accepted, kept>>
  BY DEF Start, Open, Prune, Store, End, Rename
<1>4. OnTheServer' = OnTheServer
  <2>1. CASE box' = box
    BY <1>3, <2>1 DEF OnTheServer, Live
  <2>2. CASE Store(p) /\ Flagged(p)
    <3>1. Key(p) \in Keys
      BY KeyType
    <3>2. box[Key(p)].flagged \cup ({job[p].uid} \cap box[Key(p)].present)
            \in SUBSET box[Key(p)].present
      BY <3>1 DEF ArrivalsOK
    <3>3. FlaggedOnly(Key(p))
      BY <1>3, <2>2, <3>2 DEF FlaggedOnly, Flagged
    <3> QED
      BY <1>3, <3>1, <3>3, FlaggedBox, ServerSame
  <2> QED
    BY <2>1, <2>2 DEF Start, Open, Prune, Store, End, Rename
<1> QED
  BY <1>2, <1>3, <1>4 DEF Stutter, M!vars

LEMMA FetchCustody ==
    ASSUME CustodyInv, NEW p \in Procs, Fetch(p)
    PROVE  M!Next \/ Stutter
<1> TypeOK /\ JobOK /\ pc[p] = "fetch"
  BY DEF CustodyInv, IInv, Fetch
<1>1. ~HasFile(p) /\ UNCHANGED <<box, arrived, withdrawn, accepted, kept, acct>>
  BY DEF HasFile, Fetch
<1>2. OnTheServer' = OnTheServer
  BY <1>1 DEF OnTheServer, Live
<1>3. CASE ~HasFile(p)'
  <2>1. Held' = Held
    BY <1>1, <1>3, HeldOf DEF Step
  <2> QED
    BY <1>1, <1>2, <2>1 DEF Stutter, M!vars
<1>4. CASE HasFile(p)'
  <2>1. Held' = Held \cup {InHand(p)'}
    BY <1>1, <1>4, HeldOf DEF Step
  <2>2. pc'[p] \in HasJob /\ job'[p].full
    BY <1>4 DEF HasFile, HasJob
  <2>3. InHand(p)' \in arrived
    BY <1>1, <2>2, FetchedJob DEF CustodyInv
  <2>4. PICK u \in sess[p].todo :
         /\ CommandWorks(p)
         /\ job' = [job EXCEPT ![p] = [uid |-> u, delivered |-> FALSE,
                                       full |-> u \in box[Key(p)].present]]
    BY <2>2 DEF Fetch, HasJob
  <2>5. job'[p].uid = u /\ u \in box[Key(p)].present
    BY <2>2, <2>4 DEF TypeOK
  <2>6. sess'[p].val = sess[p].val /\ acct'[p] = acct[p]
    BY SessionKept
  <2>7. InHand(p)' = <<Key(p), sess[p].val, u>>
    BY <2>5, <2>6 DEF InHand, Key
  <2>8. PICK m \in Msgs : m = InHand(p)'
    BY <2>3 DEF TypeOK
  <2>9. m \in OnTheServer
    <3>1. m[1] = Key(p) /\ m[2] = sess[p].val /\ m[3] = u
      BY <2>7, <2>8
    <3>2. Live(m)
      BY <2>4, <2>5, <3>1 DEF Live, CommandWorks, Stale
    <3> QED
      BY <2>3, <2>8, <3>2 DEF OnTheServer
  <2>10. M!Copy(m)
    BY <1>1, <1>2, <2>1, <2>8, <2>9 DEF M!Copy, M!Somewhere
  <2> QED
    BY <2>10 DEF M!Next
<1> QED
  BY <1>3, <1>4

LEMMA PostCustody ==
    ASSUME CustodyInv, NEW p \in Procs, Post(p)
    PROVE  M!Next \/ Stutter
<1> TypeOK /\ JobOK /\ pc[p] = "post"
  BY DEF CustodyInv, IInv, Post
<1>1. UNCHANGED <<box, arrived, withdrawn, kept>> /\ pc'[p] = "clean"
  BY DEF Post, TypeOK
<1>2. OnTheServer' = OnTheServer
  BY <1>1 DEF OnTheServer, Live
<1>3. InHand(p)' = InHand(p) /\ job'[p].full = job[p].full
  BY <1>1, InHandStays DEF HasJob
<1>4. Held' = Held
  BY <1>1, <1>3, HeldOf DEF HasFile, Step
<1>5. CASE accepted' = accepted
  BY <1>1, <1>2, <1>4, <1>5 DEF Stutter, M!vars
<1>6. CASE Accept(p) /\ accepted' # accepted
  <2>1. PICK m \in Msgs : m = InHand(p)
    BY DEF JobOK, HasJob, TypeOK
  <2>2. job[p].full /\ accepted' = [accepted EXCEPT ![m] = accepted[m] + 1]
    BY <1>6, <2>1 DEF Accept
  <2>3. {n \in Msgs : accepted[n] > 0}' = {n \in Msgs : accepted[n] > 0} \cup {m}
    BY <2>2 DEF TypeOK
  <2>4. m \in Held
    BY <2>1, <2>2 DEF Held
  <2>5. M!Take(m)
    BY <1>1, <1>2, <1>4, <2>3, <2>4 DEF M!Take
  <2> QED
    BY <2>5 DEF M!Next
<1> QED
  BY <1>5, <1>6 DEF Post

LEMMA CleanCustody ==
    ASSUME CustodyInv, NEW p \in Procs, Clean(p)
    PROVE  M!Next \/ Stutter
<1> TypeOK /\ JobOK /\ GoneOK /\ pc[p] = "clean"
  BY DEF CustodyInv, IInv, SafeInv, Clean
<1>1. UNCHANGED <<box, arrived, withdrawn, accepted>> /\ kept \subseteq kept'
  BY DEF Clean
<1>2. OnTheServer' = OnTheServer
  BY <1>1 DEF OnTheServer, Live
<1>3. ~HasFile(p)'
  BY DEF Clean, HasFile, TypeOK
<1>4. CASE ~HasFile(p)
  <2>1. Held' = Held
    BY <1>3, <1>4, HeldOf DEF Step
  <2>2. kept' = kept
    BY <1>4 DEF Clean, LeavesFile, HasFile
  <2> QED
    BY <1>1, <1>2, <2>1, <2>2 DEF Stutter, M!vars
<1>5. CASE HasFile(p)
  <2>1. PICK m \in Msgs : m = InHand(p) /\ m \in arrived
    BY DEF JobOK, HasJob, TypeOK
  <2>2. Held = Held' \cup {m}
    BY <1>3, <1>5, <2>1, HeldOf DEF Step
  <2>3. kept' = kept \/ kept' = kept \cup {m}
    BY <2>1 DEF Clean
  <2>4. CASE Files' = Files
    BY <1>1, <1>2, <2>4 DEF Stutter, M!vars, Files
  <2>5. CASE Files' # Files
    <3>1. kept' = kept /\ m \notin kept /\ Files' = Files \ {m}
      BY <2>2, <2>3, <2>5 DEF Files
    <3>2. m \in OnTheServer \cup {n \in Msgs : accepted[n] > 0} \cup withdrawn
      BY <2>1, <3>1 DEF GoneOK, Secured, Gone, OnTheServer
    <3>3. M!Discard(m)
      BY <1>1, <1>2, <3>1, <3>2 DEF M!Discard, Files
    <3> QED
      BY <3>3 DEF M!Next
  <2> QED
    BY <2>4, <2>5
<1> QED
  BY <1>4, <1>5

LEMMA FinishCustody ==
    ASSUME CustodyInv, NEW p \in Procs, Finish(p)
    PROVE  M!Next \/ Stutter
<1> TypeOK /\ pc[p] = "fetch"
  BY DEF CustodyInv, IInv, Finish
<1>1. ~HasFile(p) /\ ~HasFile(p)'
  BY DEF HasFile, Finish, NextAccount, TypeOK
<1>2. Held' = Held /\ UNCHANGED <<arrived, withdrawn, accepted, kept>>
  BY <1>1, HeldOf DEF Finish, Step
<1>3. CASE box' = box
  BY <1>2, <1>3 DEF Stutter, M!vars, OnTheServer, Live
<1>4. CASE Expunged(Key(p))
  BY <1>2, <1>4, KeyType, ExpungeCustody DEF Files
<1> QED
  BY <1>3, <1>4 DEF Finish

LEMMA CrashCustody ==
    ASSUME CustodyInv, NEW p \in Procs, Crash(p)
    PROVE  Stutter
<1> TypeOK
  BY DEF CustodyInv, IInv
<1>1. UNCHANGED <<box, arrived, withdrawn, accepted>> /\ ~HasFile(p)'
  BY DEF Crash, Exit, HasFile, TypeOK
<1>2. OnTheServer' = OnTheServer
  BY <1>1 DEF OnTheServer, Live
<1>3. Files' = Files
  <2>1. CASE HasFile(p)
    <3>1. Held = Held' \cup {InHand(p)}
      BY <1>1, <2>1, HeldOf
    <3>2. kept' = kept \cup {InHand(p)}
      BY <2>1 DEF Crash, HasFile
    <3> QED
      BY <3>1, <3>2 DEF Files
  <2>2. CASE ~HasFile(p)
    <3>1. Held = Held'
      BY <1>1, <2>2, HeldOf
    <3>2. kept' = kept
      BY <2>2 DEF Crash, HasFile
    <3> QED
      BY <3>1, <3>2 DEF Files
  <2> QED
    BY <2>1, <2>2
<1> QED
  BY <1>1, <1>2, <1>3 DEF Stutter, M!vars, Files

LEMMA NextCustody ==
    ASSUME CustodyInv, [Next]_vars
    PROVE  M!Next \/ Stutter
<1>1. ASSUME NEW p \in Procs, Step(p) \/ Crash(p) PROVE M!Next \/ Stutter
  BY <1>1, QuietCustody, FetchCustody, PostCustody, CleanCustody, FinishCustody, CrashCustody
     DEF Step
<1>2. ASSUME NEW k \in Keys, OthersExpunge(k) PROVE M!Next
  <2>1. Files' = Files
    BY <1>2 DEF OthersExpunge, Files, Held, InHand, Key
  <2> QED
    BY <1>2, <2>1, ExpungeCustody DEF OthersExpunge
<1>3. CASE UNCHANGED vars
  BY <1>3 DEF vars, Stutter, M!vars, OnTheServer, Live, Held, InHand, Key
<1> QED
  BY <1>1, <1>2, <1>3, ArriveCustody, OthersFlagCustody, RecreateCustody
     DEF Next, Environment

\* IMAP mode implements MailCustody as long as a reply that reads as a delivery is
\* one, and super_clean does not remove the file of a message that max_pop3_delete
\* deletes.
THEOREM ImapKeepsCustody == ASSUME Careful PROVE Spec => Custody
<1>1. Init => M!Init /\ KnownOK
  <2> SUFFICES ASSUME Init PROVE M!Init /\ KnownOK
    OBVIOUS
  <2>1. {m \in Msgs : accepted[m] > 0} = {} /\ Held = {} /\ OnTheServer = {}
    BY DEF Init, Held, OnTheServer
  <2> QED
    BY <2>1 DEF Init, M!Init, KnownOK
<1>2. Spec => []KnownOK
  <2>1. IInv /\ KnownOK /\ [Next]_vars => KnownOK'
    BY KnownStep
  <2> QED
    BY <1>1, <2>1, IInvHolds, PTL DEF Spec
<1>3. (Careful => DeliveredOK /\ SafeInv) /\ IInv /\ KnownOK => CustodyInv
  BY DEF CustodyInv
<1>4. CustodyInv /\ [Next]_vars => [M!Next]_M!vars
  BY NextCustody DEF Stutter
<1> QED
  BY <1>1, <1>2, <1>3, <1>4, IInvHolds, CarefulInv, PTL DEF Spec, Custody, M!Spec

(***************************************************************************)
(* Duplicates                                                              *)
(***************************************************************************)

Has(st, m) == st[m[1]].val = m[2] /\ m[3] \in st[m[1]].uids

Working == {"fetch", "post", "clean", "store"}

\* Where the program remembers a message it has delivered: in the state file, in
\* the state it loaded, or in the session on the mailbox of the message.
Recalled(p, m) ==
    /\ pc[p] = "idle" => Has(disk, m)
    /\ pc[p] # "idle" /\ ~(pc[p] \in Working /\ Key(p) = m[1]) => Has(mem[p], m)
    /\ pc[p] \in Working /\ Key(p) = m[1] =>
          /\ sess[p].val = m[2]
          /\ m[3] \notin sess[p].todo
          /\ \/ m[3] \in sess[p].processed
             \/ pc[p] = "clean" /\ job[p].uid = m[3] /\ job[p].delivered

\* The message is about to be posted.
Pending(p, m) == pc[p] = "post" /\ InHand(p) = m /\ job[p].full

Settled(p, m) == ~Pending(p, m) /\ (Gone(m) \/ Recalled(p, m))

\* Each acceptance beyond the first is paid for by a failure, and while none is
\* left to pay the message is settled.
Paid ==
    \A m \in Msgs :
        /\ accepted[m] <= faults + 1
        /\ \A p \in Procs : accepted[m] <= faults \/ Settled(p, m)

\* The message in hand is not fetched again.
JobTodo == \A p \in Procs : pc[p] \in HasJob => job[p].uid \notin sess[p].todo

\* The answer to UID SEARCH ALL has the message while it is in the mailbox.
Scanned(p, m) ==
    pc[p] = "prune" /\ m[1] = Key(p) =>
        /\ m[2] <= sess[p].val /\ sess[p].val <= box[Key(p)].val
        /\ SearchAll[acct[p]] /\ m[2] = sess[p].val /\ Live(m) => m[3] \in sess[p].todo

ScanOK == \A p \in Procs, m \in Msgs : accepted[m] > 0 => Scanned(p, m)

LEMMA LiveWas ==
    ASSUME IInv, [Next]_vars, NEW m \in Msgs, m \in arrived
    PROVE  (Live(m)' => Live(m)) /\ (Gone(m)' \/ Live(m)')
BY HistoryGrows, GoneStays DEF Gone

LEMMA ValNat == ASSUME TypeOK, NEW p \in Procs PROVE sess[p].val \in Nat
<1>1. sess[p] \in Session
  BY DEF TypeOK
<1> QED
  BY <1>1, BoundAssumption DEF Session

LEMMA JobTodoStep ==
    ASSUME IInv, JobTodo, Lone, [Next]_vars
    PROVE  JobTodo'
<1> TypeOK
  BY DEF IInv
<1> SUFFICES ASSUME NEW p \in Procs, pc'[p] \in HasJob PROVE job'[p].uid \notin sess'[p].todo
  BY DEF JobTodo
<1>1. CASE UNCHANGED <<pc, acct, mem, sess, job>>
  BY <1>1 DEF JobTodo
<1>2. CASE Step(p) \/ Crash(p)
  <2>1. CASE Fetch(p)
    BY <2>1 DEF Fetch, HasJob, TypeOK, Session, Job
  <2>2. CASE Post(p)
    BY <2>2 DEF Post, Delivered, HasJob, TypeOK, Job, JobTodo
  <2>3. CASE Clean(p)
    BY <2>3 DEF Clean, HasJob, TypeOK, Session, JobTodo
  <2> QED
    BY <1>2, <2>1, <2>2, <2>3
       DEF Step, Crash, Start, Open, Prune, Store, Finish, End, Rename, NextAccount, Exit,
           TypeOK, HasJob
<1> QED
  BY <1>1, <1>2, EnvironmentStays DEF Next, vars, Lone

\* While a run is about to prune nothing is taken and nothing saved.
LEMMA ToPrune ==
    ASSUME TypeOK, Lone, [Next]_vars, NEW p \in Procs, pc'[p] = "prune"
    PROVE  /\ Open(p) \/ UNCHANGED <<pc, acct, mem, sess, job>>
           /\ UNCHANGED <<accepted, disk>>
<1>1. CASE Step(p) \/ Crash(p)
  <2>1. CASE Open(p)
    BY <2>1 DEF Open
  <2>2. pc'[p] = "prune" => Open(p)
    BY <1>1 DEF Step, Crash, Start, Prune, Fetch, Post, Clean, Store, Finish, End, Rename,
       NextAccount, Exit, TypeOK
  <2> QED
    BY <2>1, <2>2
<1> QED
  BY <1>1, EnvironmentStays DEF Next, Lone

LEMMA ScannedStep ==
    ASSUME IInv, Lone, [Next]_vars, NEW p \in Procs, NEW m \in Msgs, m \in arrived, Scanned(p, m)
    PROVE  Scanned(p, m)'
<1> TypeOK /\ ArrivalsOK
  BY DEF IInv
<1> SUFFICES ASSUME pc'[p] = "prune", m[1] = Key(p)'
             PROVE  /\ m[2] <= sess'[p].val /\ sess'[p].val <= box'[Key(p)'].val
                    /\ SearchAll[acct'[p]] /\ m[2] = sess'[p].val /\ Live(m)'
                          => m[3] \in sess'[p].todo
  BY DEF Scanned
<1>1. CASE Open(p)
  <2>1. UNCHANGED <<acct, box>> /\ Key(p)' = Key(p) /\ Key(p) \in Keys
    <3>1. UNCHANGED <<acct, box>>
      BY <1>1 DEF Open, NextAccount, TypeOK
    <3> QED
      BY <3>1, KeyType DEF Key
  <2>2. PICK cand \in Candidates(p) :
            sess' = [sess EXCEPT ![p] = [val |-> box[Key(p)].val, todo |-> cand,
                                         processed |-> {}, deleted |-> FALSE]]
    BY <1>1 DEF Open, NextAccount, TypeOK
  <2>3. sess'[p].val = box[Key(p)].val /\ sess'[p].todo = cand
    BY <2>2 DEF TypeOK
  <2>4. box[Key(p)].val \in Nat
    BY <2>1, EpochGrows
  <2>5. /\ m[2] <= box[Key(p)].val
        /\ SearchAll[acct[p]] /\ Live(m)' => m[3] \in cand
    BY <2>1, LiveWas DEF ArrivalsOK, Candidates, Live
  <2> QED
    BY <2>1, <2>3, <2>4, <2>5
<1>2. CASE UNCHANGED <<pc, acct, mem, sess, job>>
  <2>1. Key(p)' = Key(p) /\ Key(p) \in Keys
    BY <1>2, KeyType DEF Key
  <2>2. sess[p].val \in Nat /\ box[Key(p)].val <= box'[Key(p)].val
        /\ box[Key(p)].val \in Nat /\ box'[Key(p)].val \in Nat
    BY <2>1, EpochGrows, ValNat
  <2>3. /\ m[2] <= sess[p].val /\ sess[p].val <= box[Key(p)].val
        /\ SearchAll[acct[p]] /\ m[2] = sess[p].val /\ Live(m)' => m[3] \in sess[p].todo
    BY <1>2, <2>1, LiveWas DEF Scanned
  <2> QED
    BY <1>2, <2>1, <2>2, <2>3
<1> QED
  BY <1>1, <1>2, ToPrune

LEMMA ScanStep ==
    ASSUME IInv, KnownOK, ScanOK, Lone, [Next]_vars
    PROVE  ScanOK'
<1> SUFFICES ASSUME NEW p \in Procs, NEW m \in Msgs, accepted'[m] > 0, pc'[p] = "prune"
             PROVE  Scanned(p, m)'
  BY DEF ScanOK, Scanned
<1>1. accepted[m] > 0 /\ m \in arrived
  BY ToPrune DEF IInv, KnownOK
<1> QED
  BY <1>1, ScannedStep DEF ScanOK

\* A step that takes a message posts it; a step counts at most one failure.
LEMMA TakesPending ==
    ASSUME IInv, NEW p \in Procs, Step(p) \/ Crash(p), NEW m \in Msgs
    PROVE  /\ accepted'[m] \in {accepted[m], accepted[m] + 1}
           /\ accepted'[m] # accepted[m] => Post(p) /\ Pending(p, m)
           /\ faults' \in {faults, faults + 1}
<1> TypeOK
  BY DEF IInv
<1>1. CASE Post(p)
  <2>1. accepted'[m] # accepted[m] => Accept(p)
    BY <1>1 DEF Post
  <2>2. Accept(p) => \/ accepted'[m] = accepted[m]
                     \/ accepted'[m] = accepted[m] + 1 /\ InHand(p) = m /\ job[p].full
    BY DEF Accept, TypeOK
  <2> QED
    BY <1>1, <2>1, <2>2 DEF Post, Pending, Fault
<1>2. CASE ~Post(p)
  <2>1. accepted' = accepted
    BY <1>2 DEF Step, Start, Open, Prune, Fetch, Clean, Store, Finish, End, Rename, Crash
  <2>2. faults' \in {faults, faults + 1}
    BY <1>2 DEF Step, Start, Open, Prune, Fetch, Clean, Store, Finish, End, Rename, Crash,
       OnServer, CommandWorks, CommandFails, Fault
  <2> QED
    BY <2>1, <2>2
<1> QED
  BY <1>1, <1>2

\* A settled message does not come up for a post again.
LEMMA NotPending ==
    ASSUME IInv, KnownOK, NEW p \in Procs, Step(p), NEW m \in Msgs, accepted[m] > 0,
           Settled(p, m)
    PROVE  ~Pending(p, m)'
<1> TypeOK
  BY DEF IInv
<1> SUFFICES ASSUME Pending(p, m)' PROVE FALSE
  OBVIOUS
<1>1. Fetch(p)
  BY DEF Pending, Step, Start, Open, Prune, Post, Clean, Store, Finish, End, Rename,
     NextAccount, Exit, TypeOK
<1>2. PICK u \in sess[p].todo :
         /\ CommandWorks(p)
         /\ job' = [job EXCEPT ![p] = [uid |-> u, delivered |-> FALSE,
                                       full |-> u \in box[Key(p)].present]]
  BY <1>1 DEF Fetch, Pending, TypeOK
<1>3. job'[p].uid = u /\ u \in box[Key(p)].present
  BY <1>2 DEF Pending, TypeOK
<1>4. m = <<Key(p), sess[p].val, u>>
  BY <1>1, <1>3, SessionKept DEF Pending, InHand, Key
<1>5. m[1] = Key(p) /\ m[2] = sess[p].val /\ m[3] = u
  BY <1>4
<1>6. Live(m)
  BY <1>2, <1>3, <1>5 DEF Live, CommandWorks, Stale
<1>7. m[3] \notin sess[p].todo
  BY <1>1, <1>5, <1>6 DEF Settled, Gone, Recalled, Fetch, Working
<1> QED
  BY <1>5, <1>7

\* What a run remembers it takes along, unless something fails.
LEMMA RecalledPrune ==
    ASSUME IInv, StateFile, NEW p \in Procs, Prune(p), ~Fault("searchall"),
           NEW m \in Msgs, Scanned(p, m), Live(m), Recalled(p, m)
    PROVE  Recalled(p, m)'
<1> TypeOK
  BY DEF IInv
<1>1. /\ pc[p] = "prune" /\ pc'[p] = "fetch" /\ mem' = mem /\ Has(mem[p], m)
      /\ Key(p)' = Key(p) /\ Key(p) \in Keys
  BY KeyType DEF Prune, Recalled, Working, TypeOK, Key
<1>2. CASE Key(p) # m[1]
  BY <1>1, <1>2 DEF Recalled, Has
<1>3. CASE Key(p) = m[1]
  <2>1. PICK S \in {sess[p].todo, box[Key(p)].present}, batch \in Fetchable(p) :
           /\ OnServer(p, S)
           /\ sess' = [sess EXCEPT ![p].processed = Carried(p, S), ![p].todo = batch]
    BY DEF Prune
  <2>2. /\ sess'[p].val = sess[p].val /\ sess'[p].processed = Carried(p, S)
        /\ sess'[p].todo = batch
    BY <2>1 DEF TypeOK, Session
  <2>3. sess[p].val = m[2] /\ ~Stale(p)
    <3>1. m[2] <= sess[p].val /\ sess[p].val <= box[Key(p)].val
      BY <1>1, <1>3 DEF Scanned
    <3>2. m[2] = box[Key(p)].val /\ m[2] \in Nat /\ sess[p].val \in Nat
      BY <1>1, <1>3, BoundAssumption, ValNat DEF Live, Msgs
    <3> QED
      BY <3>1, <3>2 DEF Stale
  <2>4. m[3] \in Processed(p)
    BY <1>1, <1>3, <2>3 DEF Processed, Has
  <2>5. m[3] \in S
    <3>1. CASE SearchAll[acct[p]]
      <4>1. S = sess[p].todo
        BY <2>1, <3>1 DEF OnServer
      <4> QED
        BY <1>1, <1>3, <2>3, <3>1, <4>1 DEF Scanned
    <3>2. CASE ~SearchAll[acct[p]]
      <4>1. ~CommandFails(p, "searchall")
        BY <2>3 DEF CommandFails
      <4>2. S = box[Key(p)].present
        BY <2>1, <3>2, <4>1 DEF OnServer
      <4> QED
        BY <1>3, <4>2 DEF Live
    <3> QED
      BY <3>1, <3>2
  <2>6. m[3] \notin batch
    BY <2>4 DEF Fetchable, Batches
  <2> QED
    BY <1>1, <1>3, <2>2, <2>3, <2>4, <2>5, <2>6 DEF Recalled, Carried, Working
<1> QED
  BY <1>2, <1>3

LEMMA RecalledSession ==
    ASSUME IInv, StateFile, NEW p \in Procs, Fetch(p) \/ Post(p) \/ Clean(p) \/ Store(p),
           NEW m \in Msgs, Recalled(p, m)
    PROVE  Recalled(p, m)'
<1> TypeOK
  BY DEF IInv
<1>1. Key(p)' = Key(p) /\ mem' = mem /\ pc[p] \in Working /\ pc'[p] \in Working
  <2>1. acct' = acct /\ mem' = mem /\ pc[p] \in Working /\ pc'[p] \in Working
    BY DEF Fetch, Post, Clean, Store, Working, TypeOK
  <2> QED
    BY <2>1 DEF Key
<1>2. CASE Key(p) # m[1]
  BY <1>1, <1>2 DEF Recalled, Has, Working
<1>3. CASE Key(p) = m[1]
  <2>1. /\ sess[p].val = m[2] /\ m[3] \notin sess[p].todo
        /\ \/ m[3] \in sess[p].processed
           \/ pc[p] = "clean" /\ job[p].uid = m[3] /\ job[p].delivered
    BY <1>1, <1>3 DEF Recalled
  <2>2. sess'[p].val = sess[p].val /\ sess'[p].todo \subseteq sess[p].todo
    BY SessionKept
  <2>3. m[3] \in sess'[p].processed
    <3>0. sess \in [Procs -> Session]
      BY DEF TypeOK
    <3>1. CASE Fetch(p)
      <4>1. sess'[p].processed = sess[p].processed
        BY <3>0, <3>1 DEF Fetch, Session
      <4> QED
        BY <2>1, <3>1, <4>1 DEF Fetch
    <3>2. CASE Post(p)
      BY <2>1, <3>2 DEF Post
    <3>3. CASE Clean(p)
      <4>1. sess'[p].processed = Recorded(p)
        BY <3>3 DEF Clean, TypeOK, Session
      <4> QED
        BY <2>1, <4>1 DEF Recorded
    <3>4. CASE Store(p)
      <4>1. sess'[p].processed = sess[p].processed
        BY <3>0, <3>4 DEF Store, Session
      <4> QED
        BY <2>1, <3>4, <4>1 DEF Store
    <3> QED
      BY <3>1, <3>2, <3>3, <3>4
  <2> QED
    BY <1>1, <1>3, <2>1, <2>2, <2>3 DEF Recalled, Working
<1> QED
  BY <1>2, <1>3

LEMMA RecalledFinish ==
    ASSUME IInv, StateFile, NEW p \in Procs, Finish(p), NEW m \in Msgs, Recalled(p, m)
    PROVE  Recalled(p, m)'
<1> TypeOK
  BY DEF IInv
<1>1. pc'[p] \in {"open", "end"} /\ pc[p] = "fetch" /\ Key(p) \in Keys /\ m[1] \in Keys
  BY KeyType DEF Finish, NextAccount, TypeOK, Msgs
<1>2. mem' = [mem EXCEPT ![p][Key(p)] = [val |-> sess[p].val, uids |-> sess[p].processed]]
  BY DEF Finish, Put
<1>3. Has(mem'[p], m)
  BY <1>1, <1>2 DEF Recalled, Working, Has, TypeOK
<1> QED
  BY <1>1, <1>3 DEF Recalled, Working

LEMMA RecalledStep ==
    ASSUME IInv, KnownOK, ScanOK, StateFile, NEW p \in Procs, Step(p), faults' = faults,
           NEW m \in Msgs, accepted[m] > 0, Live(m), Recalled(p, m)
    PROVE  Recalled(p, m)'
<1> TypeOK
  BY DEF IInv
<1>0. ASSUME NEW kind PROVE ~Fault(kind)
  BY DEF Fault, TypeOK
<1>1. CASE Start(p)
  BY <1>0, <1>1 DEF Start, Recalled, Working, Has, TypeOK
<1>2. CASE Open(p)
  BY <1>0, <1>2 DEF Open, Recalled, Working, Has, TypeOK
<1>3. CASE End(p)
  BY <1>0, <1>3 DEF End, Recalled, Working, Has, TypeOK
<1>4. CASE Rename(p)
  BY <1>0, <1>4 DEF Rename, Exit, Recalled, Working, Has, TypeOK
<1> QED
  BY <1>0, <1>1, <1>2, <1>3, <1>4, RecalledPrune, RecalledSession, RecalledFinish DEF Step, ScanOK

\* A message that is taken is remembered from there on, unless the reply is lost.
LEMMA FirstTake ==
    ASSUME IInv, JobTodo, NEW p \in Procs, Post(p), faults' = faults, NEW m \in Msgs,
           Pending(p, m), accepted'[m] # accepted[m]
    PROVE  Settled(p, m)'
<1> TypeOK
  BY DEF IInv
<1>1. UNCHANGED <<acct, sess>> /\ pc'[p] = "clean" /\ job'[p].uid = job[p].uid
  BY DEF Post, Delivered, TypeOK, Job
<1>2. job'[p].delivered
  BY DEF Post, Delivered, TypeOK, Job, Fault
<1>3. m[1] = Key(p) /\ m[2] = sess[p].val /\ m[3] = job[p].uid /\ Key(p)' = Key(p)
  BY <1>1 DEF Pending, InHand, Key
<1>4. m[3] \notin sess[p].todo
  BY <1>3 DEF JobTodo, HasJob, Post
<1> QED
  BY <1>1, <1>2, <1>3, <1>4 DEF Settled, Pending, Recalled, Working

LEMMA PaidStep ==
    ASSUME IInv, KnownOK, JobTodo, ScanOK, Paid, Lone, StateFile, [Next]_vars
    PROVE  Paid'
<1> TypeOK
  BY DEF IInv
<1> SUFFICES ASSUME NEW m \in Msgs
             PROVE  /\ accepted'[m] <= faults' + 1
                    /\ \A p \in Procs : accepted'[m] <= faults' \/ Settled(p, m)'
  BY DEF Paid
<1>0. accepted[m] \in Nat /\ faults \in Nat
  BY BoundAssumption DEF TypeOK
<1>1. CASE UNCHANGED <<pc, acct, mem, sess, job, accepted, faults, disk>>
  <2>1. ASSUME NEW p \in Procs, Settled(p, m) PROVE Settled(p, m)'
    BY <1>1, <2>1, GoneStays DEF Settled, Pending, Recalled, InHand, Key, Has
  <2> QED
    BY <1>1, <2>1 DEF Paid
<1>2. ASSUME NEW p \in Procs, Step(p) \/ Crash(p)
      PROVE  accepted'[m] <= faults' + 1 /\ (accepted'[m] <= faults' \/ Settled(p, m)')
  <2>1. /\ accepted'[m] \in {accepted[m], accepted[m] + 1}
        /\ accepted'[m] # accepted[m] => Post(p) /\ Pending(p, m)
        /\ faults' \in {faults, faults + 1}
    BY <1>2, TakesPending
  <2>2. accepted[m] <= faults \/ (accepted[m] = faults + 1 /\ Settled(p, m))
    BY <1>0 DEF Paid
  <2>3. CASE faults' = faults + 1
    BY <1>0, <2>1, <2>2, <2>3 DEF Settled
  <2>4. CASE faults' = faults /\ accepted'[m] # accepted[m]
    <3>1. Settled(p, m)'
      BY <2>1, <2>4, FirstTake
    <3> QED
      BY <1>0, <2>1, <2>2, <2>4, <3>1 DEF Settled
  <2>5. CASE faults' = faults /\ accepted'[m] = accepted[m]
    <3>1. CASE accepted[m] <= faults
      BY <1>0, <2>5, <3>1
    <3>2. CASE accepted[m] = faults + 1 /\ Settled(p, m)
      <4>1. Step(p) /\ accepted[m] > 0
        BY <1>0, <1>2, <2>5, <3>2 DEF Crash, Fault
      <4>2. ~Pending(p, m)'
        BY <3>2, <4>1, NotPending
      <4>3. Gone(m)' \/ Recalled(p, m)'
        BY <2>5, <3>2, <4>1, LiveWas, GoneStays, RecalledStep DEF Settled, KnownOK
      <4> QED
        BY <1>0, <2>5, <3>2, <4>2, <4>3 DEF Settled
    <3> QED
      BY <2>2, <3>1, <3>2
  <2> QED
    BY <2>1, <2>3, <2>4, <2>5
<1>3. CASE Environment
  BY <1>1, <1>3 DEF Environment, Arrive, OthersFlag, OthersExpunge, Recreate
<1>4. CASE UNCHANGED vars
  BY <1>1, <1>4 DEF vars
<1>5. ASSUME NEW p \in Procs, Step(p) \/ Crash(p), NEW q \in Procs PROVE q = p
  BY DEF Lone
<1> QED
  BY <1>2, <1>3, <1>4, <1>5 DEF Next

DupInv == KnownOK /\ (StateFile /\ Lone => JobTodo /\ ScanOK /\ Paid)

\* With a state file and runs that do not overlap, a message is accepted once, and
\* once more at most for each failure or death.
THEOREM ImapDuplicates == Spec => []DuplicatesAreFaults
<1>1. Init => DupInv
  <2> SUFFICES ASSUME Init PROVE DupInv
    OBVIOUS
  <2>1. KnownOK
    BY DEF Init, KnownOK
  <2>2. JobTodo /\ ScanOK
    BY DEF Init, JobTodo, ScanOK, HasJob
  <2>3. Paid
    BY DEF Init, Paid
  <2> QED
    BY <2>1, <2>2, <2>3 DEF DupInv
<1>2. IInv /\ DupInv /\ [Next]_vars => DupInv'
  BY KnownStep, JobTodoStep, ScanStep, PaidStep DEF DupInv, Lone
<1>3. IInv /\ DupInv => DuplicatesAreFaults
  <2> SUFFICES ASSUME IInv, DupInv, StateFile, Lone, NEW m \in arrived
               PROVE  accepted[m] <= 1 + faults
    BY DEF DuplicatesAreFaults
  <2>1. m \in Msgs /\ accepted[m] \in Nat /\ faults \in Nat
    BY BoundAssumption DEF IInv, TypeOK
  <2> QED
    BY <2>1 DEF DupInv, Paid
<1> QED
  BY <1>1, <1>2, <1>3, IInvHolds, PTL DEF Spec

(***************************************************************************)
(* The state file forgets nothing                                          *)
(***************************************************************************)

\* The state file can be read, and UID SEARCH ALL answers.
Legible == {"load", "searchall"} \cap Faults = {}

\* Only what has arrived is recorded, whether it was delivered or not.
ArrivedOK == RecordsIn(arrived)

\* The run remembers what the state file has, from Load to Save.
MemoryOK ==
    \A p \in Procs, m \in Msgs : Has(disk, m) => Scanned(p, m) /\ (Live(m) => Recalled(p, m))

RenameOK == \A p \in Procs : pc[p] = "rename" => StateFile

LEMMA ArrivedStep ==
    ASSUME IInv, ArrivedOK, [Next]_vars
    PROVE  ArrivedOK'
<1>1. ASSUME NEW q \in Procs, Clean(q) PROVE InHand(q) \in arrived
  BY <1>1 DEF Clean, IInv, JobOK, HasJob
<1>2. /\ StateIn(disk', arrived)
      /\ \A q \in Procs : StateIn(mem'[q], arrived)
      /\ \A q \in Procs : pc'[q] \in InSession =>
            \A u \in sess'[q].processed : <<KeyOf[acct'[q]], sess'[q].val, u>> \in arrived
  BY <1>1, RecordsStep DEF ArrivedOK
<1> QED
  BY <1>2, HistoryGrows DEF ArrivedOK, RecordsIn, StateIn, Key

LEMMA HasArrived ==
    ASSUME ArrivedOK, NEW m \in Msgs, Has(disk, m)
    PROVE  m \in arrived
<1>1. m = <<m[1], m[2], m[3]>> /\ m[1] \in Keys
  BY DEF Msgs
<1> QED
  BY <1>1 DEF ArrivedOK, RecordsIn, StateIn, Has

\* Unless it ends, a run keeps in mind what it found in the file.
LEMMA RecalledOn ==
    ASSUME IInv, StateFile, Legible, NEW p \in Procs, Step(p), pc'[p] # "idle",
           NEW m \in Msgs, Has(disk, m), Scanned(p, m), Live(m), Recalled(p, m)
    PROVE  Recalled(p, m)'
<1> TypeOK
  BY DEF IInv
<1>0. ~Fault("load") /\ ~Fault("searchall")
  BY DEF Fault, Legible
<1>1. CASE Start(p)
  BY <1>0, <1>1 DEF Start, Recalled, Working, Has, TypeOK
<1>2. CASE Open(p)
  BY <1>2 DEF Open, NextAccount, Recalled, Working, Has, TypeOK
<1>3. CASE End(p)
  BY <1>3 DEF End, Exit, Recalled, Working, Has, TypeOK
<1>4. CASE Rename(p)
  BY <1>4 DEF Rename, Exit, TypeOK
<1> QED
  BY <1>0, <1>1, <1>2, <1>3, <1>4, RecalledPrune, RecalledSession, RecalledFinish DEF Step

LEMMA MemoryStep ==
    ASSUME IInv, ArrivedOK, MemoryOK, StateFile, Lone, Legible, [Next]_vars
    PROVE  MemoryOK'
<1> TypeOK
  BY DEF IInv
<1> SUFFICES ASSUME NEW p \in Procs, NEW m \in Msgs, Has(disk, m)'
             PROVE  Scanned(p, m)' /\ (Live(m)' => Recalled(p, m)')
  BY DEF MemoryOK
<1>1. CASE pc'[p] = "idle"
  BY <1>1 DEF Recalled, Scanned, Working
<1>2. CASE pc'[p] # "idle"
  <2>1. disk' = disk
    <3>1. CASE Step(p) \/ Crash(p)
      BY <1>2, <3>1 DEF Step, Start, Open, Prune, Fetch, Post, Clean, Store, Finish, End, Rename,
         Crash, Exit, TypeOK
    <3> QED
      BY <3>1, EnvironmentStays DEF Next, Lone
  <2>2. Has(disk, m) /\ m \in arrived
    BY <2>1, HasArrived DEF Has
  <2>3. Scanned(p, m) /\ (Live(m) => Recalled(p, m)) /\ (Live(m)' => Live(m))
    BY <2>2, LiveWas DEF MemoryOK
  <2>4. Scanned(p, m)'
    BY <2>2, <2>3, ScannedStep
  <2>5. ASSUME Live(m)' PROVE Recalled(p, m)'
    <3>1. CASE Environment \/ UNCHANGED vars
      BY <2>3, <2>5, <3>1, EnvironmentStays DEF Recalled, Has, Key
    <3>2. CASE Step(p)
      BY <1>2, <2>2, <2>3, <2>5, <3>2, RecalledOn
    <3>3. ~Crash(p)
      BY <1>2 DEF Crash, Exit, TypeOK
    <3> QED
      BY <3>1, <3>2, <3>3 DEF Next, Lone
  <2> QED
    BY <2>4, <2>5
<1> QED
  BY <1>1, <1>2

LEMMA RenameStep ==
    ASSUME TypeOK, RenameOK, [Next]_vars
    PROVE  RenameOK'
<1> SUFFICES ASSUME NEW q \in Procs, pc'[q] = "rename" PROVE StateFile
  BY DEF RenameOK
<1>1. CASE pc'[q] = pc[q]
  BY <1>1 DEF RenameOK
<1>2. CASE End(q)
  BY <1>2 DEF End, Exit, TypeOK
<1>3. ASSUME NEW p \in Procs, Step(p) \/ Crash(p) PROVE End(q) \/ pc'[q] = pc[q]
  <2>1. CASE Start(p) \/ Open(p) \/ Prune(p) \/ Fetch(p) \/ Post(p)
    BY <2>1 DEF Start, Open, Prune, Fetch, Post, NextAccount, TypeOK
  <2>2. CASE Clean(p) \/ Store(p) \/ Finish(p) \/ Rename(p) \/ Crash(p)
    BY <2>2 DEF Clean, Store, Finish, NextAccount, Rename, Crash, Exit, TypeOK
  <2>3. CASE End(p)
    BY <2>3, OthersStay, <1>3
  <2> QED
    BY <1>3, <2>1, <2>2, <2>3 DEF Step
<1> QED
  BY <1>1, <1>2, <1>3, EnvironmentStays DEF Next

MemInv == ArrivedOK /\ RenameOK /\ (StateFile /\ Lone /\ Legible => MemoryOK)

\* A save keeps every recorded UID that is still on the server, and one that breaks
\* off keeps the file, as long as runs do not overlap, the file can be read when
\* the run starts, and UID SEARCH ALL, whose error runIMAPAccount ignores, answers:
\* any accounts, those of one mailbox with other searches too, any deletions,
\* deaths and failures of other commands and of the backend, any other clients.
THEOREM ImapRemembers == ASSUME Lone, Legible PROVE Spec => Remembered
<1> DEFINE Keeps == \A k \in Keys : disk[k].val = box[k].val =>
                       disk[k].uids \cap box[k].present \subseteq
                          IF disk'[k].val = disk[k].val THEN disk'[k].uids ELSE {}
<1>1. Init => MemInv
  <2> SUFFICES ASSUME Init PROVE MemInv
    OBVIOUS
  <2>1. ArrivedOK
    BY EmptyStateIn DEF Init, ArrivedOK, RecordsIn, InSession
  <2>2. MemoryOK
    BY DEF Init, MemoryOK, Has, EmptyState, Msgs
  <2> QED
    BY <2>1, <2>2 DEF Init, MemInv, RenameOK
<1>2. IInv /\ MemInv /\ [Next]_vars => MemInv'
  <2> SUFFICES ASSUME IInv, MemInv, [Next]_vars PROVE MemInv'
    OBVIOUS
  <2> QED
    BY ArrivedStep, RenameStep, MemoryStep DEF MemInv, IInv, Lone, Legible
<1>3. IInv /\ MemInv /\ [Next]_vars => Keeps
  <2> SUFFICES ASSUME IInv, MemInv, [Next]_vars PROVE Keeps
    OBVIOUS
  <2> TypeOK
    BY DEF IInv
  <2>1. CASE disk' = disk
    BY <2>1
  <2>2. ASSUME NEW p \in Procs, Rename(p), disk' = mem[p]
        PROVE  Keeps
    <3> SUFFICES ASSUME NEW k \in Keys, disk[k].val = box[k].val,
                        NEW u \in disk[k].uids \cap box[k].present
                 PROVE  disk'[k].val = disk[k].val /\ u \in disk'[k].uids
      OBVIOUS
    <3> DEFINE m == <<k, disk[k].val, u>>
    <3>1. pc[p] = "rename" /\ MemoryOK
      BY <2>2 DEF Rename, MemInv, RenameOK
    <3>2. m \in Msgs /\ m[1] = k /\ m[2] = disk[k].val /\ m[3] = u
      BY DEF TypeOK, Mailbox, Msgs
    <3>3. Has(disk, m) /\ Live(m)
      BY <3>2 DEF Has, Live
    <3>4. Recalled(p, m)
      BY <3>1, <3>2, <3>3 DEF MemoryOK
    <3>5. Has(mem[p], m)
      BY <3>1, <3>4 DEF Recalled, Working
    <3> QED
      BY <2>2, <3>2, <3>5 DEF Has
  <2>3. ASSUME NEW p \in Procs, Step(p) \/ Crash(p), disk' # disk
        PROVE  Rename(p) /\ disk' = mem[p]
    BY <2>3 DEF Step, Start, Open, Prune, Fetch, Post, Clean, Store, Finish, End, Rename, Crash
  <2> QED
    BY <2>1, <2>2, <2>3, EnvironmentStays DEF Next
<1>4. IInv /\ MemInv /\ [Next]_vars => [Keeps]_vars
  BY <1>3
<1> HIDE DEF Keeps
<1>5. Spec => [][Keeps]_vars
  BY <1>1, <1>2, <1>4, IInvHolds, PTL DEF Spec
<1> QED
  BY <1>5 DEF Keeps, Remembered
=============================================================================
