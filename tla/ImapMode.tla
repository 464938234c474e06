------------------------------ MODULE ImapMode ------------------------------
(***************************************************************************)
(* IMAP mode of the parser: internal/app/imap.go drives internal/imap,     *)
(* internal/imapstate, internal/app/run.go (processOne, cleanup) and       *)
(* internal/poster.                                                        *)
(*                                                                         *)
(* A process is one invocation of the program.  It is started again and    *)
(* again (cron), it may die at any point, and nothing in the code keeps    *)
(* two invocations from overlapping.  It loads the dedup state, serves its *)
(* accounts one after the other, and saves the state at the very end.      *)
(*                                                                         *)
(* A message is <<mailbox, epoch, uid>>: the epoch is the UIDVALIDITY the  *)
(* server gave the mailbox, and recreating the mailbox starts a new one in *)
(* which the UIDs count from 1 again.                                      *)
(***************************************************************************)
EXTENDS Integers, FiniteSets

CONSTANTS
    Procs,          \* invocations that may be alive at the same time
    NumAccounts,    \* <imap> accounts of the configuration, served in order
    Keys,           \* mailboxes, as stateKey names them
    KeyOf,          \* the mailbox of an account
    MaxUid,         \* bound: messages that arrive in one epoch of a mailbox
    MaxEpoch,       \* bound: times a mailbox is created
    Delete,         \* <delete> of an account
    SearchAll,      \* whether the <search> of an account is "ALL"
    MaxMessages,    \* global/max_pop3_messages: fetches per account and run
    MaxDelete,      \* global/max_pop3_delete: delete even if not delivered
    SuperClean,     \* global/super_clean: remove the saved message always
    DebugParse,     \* debug/parse: parse only
    StateFile,      \* whether global/imap_state is configured
    Poison,         \* UIDs of messages that cannot be parsed or are refused
    Faults,         \* kinds of failure that may happen
    MaxFaults,      \* bound: failures in a behaviour
    MaxAccepts      \* bound: the count of acceptances saturates here

Accounts == 1..NumAccounts
Uids == 1..MaxUid
Epochs == 1..MaxEpoch
Msgs == Keys \X Epochs \X Uids

FaultKinds == {"load", "open", "searchall", "fetch", "refuse", "lost",
               "hollow", "store", "expunge", "save", "crash"}

ASSUME BoundAssumption ==
    /\ NumAccounts \in Nat \ {0}
    /\ MaxUid \in Nat \ {0}
    /\ MaxEpoch \in Nat \ {0}
    /\ MaxFaults \in Nat
    /\ MaxAccepts \in Nat \ {0}

ASSUME ConfigAssumption ==
    /\ KeyOf \in [1..NumAccounts -> Keys]
    /\ Delete \in [1..NumAccounts -> BOOLEAN]
    /\ SearchAll \in [1..NumAccounts -> BOOLEAN]
    /\ MaxMessages \in Nat
    /\ {MaxDelete, SuperClean, DebugParse, StateFile} \subseteq BOOLEAN

ASSUME FaultAssumption ==
    /\ Poison \subseteq 1..MaxUid
    /\ Faults \subseteq FaultKinds

VARIABLES
    box,        \* the server: epoch, messages present, those flagged \Deleted
    arrived,    \* history: messages the server has ever had
    withdrawn,  \* history: messages another client flagged or destroyed
    accepted,   \* how often the backend took each message
    kept,       \* messages with a complete saved file that no process owns
    disk,       \* the state file: epoch and processed UIDs of each mailbox
    faults,     \* failures so far
    pc,         \* where each process is
    acct,       \* the account it serves
    mem,        \* the State it loaded
    sess,       \* its IMAP session
    job,        \* the message it has in hand
    rc          \* whether its exit code is still 0

vars == <<box, arrived, withdrawn, accepted, kept, disk, faults,
          pc, acct, mem, sess, job, rc>>

(***************************************************************************)
(* Values                                                                  *)
(***************************************************************************)

\* The epoch of a mailbox the state file has no entry for.
NoEpoch == 0

Mailbox == [val : Epochs, present : SUBSET Uids, flagged : SUBSET Uids]
Entry == [val : Epochs \cup {NoEpoch}, uids : SUBSET Uids]
Session == [val : Epochs \cup {NoEpoch}, todo : SUBSET Uids,
            processed : SUBSET Uids, deleted : BOOLEAN]
Job == [uid : Uids \cup {0}, full : BOOLEAN, delivered : BOOLEAN]

EmptyState == [k \in Keys |-> [val |-> NoEpoch, uids |-> {}]]
NoSession == [val |-> NoEpoch, todo |-> {}, processed |-> {}, deleted |-> FALSE]
NoJob == [uid |-> 0, full |-> FALSE, delivered |-> FALSE]

TypeOK ==
    /\ box \in [Keys -> Mailbox]
    /\ arrived \subseteq Msgs
    /\ withdrawn \subseteq Msgs
    /\ accepted \in [Msgs -> 0..MaxAccepts]
    /\ kept \subseteq Msgs
    /\ disk \in [Keys -> Entry]
    /\ faults \in 0..MaxFaults
    /\ pc \in [Procs -> {"idle", "open", "prune", "fetch",
                         "post", "clean", "store", "end", "rename"}]
    /\ acct \in [Procs -> Accounts]
    /\ mem \in [Procs -> [Keys -> Entry]]
    /\ sess \in [Procs -> Session]
    /\ job \in [Procs -> Job]
    /\ rc \in [Procs -> BOOLEAN]

Init ==
    /\ box = [k \in Keys |-> [val |-> 1, present |-> {}, flagged |-> {}]]
    /\ arrived = {}
    /\ withdrawn = {}
    /\ accepted = [m \in Msgs |-> 0]
    /\ kept = {}
    /\ disk = EmptyState
    /\ faults = 0
    /\ pc = [p \in Procs |-> "idle"]
    /\ acct = [p \in Procs |-> 1]
    /\ mem = [p \in Procs |-> EmptyState]
    /\ sess = [p \in Procs |-> NoSession]
    /\ job = [p \in Procs |-> NoJob]
    /\ rc = [p \in Procs |-> TRUE]

(***************************************************************************)
(* Helpers                                                                 *)
(***************************************************************************)

Key(p) == KeyOf[acct[p]]

\* The message a process has fetched.
InHand(p) == <<Key(p), sess[p].val, job[p].uid>>

Live(m) == m[2] = box[m[1]].val /\ m[3] \in box[m[1]].present
Gone(m) == m \in arrived /\ ~Live(m)

\* A failure of the given kind happens, within the bound.
Fault(kind) ==
    /\ kind \in Faults
    /\ faults < MaxFaults
    /\ faults' = faults + 1

\* The selected mailbox has been recreated under the session.
Stale(p) == sess[p].val # box[Key(p)].val

\* A command on the selected mailbox succeeds, or gets NO, BAD, an i/o error or
\* a timeout.
CommandWorks(p) == ~Stale(p) /\ UNCHANGED faults
CommandFails(p, kind) ==
    \/ Stale(p) /\ UNCHANGED faults
    \/ ~Stale(p) /\ Fault(kind)

Fails(p) == rc' = [rc EXCEPT ![p] = FALSE]

\* The next account of the configuration, or the end of the run.
NextAccount(p) ==
    /\ sess' = [sess EXCEPT ![p] = NoSession]
    /\ IF acct[p] < NumAccounts
       THEN /\ acct' = [acct EXCEPT ![p] = acct[p] + 1]
            /\ pc' = [pc EXCEPT ![p] = "open"]
       ELSE /\ acct' = acct
            /\ pc' = [pc EXCEPT ![p] = "end"]

\* A process leaves no memory behind.
Exit(p) ==
    /\ pc' = [pc EXCEPT ![p] = "idle"]
    /\ acct' = [acct EXCEPT ![p] = 1]
    /\ mem' = [mem EXCEPT ![p] = EmptyState]
    /\ sess' = [sess EXCEPT ![p] = NoSession]
    /\ job' = [job EXCEPT ![p] = NoJob]
    /\ rc' = [rc EXCEPT ![p] = TRUE]

\* The first MaxMessages UIDs of S, in the order the server listed them, which
\* the protocol leaves open.
Batches(S) == {b \in SUBSET S : \/ Cardinality(b) = MaxMessages
                                \/ b = S /\ Cardinality(S) < MaxMessages}

\* Mutant: the stored UIDVALIDITY is not compared.
ProcessedAnyEpoch(p) == IF StateFile THEN mem[p][Key(p)].uids ELSE {}

\* imapstate.State.Processed
Processed(p) == IF StateFile /\ mem[p][Key(p)].val = sess[p].val
                THEN mem[p][Key(p)].uids
                ELSE {}

(***************************************************************************)
(* Steps of a process                                                      *)
(***************************************************************************)

\* runIMAP loads the state; an unreadable file counts as an empty state.
Start(p) ==
    /\ pc[p] = "idle"
    /\ \/ /\ mem' = [mem EXCEPT ![p] = IF StateFile THEN disk ELSE EmptyState]
          /\ UNCHANGED faults
       \/ /\ StateFile
          /\ Fault("load")
          /\ mem' = [mem EXCEPT ![p] = EmptyState]
    /\ pc' = [pc EXCEPT ![p] = "open"]
    /\ UNCHANGED <<box, arrived, withdrawn, accepted, kept, disk,
                   acct, sess, job, rc>>

\* Connect, authenticate, SELECT and UID SEARCH.
Candidates(p) == IF SearchAll[acct[p]]
                 THEN {box[Key(p)].present}
                 ELSE SUBSET box[Key(p)].present

Open(p) ==
    /\ pc[p] = "open"
    /\ \/ /\ \E cand \in Candidates(p) :
                sess' = [sess EXCEPT ![p] = [val |-> box[Key(p)].val, todo |-> cand,
                                             processed |-> {}, deleted |-> FALSE]]
          /\ pc' = [pc EXCEPT ![p] = "prune"]
          /\ UNCHANGED <<acct, rc, faults>>
       \/ /\ Fault("open")
          /\ Fails(p)
          /\ NextAccount(p)
    /\ UNCHANGED <<box, arrived, withdrawn, accepted, kept, disk, mem, job>>

\* What the session believes is on the server: the candidates themselves when
\* they are everything, the answer to UID SEARCH ALL otherwise, and again the
\* candidates when that command fails.
OnServer(p, S) ==
    IF ~StateFile \/ SearchAll[acct[p]]
    THEN S = sess[p].todo /\ UNCHANGED faults
    ELSE \/ CommandWorks(p) /\ S = box[Key(p)].present
         \/ CommandFails(p, "searchall") /\ S = sess[p].todo

\* The processed set a session starts from: the prior one, pruned.
Carried(p, S) == Processed(p) \cap S

\* Mutant: the limit is applied to the candidates before the dedup.
UndedupedBatch(p) == {b \ Processed(p) : b \in Batches(sess[p].todo)}

\* What the session will fetch: the candidates not processed yet, cut at the limit.
Fetchable(p) == Batches(sess[p].todo \ Processed(p))

Prune(p) ==
    /\ pc[p] = "prune"
    /\ \E S \in {sess[p].todo, box[Key(p)].present},
          batch \in Fetchable(p) :
          /\ OnServer(p, S)
          /\ sess' = [sess EXCEPT ![p].processed = Carried(p, S),
                                  ![p].todo = batch]
    /\ pc' = [pc EXCEPT ![p] = "fetch"]
    /\ UNCHANGED <<box, arrived, withdrawn, accepted, kept, disk,
                   acct, mem, job, rc>>

\* UID FETCH into a temp file.  The server answers OK for a UID that is gone
\* and sends no data for it: the file is then empty.  A failure ends the loop.
Fetch(p) ==
    /\ pc[p] = "fetch"
    /\ \E u \in sess[p].todo :
          \/ /\ CommandWorks(p)
             /\ job' = [job EXCEPT ![p] = [uid |-> u, delivered |-> FALSE,
                                           full |-> u \in box[Key(p)].present]]
             /\ sess' = [sess EXCEPT ![p].todo = @ \ {u}]
             /\ pc' = [pc EXCEPT ![p] = "post"]
             /\ UNCHANGED rc
          \/ /\ CommandFails(p, "fetch")
             /\ sess' = [sess EXCEPT ![p].todo = {}]
             /\ Fails(p)
             /\ UNCHANGED <<job, pc>>
    /\ UNCHANGED <<box, arrived, withdrawn, accepted, kept, disk, acct, mem>>

\* The backend takes the message in hand; an empty file carries no message.
Accept(p) ==
    LET m == InHand(p) IN
    accepted' = IF job[p].full /\ accepted[m] < MaxAccepts
                THEN [accepted EXCEPT ![m] = @ + 1]
                ELSE accepted

Poisonous(p) == job[p].full /\ job[p].uid \in Poison

Delivered(p, d) == job' = [job EXCEPT ![p].delivered = d]

\* processOne parses the file and posts it.  The outcomes: accepted with an
\* empty reply, refused (an error reply, no connection, a panic), accepted with
\* the reply lost, an HTTP error with an empty body, and, when debug/parse is
\* set, no post at all.
Post(p) ==
    /\ pc[p] = "post"
    /\ \/ /\ DebugParse
          /\ Delivered(p, TRUE)
          /\ UNCHANGED <<accepted, faults>>
       \/ /\ ~DebugParse /\ ~Poisonous(p)
          /\ Accept(p)
          /\ Delivered(p, TRUE)
          /\ UNCHANGED faults
       \/ /\ ~DebugParse
          /\ IF Poisonous(p) THEN UNCHANGED faults ELSE Fault("refuse")
          /\ Delivered(p, FALSE)
          /\ UNCHANGED accepted
       \/ /\ ~DebugParse /\ ~Poisonous(p)
          /\ Fault("lost")
          /\ Accept(p)
          /\ Delivered(p, FALSE)
       \/ /\ ~DebugParse
          /\ Fault("hollow")
          /\ Delivered(p, TRUE)
          /\ UNCHANGED accepted
    /\ pc' = [pc EXCEPT ![p] = "clean"]
    /\ UNCHANGED <<box, arrived, withdrawn, kept, disk, acct, mem, sess, rc>>

\* Mutant: cleanup removes the saved file of a message that was not delivered.
NeverLeavesFile(p) == FALSE

\* cleanup leaves the saved file behind unless the message was delivered.
LeavesFile(p) == job[p].full /\ ~job[p].delivered /\ ~SuperClean

\* The UIDs processed after this message.
Recorded(p) == IF StateFile /\ job[p].delivered
               THEN sess[p].processed \cup {job[p].uid}
               ELSE sess[p].processed

\* Mutant: the result of the delivery is ignored.
DeletesUndelivered(p) == Delete[acct[p]]

\* Whether the message is to be deleted from the server.
Deletes(p) == Delete[acct[p]] /\ (MaxDelete \/ job[p].delivered)

\* cleanup, then runIMAPAccount acts on the result.
Clean(p) ==
    /\ pc[p] = "clean"
    /\ kept' = IF LeavesFile(p) THEN kept \cup {InHand(p)} ELSE kept
    /\ sess' = [sess EXCEPT ![p].processed = Recorded(p)]
    /\ IF job[p].delivered THEN UNCHANGED rc ELSE Fails(p)
    /\ IF Deletes(p)
       THEN pc' = [pc EXCEPT ![p] = "store"] /\ UNCHANGED job
       ELSE pc' = [pc EXCEPT ![p] = "fetch"] /\ job' = [job EXCEPT ![p] = NoJob]
    /\ UNCHANGED <<box, arrived, withdrawn, accepted, disk, faults, acct, mem>>

\* UID STORE +FLAGS (\Deleted).  A command that fails may have taken effect.
Flagged(p) ==
    box' = [box EXCEPT ![Key(p)].flagged = @ \cup ({job[p].uid} \cap box[Key(p)].present)]

Store(p) ==
    /\ pc[p] = "store"
    /\ \/ /\ CommandWorks(p)
          /\ Flagged(p)
          /\ sess' = [sess EXCEPT ![p].deleted = TRUE]
       \/ /\ CommandFails(p, "store")
          /\ \/ UNCHANGED box
             \/ ~Stale(p) /\ Flagged(p)
          /\ UNCHANGED sess
    /\ job' = [job EXCEPT ![p] = NoJob]
    /\ pc' = [pc EXCEPT ![p] = "fetch"]
    /\ UNCHANGED <<arrived, withdrawn, accepted, kept, disk, acct, mem, rc>>

\* EXPUNGE removes every flagged message, whoever flagged it.
Expunged(k) ==
    box' = [box EXCEPT ![k].present = @ \ box[k].flagged, ![k].flagged = {}]

\* Mutant: the entry replaces the whole state.
PutAlone(p) == mem' = [mem EXCEPT ![p] = [EmptyState EXCEPT
                          ![Key(p)] = [val |-> sess[p].val, uids |-> sess[p].processed]]]

\* Mutant: the old entry is put again, without what this run has added.
PutPrior(p) == mem' = [mem EXCEPT ![p][Key(p)] = [val |-> sess[p].val,
                                                  uids |-> Processed(p)]]

\* imapstate.State.Put
Put(p) == IF StateFile
          THEN mem' = [mem EXCEPT ![p][Key(p)] = [val |-> sess[p].val,
                                                  uids |-> sess[p].processed]]
          ELSE mem' = mem

\* The loop is over: EXPUNGE if anything was flagged, State.Put, LOGOUT.
Finish(p) ==
    /\ pc[p] = "fetch"
    /\ sess[p].todo = {}
    /\ IF ~sess[p].deleted
       THEN UNCHANGED <<box, faults>>
       ELSE \/ /\ CommandWorks(p)
               /\ Expunged(Key(p))
            \/ /\ CommandFails(p, "expunge")
               /\ \/ UNCHANGED box
                  \/ ~Stale(p) /\ Expunged(Key(p))
    /\ Put(p)
    /\ NextAccount(p)
    /\ UNCHANGED <<arrived, withdrawn, accepted, kept, disk, job, rc>>

\* Mutant: the state file itself is opened for writing.
Truncated(p) == EmptyState

\* What the state file holds while the new state is written.
DuringWrite(p) == disk

\* State.Save writes a temporary file; a failure is only logged, and the run ends.
End(p) ==
    /\ pc[p] = "end"
    /\ \/ /\ StateFile
          /\ pc' = [pc EXCEPT ![p] = "rename"]
          /\ disk' = DuringWrite(p)
          /\ UNCHANGED <<faults, acct, mem, sess, job, rc>>
       \/ /\ StateFile
          /\ Fault("save")
          /\ Exit(p)
          /\ UNCHANGED disk
       \/ /\ ~StateFile
          /\ Exit(p)
          /\ UNCHANGED <<disk, faults>>
    /\ UNCHANGED <<box, arrived, withdrawn, accepted, kept>>

\* It takes the place of the state file, and the run ends.
Rename(p) ==
    /\ pc[p] = "rename"
    /\ \/ disk' = mem[p] /\ UNCHANGED faults
       \/ Fault("save") /\ UNCHANGED disk
    /\ Exit(p)
    /\ UNCHANGED <<box, arrived, withdrawn, accepted, kept>>

\* The process dies.  A message it had fetched stays behind as a file.
Crash(p) ==
    /\ pc[p] # "idle"
    /\ Fault("crash")
    /\ kept' = IF pc[p] \in {"post", "clean"} /\ job[p].full
               THEN kept \cup {InHand(p)}
               ELSE kept
    /\ Exit(p)
    /\ UNCHANGED <<box, arrived, withdrawn, accepted, disk>>

(***************************************************************************)
(* The mailbox and its other clients (external)                            *)
(***************************************************************************)

\* The server gives UIDs in ascending order.
Arrive(k, u) ==
    LET m == <<k, box[k].val, u>> IN
    /\ m \notin arrived
    /\ \A v \in Uids : v < u => <<k, box[k].val, v>> \in arrived
    /\ arrived' = arrived \cup {m}
    /\ box' = [box EXCEPT ![k].present = @ \cup {u}]
    /\ UNCHANGED <<withdrawn, accepted, kept, disk, faults,
                   pc, acct, mem, sess, job, rc>>

\* Another client marks a message \Deleted.
OthersFlag(k, u) ==
    /\ u \in box[k].present \ box[k].flagged
    /\ box' = [box EXCEPT ![k].flagged = @ \cup {u}]
    /\ withdrawn' = withdrawn \cup {<<k, box[k].val, u>>}
    /\ UNCHANGED <<arrived, accepted, kept, disk, faults,
                   pc, acct, mem, sess, job, rc>>

OthersExpunge(k) ==
    /\ box[k].flagged # {}
    /\ Expunged(k)
    /\ UNCHANGED <<arrived, withdrawn, accepted, kept, disk, faults,
                   pc, acct, mem, sess, job, rc>>

\* The mailbox is deleted and created again: new UIDVALIDITY, UIDs from 1.
Recreate(k) ==
    /\ box[k].val < MaxEpoch
    /\ box' = [box EXCEPT ![k] = [val |-> box[k].val + 1,
                                  present |-> {}, flagged |-> {}]]
    /\ withdrawn' = withdrawn \cup {<<k, box[k].val, u>> : u \in box[k].present}
    /\ UNCHANGED <<arrived, accepted, kept, disk, faults,
                   pc, acct, mem, sess, job, rc>>

Environment ==
    \E k \in Keys :
        \/ \E u \in Uids : Arrive(k, u) \/ OthersFlag(k, u)
        \/ OthersExpunge(k)
        \/ Recreate(k)

Step(p) ==
    \/ Start(p) \/ Open(p) \/ Prune(p) \/ Fetch(p) \/ Post(p)
    \/ Clean(p) \/ Store(p) \/ Finish(p) \/ End(p) \/ Rename(p)

Next == Environment \/ \E p \in Procs : Step(p) \/ Crash(p)

Spec == Init /\ [][Next]_vars

\* cron starts the program again and again, and a started program runs on.
FairSpec == Spec /\ \A p \in Procs : WF_vars(Step(p))

(***************************************************************************)
(* Properties                                                              *)
(***************************************************************************)

\* A message that has left the mailbox, other than by the will of another
\* client, is in the backend or in a saved file on disk: whatever the order of
\* failures, deaths and overlapping runs, STORE and EXPUNGE come after a
\* delivery or after processOne has left the file behind.
NoLoss == \A m \in arrived : Gone(m) /\ m \notin withdrawn
                                => accepted[m] > 0 \/ m \in kept

\* Without max_pop3_delete only delivered messages are ever flagged or removed.
OnlyDeliveredAreDeleted ==
    ~MaxDelete => \A m \in arrived \ withdrawn :
                     Gone(m) \/ (Live(m) /\ m[3] \in box[m[1]].flagged)
                        => accepted[m] > 0

\* The dedup state never makes a run skip a message the backend does not have:
\* a UID recorded for the epoch of the entry is accepted, or gone for good.
DedupSound == \A k \in Keys : \A u \in disk[k].uids :
                 LET m == <<k, disk[k].val, u>> IN accepted[m] > 0 \/ Gone(m)

\* With a state file, and runs that do not overlap, the backend gets a message
\* again only after a failure or a death, and once at most for each: what was
\* accepted is in the state file, in the session, or gone.
Lone == \A p, q \in Procs : p = q
DuplicatesAreFaults == StateFile /\ Lone => \A m \in arrived : accepted[m] <= 1 + faults

\* The saved state never forgets a UID that is still on the server: runIMAPAccount
\* starts "the new processed set from the prior one pruned to UIDs still on the
\* server".
Remembered ==
    [][\A k \in Keys : disk[k].val = box[k].val =>
          disk[k].uids \cap box[k].present \subseteq
             IF disk'[k].val = disk[k].val THEN disk'[k].uids ELSE {}]_vars

\* Every message the server holds is finally accepted or withdrawn, when fewer
\* messages are poison than a run may fetch; only max_pop3_delete lets a saved
\* file stand in for it.  The dedup, cut at max_pop3_messages, starves nothing.
Waiting(m) == Live(m) /\ m[3] \notin Poison
Handled == \A m \in Msgs :
              Waiting(m) ~> \/ accepted[m] > 0
                            \/ m \in withdrawn
                            \/ MaxDelete /\ m \in kept

\* Poster.Deliver "returns whether the message was accepted (delivered)".
DeliveredMeansAccepted ==
    \A p \in Procs : pc[p] = "clean" /\ job[p].full /\ job[p].delivered
                         => accepted[InHand(p)] > 0
=============================================================================
