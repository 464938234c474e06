--------------------------- MODULE PipeModeProofs ----------------------------
(***************************************************************************)
(* Theorems about PipeMode, for any number of messages, of runs and of     *)
(* failures.                                                               *)
(***************************************************************************)
EXTENDS PipeCustody, FiniteSetTheorems, TLAPS

USE PipeAssumption

Pcs == {"none", "start", "create", "read", "write", "parse", "boot", "post",
        "clean", "remove", "exit"}

\* Where a run may still post its message.
BeforePost == {"start", "create", "read", "write", "parse", "boot", "post"}

Processing == {"parse", "boot", "post", "clean", "remove"}

(***************************************************************************)
(* The inductive invariant                                                 *)
(***************************************************************************)

\* What a run at l has in hand, whatever the others do: nothing before the
\* input is read, then what was read; and what it leaves when it ends.
Local(l, j) ==
    /\ l = "none" <=> j.msg = NoMsg
    /\ l \in {"none", "start", "create"} => j.file = "none"
    /\ l \in {"read", "write"} => j.file = "empty"
    /\ l \in {"none", "start", "create", "read", "write"} => ~j.parts
    /\ l \in {"none"} \cup BeforePost => ~j.delivered
    /\ l = "write" => j.data \in {"half", "whole"}
    /\ l \in Processing => j.data \in {"half", "whole"} /\ j.file = j.data
    /\ j.data = "half" => j.orphan
    /\ l \in {"remove", "exit"} => (j.parts => ~j.email)
    /\ l = "exit" => /\ j.file # "empty"
                     /\ j.delivered => j.file = "none"
                     /\ j.cfg.superClean => j.file \in {"none", "half"}

Locals == \A p \in Procs : Local(pc[p], job[p])

\* A run the MTA waits for has a message of the queue, and has it alone.
Waited(p) == pc[p] # "none" /\ ~job[p].orphan

Held == \A p \in Procs : Waited(p) => job[p].msg \in queue

Alone == \A p, q \in Procs :
            Waited(p) /\ Waited(q) /\ job[p].msg = job[q].msg => p = q

\* What the MTA will hear of as delivered is delivered.
Honest == \A p \in Procs : Waited(p) /\ job[p].delivered
                              => job[p].msg \in Backend \cup excused

Types ==
    /\ queue \subseteq Msgs
    /\ arrived \subseteq Msgs
    /\ returned \subseteq Msgs
    /\ excused \subseteq Msgs
    /\ accepted \in [Msgs -> 0..MaxAccepts]
    /\ left \subseteq Leftover
    /\ expired \in BOOLEAN
    /\ faults \in 0..MaxFaults
    /\ pc \in [Procs -> Pcs]
    /\ job \in [Procs -> Job]

IInv == Types /\ Locals /\ Held /\ Alone /\ Honest /\ NoLoss /\ Tidy

LEMMA InvTypeOK == IInv => TypeOK
  BY DEF IInv, Types, TypeOK, Locals, Local, Pcs, Processing

LEMMA InvCut == IInv => CutByMta
  BY DEF IInv, Types, Locals, Local, Processing, CutByMta

LEMMA InitInv == Init => IInv
  <1> SUFFICES ASSUME Init PROVE IInv
    OBVIOUS
  <1>1. JobOf(NoMsg) \in Job /\ Local("none", JobOf(NoMsg))
    BY DEF JobOf, Job, Local, NoConfig, Config, Content, BeforePost, Processing
  <1>2. Types
    <2>1. /\ pc \in [Procs -> Pcs] /\ job \in [Procs -> Job]
      BY <1>1 DEF Init, Pcs
    <2>2. accepted \in [Msgs -> 0..MaxAccepts] /\ faults \in 0..MaxFaults
      BY DEF Init
    <2> QED
      BY <2>1, <2>2 DEF Init, Types
  <1>3. Locals
    BY <1>1 DEF Init, Locals
  <1> QED
    BY <1>2, <1>3 DEF Init, IInv, Held, Alone, Honest, Waited, NoLoss, Tidy

(***************************************************************************)
(* A run goes on                                                           *)
(***************************************************************************)

\* Only run p changes, and what it then has in hand is as it should be.
LEMMA ContinueKeeps ==
    ASSUME Types, Locals, NEW p \in Procs, NEW l \in Pcs, NEW j \in Job,
           Continue(p, j, l), Local(l, j)
    PROVE  /\ pc' \in [Procs -> Pcs] /\ job' \in [Procs -> Job]
           /\ Locals'
           /\ pc'[p] = l /\ job'[p] = j
           /\ \A q \in Procs \ {p} : pc'[q] = pc[q] /\ job'[q] = job[q]
  BY DEF Types, Locals, Continue, Goto

\* The steps between the start of a run and its end, as the others see them.
Going(p, j, l) ==
    /\ Continue(p, j, l)
    /\ j \in Job
    /\ l \in Pcs \ {"none"}
    /\ Local(l, j)
    /\ j.msg = job[p].msg
    /\ j.orphan = job[p].orphan
    /\ UNCHANGED <<mta, left, expired>>
    /\ faults' \in {faults, faults + 1} /\ faults' <= MaxFaults
    /\ accepted' \in [Msgs -> 0..MaxAccepts]
    /\ Backend \subseteq Backend'
    /\ excused \subseteq excused' /\ excused' \subseteq Msgs \cap (excused \cup {job[p].msg})
    /\ j.delivered /\ ~j.orphan =>
          job[p].delivered \/ job[p].msg \in Backend' \cup excused'

LEMMA GoingInv ==
    ASSUME IInv, NEW p \in Procs, NEW j, NEW l, pc[p] # "none", Going(p, j, l)
    PROVE  IInv'
  <1>0. Types /\ Locals /\ j \in Job /\ l \in Pcs /\ Local(l, j) /\ Continue(p, j, l)
    BY DEF IInv, Going
  <1>1. /\ pc' \in [Procs -> Pcs] /\ job' \in [Procs -> Job]
        /\ Locals'
        /\ pc'[p] = l /\ job'[p] = j
        /\ \A q \in Procs \ {p} : pc'[q] = pc[q] /\ job'[q] = job[q]
    BY <1>0, ContinueKeeps
  <1>2. Types'
    BY <1>0, <1>1 DEF Types, Going, mta
  <1>3. \A q \in Procs : /\ Waited(q)' = Waited(q)
                         /\ job'[q].msg = job[q].msg
    BY <1>1 DEF Waited, Going
  <1>4. Held' /\ Alone'
    BY <1>3 DEF IInv, Held, Alone, Going, mta
  <1>5. Honest'
    <2> SUFFICES ASSUME NEW q \in Procs, Waited(q)', job'[q].delivered
                 PROVE  job'[q].msg \in Backend' \cup excused'
      BY DEF Honest
    <2>1. Waited(q)
      BY <1>3
    <2>2. job[q].delivered => job[q].msg \in Backend \cup excused
      BY <2>1 DEF IInv, Honest
    <2> QED
      BY <1>1, <1>3, <2>2 DEF Going, Waited
  <1>6. NoLoss' /\ Tidy'
    BY DEF IInv, NoLoss, Tidy, Going, mta
  <1> QED
    BY <1>1, <1>2, <1>4, <1>5, <1>6 DEF IInv

\* A failure is counted, and within the bound.
LEMMA FaultCounts ==
    ASSUME Types, NEW kind, Fault(kind)
    PROVE  faults' = faults + 1 /\ faults' <= MaxFaults
  BY DEF Types, Fault

\* Every record field of a job has its type.
LEMMA JobFields ==
    ASSUME Types, NEW p \in Procs
    PROVE  /\ job[p] \in Job /\ pc[p] \in Pcs
           /\ job[p].msg \in Msgs \cup {NoMsg} /\ job[p].cfg \in Config
           /\ job[p].orphan \in BOOLEAN /\ job[p].data \in Content
           /\ job[p].file \in Content /\ job[p].parts \in BOOLEAN
           /\ job[p].email \in BOOLEAN /\ job[p].delivered \in BOOLEAN
           /\ job[p].cfg.debugParse \in BOOLEAN
           /\ faults <= MaxFaults /\ faults \in Nat
  BY DEF Types, Job, Config

\* A run posts once: it accepts nothing before and nothing after.
Counts(p, j, l) ==
    LET m == job[p].msg IN
    /\ l \in BeforePost => pc[p] \in BeforePost
    /\ job[p].delivered => j.delivered
    /\ \A n \in Msgs \ {m} : accepted'[n] = accepted[n]
    /\ \/ accepted'[m] = accepted[m]
       \/ /\ pc[p] \in BeforePost /\ l \notin BeforePost
          /\ accepted'[m] = accepted[m] + 1
          /\ j.delivered \/ faults' = faults + 1

Goes(p) == \E j, l : Going(p, j, l) /\ Counts(p, j, l)

\* A step that touches nothing outside the run, but may count a failure.
LEMMA Inside ==
    ASSUME IInv, NEW p \in Procs, NEW l \in Pcs \ {"none"}, NEW j \in Job,
           Continue(p, j, l), Local(l, j), j.msg = job[p].msg,
           j.orphan = job[p].orphan, j.delivered = job[p].delivered,
           l \in BeforePost => pc[p] \in BeforePost,
           UNCHANGED outside, faults' \in {faults, faults + 1}, faults' <= MaxFaults
    PROVE  Goes(p)
  <1>1. Going(p, j, l)
    BY DEF Going, outside, Backend, IInv, Types
  <1>2. Counts(p, j, l)
    BY DEF Counts, outside
  <1> QED
    BY <1>1, <1>2 DEF Goes

LEMMA LoadConfigGoes ==
    ASSUME IInv, NEW p \in Procs, LoadConfig(p)
    PROVE  Goes(p)
  <1>0. Types /\ Local(pc[p], job[p]) /\ pc[p] = "start" /\ UNCHANGED outside
    BY DEF IInv, Locals, LoadConfig
  <1>1. ASSUME NEW c \in Configs, UNCHANGED faults,
               Continue(p, [job[p] EXCEPT !.cfg = c], "create")
        PROVE  Goes(p)
    <2> DEFINE j == [job[p] EXCEPT !.cfg = c]
    <2>1. j \in Job /\ c \in Config
      BY <1>0, JobFields DEF Job
    <2>2. Local("create", j)
      BY <1>0, JobFields DEF Local, Job, BeforePost, Processing
    <2> QED
      BY <1>0, <1>1, <2>1, <2>2, JobFields, Inside DEF Pcs, Job, BeforePost
  <1>2. ASSUME Fault("config"), Continue(p, job[p], "exit")
        PROVE  Goes(p)
    <2>1. Local("exit", job[p])
      BY <1>0, JobFields DEF Local, BeforePost, Processing
    <2> QED
      BY <1>0, <1>2, <2>1, JobFields, FaultCounts, Inside DEF Pcs, BeforePost
  <1> QED
    BY <1>1, <1>2 DEF LoadConfig

LEMMA CreateTempGoes ==
    ASSUME IInv, NEW p \in Procs, CreateTemp(p)
    PROVE  Goes(p)
  <1>0. Types /\ Local(pc[p], job[p]) /\ pc[p] = "create" /\ UNCHANGED outside
    BY DEF IInv, Locals, CreateTemp
  <1>1. ASSUME UNCHANGED faults, Continue(p, [job[p] EXCEPT !.file = "empty"], "read")
        PROVE  Goes(p)
    <2> DEFINE j == [job[p] EXCEPT !.file = "empty"]
    <2>1. j \in Job
      BY <1>0, JobFields DEF Job, Content
    <2>2. Local("read", j)
      BY <1>0, JobFields DEF Local, Job, BeforePost, Processing
    <2> QED
      BY <1>0, <1>1, <2>1, <2>2, JobFields, Inside DEF Pcs, Job, BeforePost
  <1>2. ASSUME Fault("create"), Continue(p, job[p], "exit")
        PROVE  Goes(p)
    <2>1. Local("exit", job[p])
      BY <1>0, JobFields DEF Local, BeforePost, Processing
    <2> QED
      BY <1>0, <1>2, <2>1, JobFields, FaultCounts, Inside DEF Pcs, BeforePost
  <1> QED
    BY <1>1, <1>2 DEF CreateTemp

LEMMA ReadAllGoes ==
    ASSUME IInv, NEW p \in Procs, ReadAll(p)
    PROVE  Goes(p)
  <1>0. Types /\ Local(pc[p], job[p]) /\ pc[p] = "read" /\ UNCHANGED outside
    BY DEF IInv, Locals, ReadAll
  <1>1. ASSUME NEW d \in Input(p), HasInput(d), UNCHANGED faults,
               Continue(p, [job[p] EXCEPT !.data = d], "write")
        PROVE  Goes(p)
    <2> DEFINE j == [job[p] EXCEPT !.data = d]
    <2>1. d \in {"half", "whole"} /\ (d = "half" => job[p].orphan)
      BY <1>1 DEF Input, HasInput
    <2>2. j \in Job
      BY <1>0, <2>1, JobFields DEF Job, Content
    <2>3. Local("write", j)
      BY <1>0, <2>1, JobFields DEF Local, Job, BeforePost, Processing
    <2> QED
      BY <1>0, <1>1, <2>2, <2>3, JobFields, Inside DEF Pcs, Job, BeforePost
  <1>2. ASSUME GivesUp(p), faults' \in {faults, faults + 1}, faults' <= MaxFaults
        PROVE  Goes(p)
    <2> DEFINE j == [job[p] EXCEPT !.file = "none"]
    <2>1. j \in Job
      BY <1>0, JobFields DEF Job, Content
    <2>2. Local("exit", j)
      BY <1>0, JobFields DEF Local, Job, BeforePost, Processing
    <2> QED
      BY <1>0, <1>2, <2>1, <2>2, JobFields, Inside DEF Pcs, Job, BeforePost, GivesUp
  <1>3. ASSUME Fault("read"), ReadFails(p)
        PROVE  Goes(p)
    BY <1>0, <1>2, <1>3, FaultCounts DEF ReadFails
  <1> QED
    BY <1>0, <1>1, <1>2, <1>3, JobFields DEF ReadAll

LEMMA WriteGoes ==
    ASSUME IInv, NEW p \in Procs, Write(p)
    PROVE  Goes(p)
  <1>0. Types /\ Local(pc[p], job[p]) /\ pc[p] = "write" /\ UNCHANGED outside
    BY DEF IInv, Locals, Write
  <1>1. ASSUME UNCHANGED faults,
               Continue(p, [job[p] EXCEPT !.file = job[p].data], "parse")
        PROVE  Goes(p)
    <2> DEFINE j == [job[p] EXCEPT !.file = job[p].data]
    <2>1. j \in Job
      BY <1>0, JobFields DEF Job
    <2>2. Local("parse", j)
      BY <1>0, JobFields DEF Local, Job, BeforePost, Processing
    <2> QED
      BY <1>0, <1>1, <2>1, <2>2, JobFields, Inside DEF Pcs, Job, BeforePost
  <1>2. ASSUME Fault("write"), Continue(p, [job[p] EXCEPT !.file = "half"], "exit")
        PROVE  Goes(p)
    <2> DEFINE j == [job[p] EXCEPT !.file = "half"]
    <2>1. j \in Job
      BY <1>0, JobFields DEF Job, Content
    <2>2. Local("exit", j)
      BY <1>0, JobFields DEF Local, Job, BeforePost, Processing
    <2> QED
      BY <1>0, <1>2, <2>1, <2>2, JobFields, FaultCounts, Inside
         DEF Pcs, Job, BeforePost
  <1> QED
    BY <1>1, <1>2 DEF Write

\* A message feigned to be delivered is excused, if the MTA waits for it.
LEMMA FeignedOK ==
    ASSUME IInv, NEW p \in Procs, pc[p] # "none", Feigned(p)
    PROVE  /\ excused \subseteq excused' /\ excused' \subseteq Msgs \cap (excused \cup {job[p].msg})
           /\ ~job[p].orphan => job[p].msg \in excused'
  BY DEF Feigned, IInv, Types, Held, Waited

LEMMA ParseGoes ==
    ASSUME IInv, NEW p \in Procs, Parse(p)
    PROVE  Goes(p)
  <1>0. /\ Types /\ Local(pc[p], job[p]) /\ pc[p] = "parse"
        /\ UNCHANGED <<mta, accepted, left, expired>>
    BY DEF IInv, Locals, Parse
  <1>1. ASSUME Parsed(p), UNCHANGED faults,
               IF job[p].cfg.debugParse THEN Feigned(p) ELSE UNCHANGED excused
        PROVE  Goes(p)
    <2> DEFINE j == [job[p] EXCEPT !.parts = TRUE, !.email = TRUE,
                                   !.delivered = job[p].cfg.debugParse]
               l == IF job[p].cfg.debugParse THEN "clean"
                    ELSE IF job[p].cfg.xsp THEN "boot" ELSE "post"
    <2>1. j \in Job
      BY <1>0, JobFields DEF Job
    <2>2. l \in {"clean", "boot", "post"} /\ (l # "clean" => ~j.delivered)
      BY <1>0, JobFields DEF Job
    <2>3. Local(l, j)
      BY <1>0, <2>2, JobFields DEF Local, Job, BeforePost, Processing
    <2>4. Continue(p, j, l)
      BY <1>1 DEF Parsed
    <2>5. /\ excused \subseteq excused' /\ excused' \subseteq Msgs \cap (excused \cup {job[p].msg})
          /\ j.delivered /\ ~job[p].orphan => job[p].msg \in excused'
      BY <1>0, <1>1, FeignedOK, JobFields DEF Types, Job
    <2>6. j.msg = job[p].msg /\ j.orphan = job[p].orphan
      BY <1>0, JobFields DEF Job
    <2>7. Backend \subseteq Backend' /\ accepted' \in [Msgs -> 0..MaxAccepts]
      BY <1>0 DEF Backend, Types
    <2>8. l \in Pcs \ {"none"} /\ faults' \in {faults, faults + 1} /\ faults' <= MaxFaults
      BY <1>0, <1>1, <2>2, JobFields DEF Pcs
    <2>9. Going(p, j, l)
      BY <1>0, <2>1, <2>3, <2>4, <2>5, <2>6, <2>7, <2>8 DEF Going
    <2>10. Counts(p, j, l)
      BY <1>0, <2>2 DEF Counts, BeforePost, Local
    <2> QED
      BY <2>9, <2>10 DEF Goes
  <1>2. ASSUME Fault("open"), Continue(p, job[p], "clean"), UNCHANGED excused
        PROVE  Goes(p)
    <2>1. Local("clean", job[p])
      BY <1>0, JobFields DEF Local, BeforePost, Processing
    <2> QED
      BY <1>0, <1>2, <2>1, JobFields, FaultCounts, Inside DEF Pcs, BeforePost, outside
  <1>3. ASSUME Fault("panic"), UNCHANGED excused,
               Continue(p, [job[p] EXCEPT !.parts = TRUE], "clean")
        PROVE  Goes(p)
    <2> DEFINE j == [job[p] EXCEPT !.parts = TRUE]
    <2>1. j \in Job
      BY <1>0, JobFields DEF Job
    <2>2. Local("clean", j)
      BY <1>0, JobFields DEF Local, Job, BeforePost, Processing
    <2> QED
      BY <1>0, <1>3, <2>1, <2>2, JobFields, FaultCounts, Inside
         DEF Pcs, Job, BeforePost, outside
  <1> QED
    BY <1>1, <1>2, <1>3 DEF Parse

LEMMA BootGoes ==
    ASSUME IInv, NEW p \in Procs, Boot(p)
    PROVE  Goes(p)
  <1>0. /\ Types /\ Local(pc[p], job[p]) /\ pc[p] = "boot"
        /\ UNCHANGED outside /\ job' = job
    BY DEF IInv, Locals, Boot
  <1>1. job' = [job EXCEPT ![p] = job[p]]
    BY <1>0 DEF Types
  <1>2. ASSUME NEW l \in {"post", "clean"}, Goto(p, l),
               faults' \in {faults, faults + 1}, faults' <= MaxFaults
        PROVE  Goes(p)
    <2>1. Local(l, job[p])
      BY <1>0, JobFields DEF Local, BeforePost, Processing
    <2>2. Continue(p, job[p], l)
      BY <1>1, <1>2 DEF Continue
    <2> QED
      BY <1>0, <1>2, <2>1, <2>2, JobFields, Inside DEF Pcs, BeforePost
  <1> QED
    BY <1>0, <1>2, JobFields, FaultCounts DEF Boot

\* What an acceptance counts for.
LEMMA AcceptOK ==
    ASSUME IInv, NEW p \in Procs, pc[p] # "none", Accept(p)
    PROVE  LET m == job[p].msg IN
           /\ accepted' \in [Msgs -> 0..MaxAccepts]
           /\ Backend \subseteq Backend'
           /\ \A n \in Msgs \ {m} : accepted'[n] = accepted[n]
           /\ accepted'[m] = accepted[m] \/ accepted'[m] = accepted[m] + 1
           /\ job[p].file = "whole" => m \in Backend'
  <1> DEFINE m == job[p].msg
  <1>1. m \in Msgs
    BY JobFields DEF IInv, Locals, Local
  <1>2. accepted \in [Msgs -> 0..MaxAccepts] /\ MaxAccepts \in Nat \ {0}
    BY DEF IInv, Types
  <1>3. CASE job[p].file = "whole" /\ accepted[m] < MaxAccepts
    <2>1. accepted' = [accepted EXCEPT ![m] = accepted[m] + 1]
      BY <1>3 DEF Accept
    <2>2. accepted' \in [Msgs -> 0..MaxAccepts] /\ accepted'[m] = accepted[m] + 1
      BY <1>1, <1>2, <1>3, <2>1
    <2>3. \A n \in Msgs : accepted'[n] >= accepted[n]
      BY <1>1, <1>2, <2>1
    <2>4. Backend \subseteq Backend' /\ m \in Backend'
      BY <1>1, <1>2, <2>2, <2>3 DEF Backend
    <2> QED
      BY <1>1, <1>2, <2>1, <2>2, <2>4
  <1>4. CASE ~(job[p].file = "whole" /\ accepted[m] < MaxAccepts)
    <2>1. accepted' = accepted
      BY <1>4 DEF Accept
    <2>2. job[p].file = "whole" => m \in Backend
      BY <1>1, <1>2, <1>4 DEF Backend
    <2> QED
      BY <1>2, <2>1, <2>2 DEF Backend
  <1> QED
    BY <1>3, <1>4

LEMMA PostGoes ==
    ASSUME IInv, NEW p \in Procs, Post(p)
    PROVE  Goes(p)
  <1>0. /\ Types /\ Local(pc[p], job[p]) /\ pc[p] = "post"
        /\ UNCHANGED <<mta, left, expired>>
    BY DEF IInv, Locals, Post
  <1>1. job[p].file \in {"half", "whole"} /\ (~job[p].orphan => job[p].file = "whole")
    BY <1>0 DEF Local, Processing
  <1> DEFINE j(d) == [job[p] EXCEPT !.delivered = d]
             m == job[p].msg
  <1>2. ASSUME NEW d \in BOOLEAN
        PROVE  /\ j(d) \in Job /\ Local("clean", j(d))
               /\ j(d).delivered = d /\ j(d).msg = m /\ j(d).orphan = job[p].orphan
    <2>1. j(d) \in Job
      BY <1>0, JobFields DEF Job
    <2>2. Local("clean", j(d))
      BY <1>0, JobFields DEF Local, Job, BeforePost, Processing
    <2> QED
      BY <1>0, <2>1, <2>2, JobFields DEF Job
  <1>3. "clean" \in Pcs \ {"none"} /\ "clean" \notin BeforePost /\ "post" \in BeforePost
    BY DEF Pcs, BeforePost
  <1>4. ~job[p].delivered
    BY <1>0 DEF Local, BeforePost
  <1>5. ASSUME Accept(p), UNCHANGED excused, NEW d \in BOOLEAN, Delivers(p, d),
               faults' \in {faults, faults + 1}, faults' <= MaxFaults,
               d \/ faults' = faults + 1
        PROVE  Goes(p)
    <2>1. Continue(p, j(d), "clean")
      BY <1>5 DEF Delivers
    <2>2. /\ accepted' \in [Msgs -> 0..MaxAccepts]
          /\ Backend \subseteq Backend'
          /\ \A n \in Msgs \ {m} : accepted'[n] = accepted[n]
          /\ accepted'[m] = accepted[m] \/ accepted'[m] = accepted[m] + 1
          /\ job[p].file = "whole" => m \in Backend'
      BY <1>0, <1>5, AcceptOK
    <2>3. Going(p, j(d), "clean")
      BY <1>0, <1>1, <1>2, <1>3, <1>5, <2>1, <2>2 DEF Going, Types
    <2>4. Counts(p, j(d), "clean")
      BY <1>0, <1>2, <1>3, <1>4, <1>5, <2>2 DEF Counts
    <2> QED
      BY <2>3, <2>4 DEF Goes
  <1>6. ASSUME UNCHANGED accepted, NEW d \in BOOLEAN, Delivers(p, d),
               IF d THEN Feigned(p) ELSE UNCHANGED excused,
               faults' \in {faults, faults + 1}, faults' <= MaxFaults
        PROVE  Goes(p)
    <2>1. Continue(p, j(d), "clean")
      BY <1>6 DEF Delivers
    <2>2. /\ excused \subseteq excused' /\ excused' \subseteq Msgs \cap (excused \cup {job[p].msg})
          /\ d /\ ~job[p].orphan => m \in excused'
      BY <1>0, <1>6, FeignedOK DEF Types
    <2>3. Backend \subseteq Backend' /\ accepted' \in [Msgs -> 0..MaxAccepts]
      BY <1>0, <1>6 DEF Backend, Types
    <2>4. Going(p, j(d), "clean")
      BY <1>0, <1>2, <1>3, <1>6, <2>1, <2>2, <2>3 DEF Going
    <2>5. Counts(p, j(d), "clean")
      BY <1>0, <1>2, <1>3, <1>4, <1>6 DEF Counts
    <2> QED
      BY <2>4, <2>5 DEF Goes
  <1> QED
    BY <1>0, <1>5, <1>6, JobFields, FaultCounts DEF Post

LEMMA CleanPartsGoes ==
    ASSUME IInv, NEW p \in Procs, CleanParts(p)
    PROVE  Goes(p)
  <1>0. /\ Types /\ Local(pc[p], job[p]) /\ pc[p] = "clean" /\ UNCHANGED outside
        /\ faults' = faults
    BY DEF IInv, Locals, CleanParts
  <1> DEFINE j == [job[p] EXCEPT !.parts = job[p].parts /\ ~job[p].email]
  <1>1. j \in Job
    BY <1>0, JobFields DEF Job
  <1>2. Local("remove", j)
    BY <1>0, JobFields DEF Local, Job, BeforePost, Processing
  <1>3. Continue(p, j, "remove")
    BY DEF CleanParts, KnowsParts
  <1> QED
    BY <1>0, <1>1, <1>2, <1>3, JobFields, Inside DEF Pcs, Job, BeforePost

LEMMA RemoveFileGoes ==
    ASSUME IInv, NEW p \in Procs, RemoveFile(p)
    PROVE  Goes(p)
  <1>0. /\ Types /\ Local(pc[p], job[p]) /\ pc[p] = "remove" /\ UNCHANGED outside
        /\ faults' = faults
    BY DEF IInv, Locals, RemoveFile
  <1> DEFINE f == IF job[p].delivered \/ job[p].cfg.superClean
                  THEN "none" ELSE job[p].file
             j == [job[p] EXCEPT !.file = f]
  <1>1. j \in Job
    BY <1>0, JobFields DEF Job, Content
  <1>2. Local("exit", j)
    BY <1>0, JobFields DEF Local, Job, BeforePost, Processing
  <1>3. Continue(p, j, "exit")
    BY DEF RemoveFile
  <1> QED
    BY <1>0, <1>1, <1>2, <1>3, JobFields, Inside DEF Pcs, Job, BeforePost

(***************************************************************************)
(* A run ends, the MTA and the clock                                       *)
(***************************************************************************)

LEMMA NoJobOK == JobOf(NoMsg) \in Job /\ Local("none", JobOf(NoMsg))
  BY DEF JobOf, Job, Local, NoConfig, Config, Content, BeforePost, Processing

\* A run that is gone: the others keep what they have.
LEMMA EndsKeeps ==
    ASSUME IInv, NEW p \in Procs, Ends(p)
    PROVE  /\ pc' \in [Procs -> Pcs] /\ job' \in [Procs -> Job]
           /\ Locals'
           /\ ~Waited(p)' /\ job'[p].msg = NoMsg
           /\ \A q \in Procs \ {p} : pc'[q] = pc[q] /\ job'[q] = job[q]
  <1>1. Continue(p, JobOf(NoMsg), "none") /\ "none" \in Pcs
    BY DEF Ends, Pcs
  <1>2. Types /\ Locals
    BY DEF IInv
  <1>3. /\ pc' \in [Procs -> Pcs] /\ job' \in [Procs -> Job]
        /\ Locals'
        /\ pc'[p] = "none" /\ job'[p] = JobOf(NoMsg)
        /\ \A q \in Procs \ {p} : pc'[q] = pc[q] /\ job'[q] = job[q]
    BY <1>1, <1>2, NoJobOK, ContinueKeeps
  <1> QED
    BY <1>3 DEF Waited, JobOf

\* What is left is on record as it is, and a run that ends by itself is tidy.
LEMMA LeavesOK ==
    ASSUME IInv, NEW p \in Procs, pc[p] # "none", NEW how \in Endings,
           Leaves(p, how),
           how # "killed" => pc[p] = "exit" /\ (how = "ok" <=> job[p].delivered)
    PROVE  left' \subseteq Leftover /\ Tidy'
  <1> DEFINE j == job[p]
             l == [msg |-> j.msg, file |-> j.file, parts |-> j.parts,
                   email |-> j.email, end |-> how, superClean |-> j.cfg.superClean]
  <1>1. Types /\ Local(pc[p], j) /\ Tidy
    BY DEF IInv, Locals
  <1>2. l \in Leftover
    BY <1>1, JobFields DEF Leftover, Local, Config
  <1>3. left' \subseteq left \cup {l}
    BY DEF Leaves
  <1>4. how # "killed" => /\ j.file # "none" => /\ how = "failed"
                                                /\ j.file # "empty"
                                                /\ j.cfg.superClean => j.file = "half"
                          /\ j.parts => ~j.email
    BY <1>1, JobFields DEF Local, Endings
  <1>5. ASSUME NEW k \in left', k.end # "killed"
        PROVE  /\ k.file # "none" => /\ k.end = "failed"
                                     /\ k.file # "empty"
                                     /\ k.superClean => k.file = "half"
               /\ k.parts => ~k.email
    <2>1. CASE k \in left
      BY <1>1, <1>5, <2>1 DEF Tidy
    <2>2. CASE k = l
      <3>1. /\ k.end = how /\ k.file = j.file /\ k.parts = j.parts
            /\ k.email = j.email /\ k.superClean = j.cfg.superClean
        BY <2>2
      <3> QED
        BY <1>4, <1>5, <3>1
    <2> QED
      BY <1>3, <2>1, <2>2
  <1> QED
    BY <1>1, <1>2, <1>3, <1>5 DEF Types, Tidy

LEMMA ExitInv ==
    ASSUME IInv, NEW p \in Procs, Exit(p)
    PROVE  IInv'
  <1>0. /\ Types /\ Locals /\ pc[p] = "exit" /\ Ends(p)
        /\ UNCHANGED <<excused, accepted, expired, faults>>
    BY DEF IInv, Exit
  <1>1. /\ pc' \in [Procs -> Pcs] /\ job' \in [Procs -> Job]
        /\ Locals'
        /\ ~Waited(p)'
        /\ \A q \in Procs \ {p} : pc'[q] = pc[q] /\ job'[q] = job[q]
    BY <1>0, EndsKeeps
  <1>2. left' \subseteq Leftover /\ Tidy'
    BY <1>0, LeavesOK DEF Exit, ExitOK, Endings
  <1>3. job[p].msg \in Msgs
    BY <1>0, JobFields DEF Locals, Local
  <1>4. \/ UNCHANGED mta
        \/ /\ Waited(p) /\ queue' = queue \ {job[p].msg} /\ arrived' = arrived
           /\ \/ returned' = returned /\ job[p].delivered
              \/ returned' = returned \cup {job[p].msg}
    BY <1>0, JobFields DEF Exit, ExitOK, Forgets, Keeps, Returns, Waited
  <1>5. Types'
    BY <1>0, <1>1, <1>2, <1>3, <1>4 DEF Types, mta
  <1>6. \A q \in Procs : Waited(q)' => Waited(q) /\ q # p /\ job'[q] = job[q]
    BY <1>1 DEF Waited
  <1>7. Held'
    <2> SUFFICES ASSUME NEW q \in Procs, Waited(q)'
                 PROVE  job'[q].msg \in queue'
      BY DEF Held
    <2>1. job[q].msg \in queue
      BY <1>6 DEF IInv, Held
    <2>2. Waited(p) => job[q].msg # job[p].msg
      BY <1>6 DEF IInv, Alone
    <2> QED
      BY <1>4, <1>6, <2>1, <2>2 DEF mta
  <1>8. Alone'
    BY <1>6 DEF IInv, Alone
  <1>9. Honest'
    BY <1>0, <1>6 DEF IInv, Honest, Backend
  <1>10. NoLoss'
    <2>1. Waited(p) /\ job[p].delivered => job[p].msg \in Backend \cup excused
      BY DEF IInv, Honest
    <2> QED
      BY <1>0, <1>4, <2>1 DEF IInv, NoLoss, Backend, mta
  <1> QED
    BY <1>1, <1>2, <1>5, <1>7, <1>8, <1>9, <1>10 DEF IInv

LEMMA CrashInv ==
    ASSUME IInv, NEW p \in Procs, Crash(p)
    PROVE  IInv'
  <1>0. /\ Types /\ Locals /\ pc[p] # "none" /\ Ends(p)
        /\ UNCHANGED <<mta, excused, accepted, expired>>
        /\ faults' = faults + 1 /\ faults' <= MaxFaults
    BY FaultCounts DEF IInv, Crash
  <1>1. /\ pc' \in [Procs -> Pcs] /\ job' \in [Procs -> Job]
        /\ Locals'
        /\ ~Waited(p)'
        /\ \A q \in Procs \ {p} : pc'[q] = pc[q] /\ job'[q] = job[q]
    BY <1>0, EndsKeeps
  <1>2. left' \subseteq Leftover /\ Tidy'
    BY <1>0, LeavesOK DEF Crash, Endings
  <1>3. Types'
    BY <1>0, <1>1, <1>2 DEF Types, mta
  <1>4. \A q \in Procs : Waited(q)' => Waited(q) /\ q # p /\ job'[q] = job[q]
    BY <1>1 DEF Waited
  <1>5. Held' /\ Alone' /\ Honest' /\ NoLoss'
    BY <1>0, <1>4 DEF IInv, Held, Alone, Honest, NoLoss, Backend, mta
  <1> QED
    BY <1>1, <1>2, <1>3, <1>5 DEF IInv

LEMMA LaunchInv ==
    ASSUME IInv, NEW p \in Procs, NEW m \in Msgs, Launch(p, m)
    PROVE  IInv'
  <1>0. /\ Types /\ Locals /\ pc[p] = "none" /\ m \in queue
        /\ Continue(p, JobOf(m), "start")
        /\ UNCHANGED <<outside, faults>>
    BY DEF IInv, Launch
  <1>1. JobOf(m) \in Job /\ Local("start", JobOf(m)) /\ "start" \in Pcs
    BY DEF JobOf, Job, Local, NoConfig, Config, Content, BeforePost, Processing, Pcs
  <1>2. /\ pc' \in [Procs -> Pcs] /\ job' \in [Procs -> Job]
        /\ Locals'
        /\ pc'[p] = "start" /\ job'[p] = JobOf(m)
        /\ \A q \in Procs \ {p} : pc'[q] = pc[q] /\ job'[q] = job[q]
    BY <1>0, <1>1, ContinueKeeps
  <1>3. Types'
    BY <1>0, <1>2 DEF Types, outside, mta
  <1>4. \A q \in Procs \ {p} : Waited(q)' = Waited(q) /\ job'[q] = job[q]
    BY <1>2 DEF Waited
  <1>5. job'[p].msg = m /\ ~job'[p].delivered
    BY <1>2 DEF JobOf
  <1>6. \A q \in Procs \ {p} : Waited(q) => job[q].msg # m
    BY DEF Launch, Waited
  <1>7. Held' /\ Alone' /\ Honest' /\ NoLoss' /\ Tidy'
    BY <1>0, <1>4, <1>5, <1>6
       DEF IInv, Held, Alone, Honest, NoLoss, Tidy, Backend, outside, mta
  <1> QED
    BY <1>2, <1>3, <1>7 DEF IInv

LEMMA MtaDiesInv ==
    ASSUME IInv, MtaDies
    PROVE  IInv'
  <1>0. /\ Types /\ Locals /\ UNCHANGED <<outside, pc>>
        /\ faults' = faults + 1 /\ faults' <= MaxFaults
        /\ job' = [p \in Procs |-> IF pc[p] = "none" THEN job[p]
                                   ELSE [job[p] EXCEPT !.orphan = TRUE]]
    BY FaultCounts DEF IInv, MtaDies
  <1>1. ASSUME NEW p \in Procs
        PROVE  job'[p] \in Job /\ Local(pc'[p], job'[p]) /\ ~Waited(p)'
    <2>1. CASE pc[p] = "none"
      BY <1>0, <2>1, JobFields DEF Locals, Waited
    <2>2. CASE pc[p] # "none"
      <3> DEFINE j == [job[p] EXCEPT !.orphan = TRUE]
      <3>1. job'[p] = j /\ pc'[p] = pc[p] /\ Local(pc[p], job[p])
        BY <1>0, <2>2 DEF Locals
      <3>2. j \in Job /\ j.orphan
        BY <1>0, JobFields DEF Job
      <3>3. Local(pc[p], j)
        BY <1>0, <3>1, JobFields DEF Local, Job
      <3> QED
        BY <3>1, <3>2, <3>3 DEF Waited
    <2> QED
      BY <2>1, <2>2
  <1>2. job' \in [Procs -> Job] /\ Locals'
    BY <1>0, <1>1 DEF Locals
  <1>3. Types'
    BY <1>0, <1>2 DEF Types, outside, mta
  <1>4. Held' /\ Alone' /\ Honest' /\ NoLoss' /\ Tidy'
    BY <1>0, <1>1 DEF IInv, Held, Alone, Honest, NoLoss, Tidy, Backend, outside, mta
  <1> QED
    BY <1>2, <1>3, <1>4 DEF IInv

LEMMA WorldInv ==
    ASSUME IInv, (\E m \in Msgs : Arrive(m)) \/ Expire
    PROVE  IInv'
  <1>1. /\ UNCHANGED <<returned, excused, accepted, left, faults, pc, job>>
        /\ queue \subseteq queue' /\ queue' \subseteq Msgs
        /\ arrived' \subseteq Msgs /\ arrived' \subseteq arrived \cup queue'
        /\ expired' \in BOOLEAN
    BY DEF Arrive, Expire, IInv, Types, mta
  <1>2. Types' /\ Locals'
    BY <1>1 DEF IInv, Types, Locals
  <1>3. Held' /\ Alone' /\ Honest' /\ NoLoss' /\ Tidy'
    BY <1>1 DEF IInv, Held, Alone, Honest, NoLoss, Tidy, Backend, Waited
  <1> QED
    BY <1>2, <1>3 DEF IInv

\* The steps of a run before its end.
LEMMA StepGoes ==
    ASSUME IInv, NEW p \in Procs, Step(p), ~Exit(p)
    PROVE  Goes(p) /\ pc[p] # "none"
  BY LoadConfigGoes, CreateTempGoes, ReadAllGoes, WriteGoes, ParseGoes, BootGoes,
     PostGoes, CleanPartsGoes, RemoveFileGoes
     DEF Step, LoadConfig, CreateTemp, ReadAll, Write, Parse, Boot, Post,
         CleanParts, RemoveFile

\* Every step keeps the invariant.
LEMMA NextInv == IInv /\ [Next]_vars => IInv'
  <1> SUFFICES ASSUME IInv, [Next]_vars PROVE IInv'
    OBVIOUS
  <1>1. ASSUME NEW p \in Procs, Step(p), ~Exit(p) PROVE IInv'
    BY <1>1, StepGoes, GoingInv DEF Goes
  <1>2. CASE UNCHANGED vars
    BY <1>2 DEF vars, mta, IInv, Types, Locals, Held, Alone, Honest, NoLoss, Tidy,
                Waited, Backend
  <1> QED
    BY <1>1, <1>2, ExitInv, CrashInv, LaunchInv, MtaDiesInv, WorldInv DEF Next

\* Every variable keeps its type, and a run that is there has a message in its
\* hands and something in its file: for any messages, runs and failures.
THEOREM PipeTypeCorrect == Spec => []TypeOK
  BY InitInv, NextInv, InvTypeOK, PTL DEF Spec

\* A message is in the queue, with its sender, in the backend, or was feigned
\* to be delivered, whatever fails or dies, under every configuration.
THEOREM PipeNoLoss == Spec => []NoLoss
  <1>1. IInv => NoLoss
    BY DEF IInv
  <1> QED
    BY <1>1, InitInv, NextInv, PTL DEF Spec

\* Only a run whose MTA died sends a part of a message.
THEOREM PipeCutByMta == Spec => []CutByMta
  BY InitInv, NextInv, InvCut, PTL DEF Spec

\* A run that ends by itself leaves only what a failure is looked into with.
THEOREM PipeTidy == Spec => []Tidy
  <1>1. IInv => Tidy
    BY DEF IInv
  <1> QED
    BY <1>1, InitInv, NextInv, PTL DEF Spec

(***************************************************************************)
(* Duplicates                                                              *)
(***************************************************************************)

\* Nothing is known of a message that has not arrived.
Known ==
    /\ queue \cup returned \cup excused \cup Backend \subseteq arrived
    /\ \A p \in Procs : job[p].msg \in arrived \cup {NoMsg}
    /\ \A l \in left : l.msg \in arrived

KnownInv == IInv /\ Known

\* A run that nobody waits for, and that has its message still to post.
Stray(m, p) == job[p].msg = m /\ job[p].orphan /\ pc[p] \in BeforePost
Strays(m) == {p \in Procs : Stray(m, p)}

\* The MTA will start, or waits for, a run that may post the message.
Owing(m) ==
    /\ m \in queue
    /\ \A p \in Procs : ~(Waited(p) /\ job[p].msg = m /\ job[p].delivered)

\* Each failure pays for one acceptance, done or to come, beyond the first.
Paid(m) ==
    /\ accepted[m] + Cardinality(Strays(m)) <= 1 + faults
    /\ Owing(m) => accepted[m] + Cardinality(Strays(m)) <= faults

DupInv == KnownInv /\ \A m \in Msgs : Paid(m)

LEMMA StraysFinite ==
    ASSUME NEW m
    PROVE  /\ IsFiniteSet(Strays(m)) /\ Cardinality(Strays(m)) \in Nat
           /\ \A S \in SUBSET Strays(m) : Cardinality(S) <= Cardinality(Strays(m))
                                          /\ Cardinality(S) \in Nat
  <1>1. Strays(m) \subseteq Procs
    BY DEF Strays
  <1>2. IsFiniteSet(Strays(m))
    BY <1>1, FS_Subset
  <1> QED
    BY <1>2, FS_Subset, FS_CardinalityType

\* What a step keeps or lets go leaves everything paid.
LEMMA StillPaid ==
    ASSUME NEW m \in Msgs, Paid(m), accepted[m] \in Nat, faults \in Nat, faults' \in Nat,
           accepted'[m] = accepted[m], faults <= faults', Strays(m)' \subseteq Strays(m),
           Owing(m)' => Owing(m) \/ faults + 1 <= faults'
    PROVE  Paid(m)'
  <1>1. /\ Cardinality(Strays(m)) \in Nat /\ Cardinality(Strays(m)') \in Nat
        /\ Cardinality(Strays(m)') <= Cardinality(Strays(m))
    BY StraysFinite
  <1> QED
    BY <1>1 DEF Paid

LEMMA InitDup == Init => DupInv
  <1> SUFFICES ASSUME Init PROVE DupInv
    OBVIOUS
  <1>1. KnownInv
    BY InitInv DEF KnownInv, Known, Init, Backend, JobOf
  <1>2. ASSUME NEW m \in Msgs PROVE Paid(m)
    <2>1. Strays(m) = {}
      BY DEF Init, Strays, Stray, JobOf
    <2>2. Cardinality(Strays(m)) = 0 /\ accepted[m] = 0 /\ faults = 0
      BY <2>1, FS_EmptySet DEF Init
    <2> QED
      BY <2>2 DEF Paid
  <1> QED
    BY <1>1, <1>2 DEF DupInv

\* The steps of a run before its end.
LEMMA GoesDup ==
    ASSUME DupInv, NEW p \in Procs, pc[p] # "none", Goes(p)
    PROVE  \A m \in Msgs : Paid(m)'
  <1>1. PICK j, l : Going(p, j, l) /\ Counts(p, j, l)
    BY DEF Goes
  <1>2. /\ IInv /\ Types /\ Locals /\ Local(pc[p], job[p]) /\ accepted \in [Msgs -> 0..MaxAccepts]
        /\ faults \in Nat /\ faults' \in {faults, faults + 1}
        /\ accepted' \in [Msgs -> 0..MaxAccepts] /\ UNCHANGED mta
        /\ job[p] \in Job
    BY <1>1 DEF DupInv, KnownInv, IInv, Types, Going, Locals
  <1>3. /\ pc'[p] = l /\ job'[p] = j /\ l # "none"
        /\ j.msg = job[p].msg /\ j.orphan = job[p].orphan
        /\ \A q \in Procs \ {p} : pc'[q] = pc[q] /\ job'[q] = job[q]
    BY <1>1, <1>2, ContinueKeeps DEF Going
  <1>4. job[p].msg \in Msgs
    BY <1>2, JobFields DEF Local
  <1> SUFFICES ASSUME NEW m \in Msgs PROVE Paid(m)'
    OBVIOUS
  <1>5. Paid(m) /\ accepted[m] \in Nat /\ accepted'[m] \in Nat /\ faults' \in Nat
    BY <1>2 DEF DupInv
  <1>6. /\ Strays(m)' \subseteq Strays(m)
        /\ pc[p] \in BeforePost /\ l \notin BeforePost => p \notin Strays(m)'
    BY <1>1, <1>3 DEF Strays, Stray, Counts
  <1>7. ASSUME Owing(m)' PROVE Owing(m)
    <2> SUFFICES ASSUME NEW q \in Procs, Waited(q), job[q].msg = m, job[q].delivered
                 PROVE  FALSE
      BY <1>2, <1>7 DEF Owing, mta
    <2>1. Waited(q)' /\ job'[q].msg = m /\ job'[q].delivered
      BY <1>1, <1>3 DEF Waited, Counts
    <2> QED
      BY <1>7, <2>1 DEF Owing
  <1>8. CASE accepted'[m] = accepted[m]
    BY <1>2, <1>5, <1>6, <1>7, <1>8, StillPaid
  <1>9. CASE accepted'[m] # accepted[m]
    <2>1. /\ m = job[p].msg /\ pc[p] \in BeforePost /\ l \notin BeforePost
          /\ accepted'[m] = accepted[m] + 1
          /\ j.delivered \/ faults' = faults + 1
      BY <1>1, <1>4, <1>9 DEF Counts
    <2>2. CASE job[p].orphan
      <3>1. p \in Strays(m) /\ Strays(m)' \subseteq Strays(m) \ {p}
        BY <1>6, <2>1, <2>2 DEF Strays, Stray
      <3>2. Cardinality(Strays(m) \ {p}) = Cardinality(Strays(m)) - 1
        BY <3>1, StraysFinite, FS_RemoveElement
      <3>3. /\ Cardinality(Strays(m)') \in Nat /\ Cardinality(Strays(m)) \in Nat
            /\ Cardinality(Strays(m)') <= Cardinality(Strays(m)) - 1
        <4>1. IsFiniteSet(Strays(m) \ {p})
          BY StraysFinite, FS_Subset
        <4> QED
          BY <3>1, <3>2, <4>1, StraysFinite, FS_Subset
      <3> QED
        BY <1>2, <1>5, <1>7, <2>1, <3>3 DEF Paid
    <2>3. CASE ~job[p].orphan
      <3>1. Waited(p) /\ ~job[p].delivered
        BY <1>2, <1>3, <2>1, <2>3 DEF Waited, Local, BeforePost
      <3>2. Owing(m)
        BY <1>2, <2>1, <3>1 DEF Owing, IInv, Held, Alone
      <3>3. Owing(m)' => faults' = faults + 1
        BY <1>3, <2>1, <2>3 DEF Owing, Waited
      <3>4. /\ Cardinality(Strays(m)) \in Nat /\ Cardinality(Strays(m)') \in Nat
            /\ Cardinality(Strays(m)') <= Cardinality(Strays(m))
        BY <1>6, StraysFinite
      <3> QED
        BY <1>2, <1>5, <2>1, <3>2, <3>3, <3>4 DEF Paid
    <2> QED
      BY <2>2, <2>3
  <1> QED
    BY <1>8, <1>9

LEMMA ExitDup ==
    ASSUME DupInv, NEW p \in Procs, Exit(p)
    PROVE  \A m \in Msgs : Paid(m)'
  <1>1. /\ IInv /\ Types /\ pc[p] = "exit" /\ UNCHANGED <<accepted, faults>> /\ Ends(p)
        /\ accepted \in [Msgs -> 0..MaxAccepts] /\ faults \in Nat /\ job[p] \in Job
    BY DEF DupInv, KnownInv, IInv, Types, Exit
  <1>2. /\ ~Waited(p)' /\ job'[p].msg = NoMsg
        /\ \A q \in Procs \ {p} : pc'[q] = pc[q] /\ job'[q] = job[q]
    BY <1>1, EndsKeeps
  <1> SUFFICES ASSUME NEW m \in Msgs PROVE Paid(m)'
    OBVIOUS
  <1>3. Strays(m)' \subseteq Strays(m)
    BY <1>2, PipeAssumption DEF Strays, Stray
  <1>4. ASSUME Owing(m)' PROVE Owing(m)
    <2>1. queue' \subseteq queue
      BY DEF Exit, Forgets, Keeps, Returns, mta
    <2> SUFFICES ASSUME NEW q \in Procs, Waited(q), job[q].msg = m, job[q].delivered
                 PROVE  FALSE
      BY <1>4, <2>1 DEF Owing
    <2>2. CASE q # p
      BY <1>2, <1>4, <2>2 DEF Owing, Waited
    <2>3. CASE q = p
      BY <1>4, <2>3 DEF Exit, ExitOK, Forgets, Owing, Waited
    <2> QED
      BY <2>2, <2>3
  <1> QED
    BY <1>1, <1>3, <1>4, StillPaid DEF DupInv

LEMMA CrashDup ==
    ASSUME DupInv, NEW p \in Procs, Crash(p)
    PROVE  \A m \in Msgs : Paid(m)'
  <1>1. /\ IInv /\ Types /\ UNCHANGED accepted /\ Ends(p)
        /\ accepted \in [Msgs -> 0..MaxAccepts] /\ faults \in Nat /\ faults' = faults + 1
    BY FaultCounts DEF DupInv, KnownInv, IInv, Types, Crash
  <1>2. /\ job'[p].msg = NoMsg
        /\ \A q \in Procs \ {p} : pc'[q] = pc[q] /\ job'[q] = job[q]
    BY <1>1, EndsKeeps
  <1>3. \A m \in Msgs : Strays(m)' \subseteq Strays(m)
    BY <1>2, PipeAssumption DEF Strays, Stray
  <1> QED
    BY <1>1, <1>3, StillPaid DEF DupInv

\* A death of the MTA makes at most one more run for a message a stray one, and it is
\* the one the MTA was waiting for.
LEMMA MtaDiesDup ==
    ASSUME DupInv, MtaDies
    PROVE  \A m \in Msgs : Paid(m)'
  <1>1. /\ IInv /\ Types /\ Locals /\ UNCHANGED <<outside, pc>>
        /\ accepted \in [Msgs -> 0..MaxAccepts] /\ faults \in Nat /\ faults' = faults + 1
        /\ job' = [p \in Procs |-> IF pc[p] = "none" THEN job[p]
                                   ELSE [job[p] EXCEPT !.orphan = TRUE]]
    BY FaultCounts DEF DupInv, KnownInv, IInv, Types, MtaDies
  <1> SUFFICES ASSUME NEW m \in Msgs PROVE Paid(m)'
    OBVIOUS
  <1>2. \A q \in Procs : job'[q].msg = job[q].msg
    BY <1>1, JobFields DEF Job
  <1>3. CASE Strays(m)' \subseteq Strays(m)
    BY <1>1, <1>3, StillPaid DEF DupInv, outside
  <1>4. CASE \E p \in Procs : p \in Strays(m)' /\ p \notin Strays(m)
    <2>1. PICK p \in Procs : p \in Strays(m)' /\ p \notin Strays(m)
      BY <1>4
    <2>2. pc[p] \in BeforePost /\ job[p].msg = m /\ Waited(p)
      BY <1>1, <1>2, <2>1 DEF Strays, Stray, Waited, BeforePost
    <2>3. ~job[p].delivered
      BY <1>1, <2>2 DEF Locals, Local
    <2>4. Owing(m)
      BY <1>1, <2>2, <2>3 DEF Owing, IInv, Held, Alone
    <2>5. Strays(m)' \subseteq Strays(m) \cup {p}
      BY <1>1, <1>2, <2>2 DEF Strays, Stray, Waited, BeforePost, IInv, Alone
    <2>6. /\ Cardinality(Strays(m)) \in Nat /\ Cardinality(Strays(m)') \in Nat
          /\ Cardinality(Strays(m)') <= Cardinality(Strays(m)) + 1
      <3> DEFINE S == Strays(m) \cup {p}
      <3>1. IsFiniteSet(S) /\ Cardinality(S) = Cardinality(Strays(m)) + 1
        BY <2>1, StraysFinite, FS_AddElement
      <3>2. Strays(m)' \subseteq S
        BY <2>5
      <3>3. IsFiniteSet(Strays(m)') /\ Cardinality(Strays(m)') <= Cardinality(S)
        <4> HIDE DEF S
        <4> QED
          BY <3>1, <3>2, FS_Subset
      <3>4. Cardinality(Strays(m)') \in Nat
        BY <3>3, FS_CardinalityType
      <3> QED
        BY <3>1, <3>3, <3>4, StraysFinite
    <2> QED
      BY <1>1, <2>4, <2>6 DEF Paid, DupInv, outside
  <1> QED
    BY <1>3, <1>4 DEF Strays

LEMMA LaunchDup ==
    ASSUME DupInv, NEW p \in Procs, NEW n \in Msgs, Launch(p, n)
    PROVE  \A m \in Msgs : Paid(m)'
  <1>1. /\ IInv /\ Types /\ Locals /\ UNCHANGED <<outside, faults>> /\ pc[p] = "none"
        /\ accepted \in [Msgs -> 0..MaxAccepts] /\ faults \in Nat
        /\ Continue(p, JobOf(n), "start")
    BY DEF DupInv, KnownInv, IInv, Types, Launch
  <1>2. JobOf(n) \in Job /\ Local("start", JobOf(n)) /\ "start" \in Pcs
    BY DEF JobOf, Job, Local, NoConfig, Config, Content, BeforePost, Processing, Pcs
  <1>3. /\ job'[p] = JobOf(n)
        /\ \A q \in Procs \ {p} : pc'[q] = pc[q] /\ job'[q] = job[q]
    BY <1>1, <1>2, ContinueKeeps
  <1> SUFFICES ASSUME NEW m \in Msgs PROVE Paid(m)'
    OBVIOUS
  <1>4. Strays(m)' \subseteq Strays(m)
    BY <1>3 DEF Strays, Stray, JobOf
  <1>5. ASSUME Owing(m)' PROVE Owing(m)
    BY <1>1, <1>3, <1>5 DEF Owing, Waited, outside, mta
  <1> QED
    BY <1>1, <1>4, <1>5, StillPaid DEF DupInv, outside

LEMMA WorldDup ==
    ASSUME DupInv, (\E m \in Msgs : Arrive(m)) \/ Expire \/ UNCHANGED vars
    PROVE  \A m \in Msgs : Paid(m)'
  <1>1. /\ IInv /\ Types /\ Known /\ UNCHANGED <<accepted, faults, pc, job>>
        /\ accepted \in [Msgs -> 0..MaxAccepts] /\ faults \in Nat
        /\ \A m \in queue' : m \in queue \/ m \notin arrived
    BY DEF DupInv, KnownInv, IInv, Types, Arrive, Expire, vars, mta
  <1> SUFFICES ASSUME NEW m \in Msgs PROVE Paid(m)'
    OBVIOUS
  <1>2. Strays(m)' = Strays(m)
    BY <1>1 DEF Strays, Stray
  <1>3. CASE m \in queue \/ m \notin queue'
    <2>1. Owing(m)' => Owing(m)
      BY <1>1, <1>3 DEF Owing, Waited
    <2> QED
      BY <1>1, <1>2, <2>1, StillPaid DEF DupInv
  <1>4. CASE m \in queue' /\ m \notin arrived
    <2>1. accepted[m] = 0 /\ Strays(m) = {}
      BY <1>1, <1>4 DEF Known, Backend, Strays, Stray
    <2>2. Cardinality(Strays(m)') = 0
      BY <1>2, <2>1, FS_EmptySet
    <2> QED
      BY <1>1, <2>1, <2>2 DEF Paid
  <1> QED
    BY <1>1, <1>3, <1>4

(***************************************************************************)
(* What is known of messages                                               *)
(***************************************************************************)

\* A run of a message that has arrived teaches of no other message.
LEMMA GoesKnown ==
    ASSUME KnownInv, NEW p \in Procs, pc[p] # "none", Goes(p)
    PROVE  Known'
  <1>1. PICK j, l : Going(p, j, l) /\ Counts(p, j, l)
    BY DEF Goes
  <1>2. /\ IInv /\ Types /\ Locals /\ Known /\ UNCHANGED <<mta, left>>
        /\ accepted \in [Msgs -> 0..MaxAccepts]
    BY <1>1 DEF KnownInv, IInv, Types, Going
  <1>6. job[p].msg \in arrived
    <2>1. job[p].msg # NoMsg
      BY <1>2 DEF Locals, Local
    <2> QED
      BY <1>2, <2>1 DEF Known
  <1>3. /\ job'[p].msg = job[p].msg
        /\ \A q \in Procs \ {p} : job'[q] = job[q]
    BY <1>1, <1>2, ContinueKeeps DEF Going
  <1>4. Backend' \subseteq Backend \cup {job[p].msg}
    BY <1>1, <1>2 DEF Counts, Backend
  <1>5. excused' \subseteq excused \cup {job[p].msg}
    BY <1>1 DEF Going
  <1> QED
    BY <1>2, <1>3, <1>4, <1>5, <1>6 DEF Known, mta

\* Nor does the end of a run.
LEMMA EndKnown ==
    ASSUME KnownInv, NEW p \in Procs, Exit(p) \/ Crash(p)
    PROVE  Known'
  <1>1. /\ IInv /\ Known /\ pc[p] # "none" /\ Ends(p) /\ UNCHANGED <<excused, accepted>>
        /\ job[p].msg \in arrived
    BY JobFields DEF KnownInv, IInv, Known, Locals, Local, Exit, Crash
  <1>2. /\ queue' \subseteq queue /\ returned' \subseteq returned \cup {job[p].msg}
        /\ arrived' = arrived
    BY DEF Exit, Crash, Forgets, Keeps, Returns, mta
  <1>3. \A k \in left' : k \in left \/ k.msg = job[p].msg
    BY DEF Exit, Crash, Leaves
  <1>4. /\ job'[p].msg = NoMsg
        /\ \A q \in Procs \ {p} : job'[q] = job[q]
    BY <1>1, EndsKeeps
  <1> QED
    BY <1>1, <1>2, <1>3, <1>4 DEF Known, Backend

LEMMA WorldKnown ==
    ASSUME KnownInv,
           \/ \E p \in Procs, m \in Msgs : Launch(p, m)
           \/ MtaDies
           \/ \E m \in Msgs : Arrive(m)
           \/ Expire
           \/ UNCHANGED vars
    PROVE  Known'
  <1>1. IInv /\ Types /\ Known
    BY DEF KnownInv, IInv
  <1>2. ASSUME NEW p \in Procs, NEW m \in Msgs, Launch(p, m) PROVE Known'
    BY <1>1, <1>2 DEF Types, Known, Launch, Continue, JobOf, Backend, outside, mta
  <1>3. CASE MtaDies
    <2>1. \A q \in Procs : job'[q].msg = job[q].msg
      BY <1>1, <1>3, JobFields DEF MtaDies, Job
    <2> QED
      BY <1>1, <1>3, <2>1 DEF MtaDies, Known, Backend, outside, mta
  <1>4. CASE (\E m \in Msgs : Arrive(m)) \/ Expire \/ UNCHANGED vars
    BY <1>1, <1>4 DEF Arrive, Expire, Known, Backend, vars, mta
  <1> QED
    BY <1>2, <1>3, <1>4

LEMMA NextDup == DupInv /\ [Next]_vars => DupInv'
  <1> SUFFICES ASSUME DupInv, [Next]_vars PROVE DupInv'
    OBVIOUS
  <1>1. IInv'
    BY NextInv DEF DupInv, KnownInv
  <1>2. ASSUME NEW p \in Procs, Step(p), ~Exit(p) PROVE DupInv'
    BY <1>1, <1>2, StepGoes, GoesDup, GoesKnown DEF DupInv, KnownInv
  <1>3. ASSUME NEW p \in Procs, Exit(p) \/ Crash(p) PROVE DupInv'
    BY <1>1, <1>3, ExitDup, CrashDup, EndKnown DEF DupInv, KnownInv
  <1>4. ASSUME \/ \E p \in Procs, m \in Msgs : Launch(p, m)
               \/ MtaDies
               \/ \E m \in Msgs : Arrive(m)
               \/ Expire
               \/ UNCHANGED vars
        PROVE DupInv'
    BY <1>1, <1>4, LaunchDup, MtaDiesDup, WorldDup, WorldKnown DEF DupInv, KnownInv
  <1> QED
    BY <1>2, <1>3, <1>4 DEF Next

\* The backend gets a message once, and once more for a failure at most,
\* however many runs of dead MTAs are still about.
THEOREM PipeDuplicates == Spec => []DuplicatesAreFaults
  <1>1. DupInv => DuplicatesAreFaults
    <2> SUFFICES ASSUME DupInv, NEW m \in Msgs PROVE accepted[m] <= 1 + faults
      BY DEF DuplicatesAreFaults
    <2>1. Cardinality(Strays(m)) \in Nat /\ accepted[m] \in Nat /\ faults \in Nat
      BY StraysFinite DEF DupInv, KnownInv, IInv, Types
    <2> QED
      BY <2>1 DEF DupInv, Paid
  <1> QED
    BY <1>1, InitDup, NextDup, PTL DEF Spec

(***************************************************************************)
(* The abstract specification                                              *)
(***************************************************************************)

Files == {job[p].msg : p \in {q \in Procs : job[q].file = "whole"}}
         \cup {l.msg : l \in {k \in left : k.file = "whole"}}

LEMMA FilesKnown == KnownInv => Files \subseteq arrived
  <1> SUFFICES ASSUME KnownInv, NEW m \in Files PROVE m \in arrived
    OBVIOUS
  <1>1. CASE \E l \in left : m = l.msg
    BY <1>1 DEF KnownInv, Known
  <1>2. ASSUME NEW p \in Procs, job[p].file = "whole", m = job[p].msg
        PROVE  m \in arrived
    <2>1. m # NoMsg
      BY <1>2 DEF KnownInv, IInv, Locals, Local
    <2> QED
      BY <1>2, <2>1 DEF KnownInv, Known
  <1> QED
    BY <1>1, <1>2 DEF Files

\* What a step of a run does to the files is what it does to its own.
LEMMA FilesOf ==
    ASSUME IInv, NEW p \in Procs, NEW l, NEW j, Continue(p, j, l),
           j.msg = job[p].msg, UNCHANGED left
    PROVE  /\ (j.file = "whole" <=> job[p].file = "whole") => Files' = Files
           /\ j.file = "whole" => Files' = Files \cup {job[p].msg}
           /\ j.file # "whole" => Files' \in {Files, Files \ {job[p].msg}}
  <1>1. /\ job'[p] = j
        /\ \A q \in Procs \ {p} : job'[q] = job[q]
    BY DEF IInv, Types, Continue
  <1>2. ASSUME j.file = "whole" <=> job[p].file = "whole"
        PROVE  Files' = Files
    <2>1. \A q \in Procs : /\ job'[q].file = "whole" <=> job[q].file = "whole"
                           /\ job'[q].msg = job[q].msg
      BY <1>1, <1>2
    <2> QED
      BY <2>1 DEF Files
  <1>3. ASSUME j.file = "whole" PROVE Files' = Files \cup {job[p].msg}
    BY <1>1, <1>3 DEF Files
  <1>4. ASSUME j.file # "whole" PROVE Files' \in {Files, Files \ {job[p].msg}}
    <2>1. Files' \subseteq Files
      BY <1>1, <1>4 DEF Files
    <2>2. Files \ {job[p].msg} \subseteq Files'
      BY <1>1, <1>4 DEF Files
    <2> QED
      BY <2>1, <2>2
  <1> QED
    BY <1>2, <1>3, <1>4

Stutter == UNCHANGED M!vars

\* A run that goes on and touches neither its file nor anything outside.
LEMMA InsideStutters ==
    ASSUME IInv, NEW p \in Procs, NEW l, NEW j, Continue(p, j, l),
           j.msg = job[p].msg, j.file = "whole" <=> job[p].file = "whole",
           UNCHANGED outside
    PROVE  Stutter
  <1>1. Files' = Files
    BY FilesOf DEF outside
  <1> QED
    BY <1>1 DEF Stutter, M!vars, Files, outside, mta, Backend

LEMMA BeforeWriteCustody ==
    ASSUME IInv, NEW p \in Procs,
           \/ LoadConfig(p) \/ CreateTemp(p) \/ ReadAll(p) \/ Boot(p) \/ CleanParts(p)
    PROVE  Stutter
  <1>1. Types /\ Local(pc[p], job[p])
    BY DEF IInv, Locals
  <1>2. CASE LoadConfig(p)
    BY <1>1, <1>2, JobFields, InsideStutters DEF LoadConfig, Job
  <1>3. CASE CreateTemp(p)
    <2>1. job[p].file = "none"
      BY <1>1, <1>3 DEF CreateTemp, Local
    <2> QED
      BY <1>1, <1>3, <2>1, JobFields, InsideStutters DEF CreateTemp, Job
  <1>4. CASE ReadAll(p)
    <2>1. job[p].file = "empty"
      BY <1>1, <1>4 DEF ReadAll, Local
    <2>2. ASSUME GivesUp(p), UNCHANGED outside PROVE Stutter
      BY <1>1, <2>1, <2>2, JobFields, InsideStutters DEF GivesUp, Job
    <2>3. ASSUME NEW d \in Input(p), Continue(p, [job[p] EXCEPT !.data = d], "write"),
                 UNCHANGED outside
          PROVE  Stutter
      BY <1>1, <2>3, JobFields, InsideStutters DEF Job
    <2> QED
      BY <1>4, <2>2, <2>3 DEF ReadAll, ReadFails
  <1>5. CASE Boot(p)
    BY <1>5 DEF Boot, Stutter, M!vars, outside, mta, Backend
  <1>6. CASE CleanParts(p)
    BY <1>1, <1>6, JobFields, InsideStutters DEF CleanParts, Job
  <1> QED
    BY <1>2, <1>3, <1>4, <1>5, <1>6

\* What a message that has arrived allows.
LEMMA Arrived ==
    ASSUME KnownInv, NEW p \in Procs, pc[p] # "none"
    PROVE  /\ job[p].msg \in arrived /\ job[p].msg \in Msgs
           /\ job[p].msg \in queue \cup Backend \cup (returned \cup excused)
  <1>1. job[p].msg \in arrived
    <2>1. job[p].msg # NoMsg
      BY DEF KnownInv, IInv, Locals, Local
    <2> QED
      BY <2>1 DEF KnownInv, Known
  <1> QED
    BY <1>1 DEF KnownInv, IInv, Types, NoLoss

LEMMA WriteCustody ==
    ASSUME KnownInv, NEW p \in Procs, Write(p)
    PROVE  M!Next \/ Stutter
  <1>1. /\ IInv /\ Types /\ Local(pc[p], job[p]) /\ job[p].file = "empty"
        /\ UNCHANGED outside /\ pc[p] # "none"
    BY DEF KnownInv, IInv, Locals, Write, Local
  <1>2. ASSUME NEW f \in {"half", "whole"}, NEW l,
               Continue(p, [job[p] EXCEPT !.file = f], l)
        PROVE  M!Next \/ Stutter
    <2> DEFINE j == [job[p] EXCEPT !.file = f]
    <2>1. j.msg = job[p].msg /\ j.file = f
      BY <1>1, JobFields DEF Job
    <2>2. CASE f = "half"
      BY <1>1, <1>2, <2>1, <2>2, InsideStutters
    <2>3. CASE f = "whole"
      <3>1. Files' = Files \cup {job[p].msg}
        BY <1>1, <1>2, <2>1, <2>3, FilesOf DEF outside
      <3>2. PICK m \in Msgs : m = job[p].msg
        BY <1>1, Arrived
      <3>3. M!Copy(m)
        BY <1>1, <3>1, <3>2, Arrived
           DEF M!Copy, M!Somewhere, Files, outside, mta, Backend
      <3> QED
        BY <3>3 DEF M!Next
    <2> QED
      BY <2>2, <2>3
  <1>3. job[p].data \in {"half", "whole"}
    BY <1>1 DEF Write, Local
  <1> QED
    BY <1>2, <1>3 DEF Write

\* Feigned to be delivered: withdrawn, and still in the queue.
LEMMA FeignedCustody ==
    ASSUME KnownInv, NEW p \in Procs, pc[p] # "none", Feigned(p), Files' = Files,
           UNCHANGED <<mta, accepted>>
    PROVE  M!Next \/ Stutter
  <1> DEFINE S == {job[p].msg} \cap queue
  <1>1. M!Withdraw(S)
    BY DEF M!Withdraw, Feigned, Files, mta, Backend
  <1>2. S \in SUBSET Msgs
    BY DEF KnownInv, IInv, Types
  <1> QED
    BY <1>1, <1>2 DEF M!Next

LEMMA ParseCustody ==
    ASSUME KnownInv, NEW p \in Procs, Parse(p)
    PROVE  M!Next \/ Stutter
  <1>1. /\ IInv /\ Types /\ pc[p] # "none"
        /\ UNCHANGED <<mta, accepted, left, expired>>
    BY DEF KnownInv, IInv, Parse
  <1>2. CASE Parsed(p) /\ Feigned(p)
    <2> DEFINE j == [job[p] EXCEPT !.parts = TRUE, !.email = TRUE,
                                   !.delivered = job[p].cfg.debugParse]
    <2>2. PICK l : Continue(p, j, l)
      BY <1>2 DEF Parsed
    <2>3. j.msg = job[p].msg /\ j.file = job[p].file
      BY <1>1, JobFields DEF Job
    <2>1. Files' = Files
      <3> HIDE DEF j
      <3> QED
        BY <1>1, <2>2, <2>3, FilesOf
    <2> QED
      BY <1>1, <1>2, <2>1, FeignedCustody
  <1>3. CASE Parsed(p) /\ UNCHANGED excused
    BY <1>1, <1>3, JobFields, InsideStutters DEF Parsed, Job, outside
  <1>4. CASE Continue(p, job[p], "clean") /\ UNCHANGED excused
    BY <1>1, <1>4, JobFields, InsideStutters DEF outside
  <1>5. CASE Continue(p, [job[p] EXCEPT !.parts = TRUE], "clean") /\ UNCHANGED excused
    BY <1>1, <1>5, JobFields, InsideStutters DEF Job, outside
  <1> QED
    BY <1>2, <1>3, <1>4, <1>5 DEF Parse

LEMMA PostCustody ==
    ASSUME KnownInv, NEW p \in Procs, Post(p)
    PROVE  M!Next \/ Stutter
  <1>1. /\ IInv /\ Types /\ pc[p] # "none" /\ UNCHANGED <<mta, left, expired>>
    BY DEF KnownInv, IInv, Post
  <1> DEFINE m == job[p].msg
  <1>2. ASSUME NEW d, Delivers(p, d) PROVE Files' = Files
    BY <1>1, <1>2, JobFields, FilesOf DEF Delivers, Job
  <1>3. ASSUME NEW d, Delivers(p, d), Accept(p), UNCHANGED excused
        PROVE  M!Next \/ Stutter
    <2>1. Files' = Files
      BY <1>2, <1>3
    <2>2. CASE job[p].file = "whole" /\ accepted[m] < MaxAccepts
      <3>1. m \in Msgs /\ m \in Files
        BY <1>1, <2>2, Arrived DEF Files
      <3>2. accepted' = [accepted EXCEPT ![m] = accepted[m] + 1]
        BY <1>3, <2>2 DEF Accept
      <3>3. Backend' = Backend \cup {m}
        BY <1>1, <3>1, <3>2 DEF Types, Backend
      <3>4. M!Take(m)
        BY <1>1, <1>3, <2>1, <3>1, <3>3 DEF M!Take, Files, mta
      <3> QED
        BY <3>1, <3>4 DEF M!Next
    <2>3. CASE ~(job[p].file = "whole" /\ accepted[m] < MaxAccepts)
      BY <1>1, <1>3, <2>1, <2>3 DEF Accept, Stutter, M!vars, Files, Backend, mta
    <2> QED
      BY <2>2, <2>3
  <1>4. ASSUME NEW d, Delivers(p, d), UNCHANGED <<excused, accepted>>
        PROVE  Stutter
    <2>1. Files' = Files
      BY <1>2, <1>4
    <2> QED
      BY <1>1, <1>4, <2>1 DEF Stutter, M!vars, Files, Backend, mta
  <1>5. ASSUME Delivers(p, TRUE), Feigned(p), UNCHANGED accepted
        PROVE  M!Next \/ Stutter
    BY <1>1, <1>2, <1>5, FeignedCustody
  <1> QED
    BY <1>3, <1>4, <1>5 DEF Post

LEMMA RemoveFileCustody ==
    ASSUME KnownInv, NEW p \in Procs, RemoveFile(p)
    PROVE  M!Next \/ Stutter
  <1>1. IInv /\ Types /\ pc[p] # "none" /\ UNCHANGED outside
    BY DEF KnownInv, IInv, RemoveFile
  <1> DEFINE f == IF job[p].delivered \/ job[p].cfg.superClean
                  THEN "none" ELSE job[p].file
             j == [job[p] EXCEPT !.file = f]
             m == job[p].msg
  <1>2. Continue(p, j, "exit") /\ j.msg = m /\ j.file = f
    BY <1>1, JobFields DEF RemoveFile, Job
  <1>3. CASE f = job[p].file
    BY <1>1, <1>2, <1>3, InsideStutters
  <1>4. CASE f = "none"
    <2>1. Files' = Files \/ Files' = Files \ {m}
      <3> HIDE DEF j
      <3>1. j.msg = job[p].msg /\ j.file # "whole" /\ UNCHANGED left
        BY <1>1, <1>2, <1>4 DEF outside
      <3> QED
        BY <1>1, <1>2, <3>1, FilesOf
    <2>2. CASE Files' = Files
      BY <1>1, <2>2 DEF Stutter, M!vars, Files, outside, mta, Backend
    <2>3. CASE Files' = Files \ {m}
      <3>1. PICK n \in Msgs : n = m
        BY <1>1, Arrived
      <3>2. M!Discard(n)
        BY <1>1, <2>3, <3>1, Arrived DEF M!Discard, Files, outside, mta, Backend
      <3> QED
        BY <3>2 DEF M!Next
    <2> QED
      BY <2>1, <2>2, <2>3
  <1> QED
    BY <1>3, <1>4

\* The file of a run that ends stays where it is.
LEMMA EndFiles ==
    ASSUME IInv, NEW p \in Procs, pc[p] # "none", NEW how, Leaves(p, how), Ends(p)
    PROVE  Files' = Files
  <1> DEFINE l == [msg |-> job[p].msg, file |-> job[p].file, parts |-> job[p].parts,
                   email |-> job[p].email, end |-> how,
                   superClean |-> job[p].cfg.superClean]
  <1>1. /\ job'[p].file = "none"
        /\ \A q \in Procs \ {p} : job'[q] = job[q]
    BY DEF IInv, Types, Ends, Continue, JobOf
  <1>2. l.msg = job[p].msg /\ l.file = job[p].file
    OBVIOUS
  <1>3. /\ left \subseteq left' /\ left' \subseteq left \cup {l}
        /\ job[p].file = "whole" => l \in left'
    BY DEF Leaves
  <1> HIDE DEF l
  <1>4. Files \subseteq Files'
    BY <1>1, <1>2, <1>3 DEF Files
  <1>5. Files' \subseteq Files
    BY <1>1, <1>2, <1>3 DEF Files
  <1> QED
    BY <1>4, <1>5

LEMMA EndCustody ==
    ASSUME KnownInv, NEW p \in Procs, Exit(p) \/ Crash(p)
    PROVE  M!Next \/ Stutter
  <1>1. /\ IInv /\ Types /\ pc[p] # "none" /\ UNCHANGED <<excused, accepted>>
    BY DEF KnownInv, IInv, Exit, Crash
  <1>2. Files' = Files
    BY <1>1, EndFiles DEF Exit, Crash
  <1> DEFINE m == job[p].msg
  <1>3. m \in Msgs
    BY <1>1, Arrived
  <1>4. CASE UNCHANGED mta
    BY <1>1, <1>2, <1>4 DEF Stutter, M!vars, Files, mta, Backend
  <1>5. CASE Exit(p) /\ ~job[p].orphan /\ ExitOK(p) /\ Forgets(m)
    <2>1. m \in Backend \cup excused
      BY <1>1, <1>5 DEF IInv, Honest, Waited, ExitOK
    <2>2. M!Remove({m})
      BY <1>1, <1>2, <1>5, <2>1 DEF M!Remove, Forgets, Files, Backend
    <2>3. {m} \in SUBSET Msgs
      BY <1>3
    <2> QED
      BY <2>2, <2>3 DEF M!Next
  <1>6. CASE Exit(p) /\ ~job[p].orphan /\ Returns(m)
    <2>1. m \in queue
      BY <1>1, <1>6 DEF IInv, Held, Waited
    <2>2. M!Withdraw({m})
      BY <1>1, <1>2, <1>6, <2>1 DEF M!Withdraw, Returns, Files, Backend
    <2>3. {m} \in SUBSET Msgs
      BY <1>3
    <2> QED
      BY <2>2, <2>3 DEF M!Next
  <1> QED
    BY <1>1, <1>4, <1>5, <1>6, JobFields DEF Exit, Crash, Keeps

LEMMA LaunchCustody ==
    ASSUME KnownInv, NEW p \in Procs, NEW m \in Msgs, Launch(p, m)
    PROVE  Stutter
  <1>1. /\ IInv /\ Types /\ job[p].file = "none" /\ UNCHANGED outside
        /\ Continue(p, JobOf(m), "start")
    BY DEF KnownInv, IInv, Locals, Local, Launch
  <1>2. /\ job'[p].file = "none"
        /\ \A q \in Procs \ {p} : job'[q] = job[q]
    BY <1>1 DEF Types, Continue, JobOf
  <1>3. Files' = Files
    BY <1>1, <1>2 DEF Files, outside
  <1> QED
    BY <1>1, <1>3 DEF Stutter, M!vars, Files, outside, mta, Backend

LEMMA MtaDiesCustody ==
    ASSUME KnownInv, MtaDies
    PROVE  Stutter
  <1>1. Types /\ UNCHANGED outside
    BY DEF KnownInv, IInv, MtaDies
  <1>2. \A q \in Procs : job'[q].msg = job[q].msg /\ job'[q].file = job[q].file
    BY <1>1, JobFields DEF MtaDies, Job
  <1>3. Files' = Files
    BY <1>1, <1>2 DEF Files, outside
  <1> QED
    BY <1>1, <1>3 DEF Stutter, M!vars, Files, outside, mta, Backend

LEMMA ArriveCustody ==
    ASSUME KnownInv, NEW m \in Msgs, Arrive(m)
    PROVE  M!Next
  <1>1. m \notin queue \cup Files \cup Backend \cup (returned \cup excused)
    BY FilesKnown DEF Arrive, KnownInv, Known
  <1>2. Files' = Files
    BY DEF Arrive, Files
  <1>3. M!Appear(m)
    BY <1>1, <1>2 DEF M!Appear, M!Somewhere, Files, Arrive, Backend
  <1> QED
    BY <1>3 DEF M!Next

\* Every step of pipe mode is one of MailCustody, or changes nothing there.
LEMMA NextCustody == KnownInv /\ [Next]_vars => M!Next \/ Stutter
  <1> SUFFICES ASSUME KnownInv, [Next]_vars PROVE M!Next \/ Stutter
    OBVIOUS
  <1>1. CASE Expire \/ UNCHANGED vars
    BY <1>1 DEF Expire, vars, Stutter, M!vars, mta, Backend
  <1>2. ASSUME NEW p \in Procs, Step(p) \/ Crash(p) PROVE M!Next \/ Stutter
    BY <1>2, BeforeWriteCustody, WriteCustody, ParseCustody, PostCustody,
       RemoveFileCustody, EndCustody DEF Step, KnownInv
  <1> QED
    BY <1>1, <1>2, LaunchCustody, MtaDiesCustody, ArriveCustody DEF Next

\* Pipe mode implements MailCustody: a message is copied, handed over, removed
\* and withdrawn only as promised, for any messages, runs and failures.
THEOREM PipeKeepsCustody == Spec => Custody
  <1>1. Init => M!Init
    BY DEF Init, M!Init, Backend, JobOf
  <1>2. KnownInv /\ [Next]_vars => KnownInv'
    <2> SUFFICES ASSUME KnownInv, [Next]_vars PROVE KnownInv'
      OBVIOUS
    <2>1. ASSUME NEW p \in Procs, Step(p), ~Exit(p) PROVE Known'
      BY <2>1, StepGoes, GoesKnown DEF KnownInv
    <2> QED
      BY <2>1, NextInv, EndKnown, WorldKnown DEF KnownInv, Next
  <1>3. Init => KnownInv
    BY InitDup DEF DupInv
  <1>4. KnownInv /\ [Next]_vars => [M!Next]_M!vars
    BY NextCustody DEF Stutter
  <1> QED
    BY <1>1, <1>2, <1>3, <1>4, PTL DEF Spec, Custody, M!Spec

=============================================================================
