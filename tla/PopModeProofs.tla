---------------------------- MODULE PopModeProofs ----------------------------
(***************************************************************************)
(* Theorems about PopMode, for any number of messages, lines and failures. *)
(***************************************************************************)
EXTENDS PopCustody, FiniteSetTheorems, SequenceTheorems, TLAPS

USE PopAssumption DEF Msgs

(***************************************************************************)
(* Types                                                                   *)
(***************************************************************************)

\* Where a message is in hand.
Holding == {"body", "post", "clean", "dele"}

\* What the variables of a session have to do with the mailbox.
SessionOK ==
    /\ pc \in Holding => last \in box /\ last \notin todo \cup marked
    /\ todo \cap marked = {}
    /\ ~up => marked = {}
    /\ pc = "idle" => ~up /\ todo = {}
    /\ box \subseteq 1..arrived
    /\ \A m \in Msgs : m > arrived => accepted[m] = 0

TypeInv == TypeOK /\ SessionOK

LEMMA TokenTypes ==
    /\ Ok \in Tokens /\ Err \in Tokens /\ Dot \in Tokens
    /\ \A m \in Msgs, i \in 1..NumLines : Line(m, i) \in Tokens
  BY DEF Tokens, Ok, Err, Dot, Line

LEMMA MessageType ==
    ASSUME NEW m \in Msgs
    PROVE  /\ Body(m) \in Seq(Tokens) /\ Len(Body(m)) = NumLines
           /\ Message(m) \in Seq(Tokens) /\ Len(Message(m)) = NumLines + 2
           /\ Message(m)[1] = Ok
           /\ \A i \in 1..NumLines : Message(m)[i + 1] = Line(m, i)
           /\ Message(m)[NumLines + 2] = Dot
  <1>1. Body(m) \in Seq(Tokens) /\ Len(Body(m)) = NumLines
    <2>1. \A i \in 1..NumLines : Line(m, i) \in Tokens
      BY TokenTypes
    <2>2. Body(m) \in [1..NumLines -> Tokens]
      BY <2>1 DEF Body
    <2> QED
      BY <2>2
  <1>2. <<Ok>> \in Seq(Tokens) /\ <<Dot>> \in Seq(Tokens)
        /\ Len(<<Ok>>) = 1 /\ Len(<<Dot>>) = 1
    BY TokenTypes
  <1>3. /\ <<Ok>> \o Body(m) \in Seq(Tokens)
        /\ Len(<<Ok>> \o Body(m)) = NumLines + 1
        /\ \A i \in 1..NumLines + 1 :
              (<<Ok>> \o Body(m))[i] = IF i <= 1 THEN <<Ok>>[i] ELSE Body(m)[i - 1]
    BY <1>1, <1>2, ConcatProperties
  <1>4. /\ Message(m) \in Seq(Tokens)
        /\ Len(Message(m)) = NumLines + 2
        /\ \A i \in 1..NumLines + 2 :
              Message(m)[i] = IF i <= NumLines + 1 THEN (<<Ok>> \o Body(m))[i]
                              ELSE <<Dot>>[i - (NumLines + 1)]
    BY <1>2, <1>3, ConcatProperties DEF Message
  <1>5. Message(m)[1] = Ok
    BY <1>3, <1>4
  <1>6. ASSUME NEW i \in 1..NumLines PROVE Message(m)[i + 1] = Line(m, i)
    <2>1. i + 1 \in 1..NumLines + 1 /\ ~(i + 1 <= 1) /\ (i + 1) - 1 = i
      OBVIOUS
    <2>2. (<<Ok>> \o Body(m))[i + 1] = Body(m)[i]
      BY <1>3, <2>1
    <2> QED
      BY <1>4, <2>1, <2>2 DEF Body
  <1>7. Message(m)[NumLines + 2] = Dot
    <2>1. /\ NumLines + 2 \in 1..NumLines + 2 /\ ~(NumLines + 2 <= NumLines + 1)
          /\ (NumLines + 2) - (NumLines + 1) = 1
      OBVIOUS
    <2> QED
      BY <1>4, <2>1
  <1> QED
    BY <1>1, <1>4, <1>5, <1>6, <1>7

\* What a command leaves in the stream.
LEMMA RepliesType ==
    ASSUME stream \in Seq(Tokens), NEW reply \in Seq(Tokens)
    PROVE  /\ Replies(reply) \in Seq(Tokens)
           /\ Succeeds(reply) => stream' \in Seq(Tokens)
           /\ Refuses(reply) => stream' \in Seq(Tokens)
           /\ \A s \in Late(Replies(reply)) : s \in Seq(Tokens)
           /\ \A s \in Late(stream) : s \in Seq(Tokens)
  <1>1. Replies(reply) \in Seq(Tokens)
    BY DEF Replies
  <1>2. ASSUME NEW s \in Seq(Tokens), s # << >>
        PROVE  Tail(s) \in Seq(Tokens) /\ <<Err>> \o Tail(s) \in Seq(Tokens)
    <2>1. Tail(s) \in Seq(Tokens)
      BY <1>2
    <2>2. <<Err>> \in Seq(Tokens)
      BY TokenTypes
    <2> QED
      BY <2>1, <2>2
  <1> QED
    BY <1>1, <1>2 DEF Succeeds, Refuses, Late

LEMMA SilentType ==
    ASSUME stream \in Seq(Tokens), NEW reply \in Seq(Tokens), Silent(reply), faults \in 0..MaxFaults
    PROVE  stream' \in Seq(Tokens) /\ faults' \in 0..MaxFaults
  BY RepliesType DEF Silent, Fault

\* Every timeout that counts is a failure.
LEMMA LateTypes ==
    ASSUME TypeOK, Open \/ Retr \/ ReadLine \/ Post \/ Dele \/ Drop \/ Crash
    PROVE  late' \in 0..faults' /\ faults' \in 0..MaxFaults
  <1>1. late \in 0..faults /\ faults \in 0..MaxFaults /\ MaxFaults \in Nat
    BY DEF TypeOK
  <1>2. ASSUME NEW kind, Fault(kind), late' \in {0, late, late + 1}
        PROVE  late' \in 0..faults' /\ faults' \in 0..MaxFaults
    BY <1>1, <1>2 DEF Fault
  <1>3. ASSUME UNCHANGED faults, late' \in {0, late}
        PROVE  late' \in 0..faults' /\ faults' \in 0..MaxFaults
    BY <1>1, <1>3
  <1>4. ASSUME NEW reply, Silent(reply), late' = IF up THEN late + 1 ELSE late
        PROVE  late' \in 0..faults' /\ faults' \in 0..MaxFaults
    BY <1>2, <1>3, <1>4 DEF Silent
  <1>5. ASSUME NEW reply, Silent(reply), UNCHANGED late
        PROVE  late' \in 0..faults' /\ faults' \in 0..MaxFaults
    BY <1>2, <1>3, <1>5 DEF Silent
  <1>6. CASE Open \/ Drop \/ Crash
    BY <1>2, <1>3, <1>6 DEF Open, Drop, Crash, Forget
  <1>7. CASE Retr
    BY <1>2, <1>3, <1>5, <1>7 DEF Retr
  <1>8. CASE ReadLine
    BY <1>2, <1>3, <1>8 DEF ReadLine, TimeOut
  <1>9. CASE Post
    BY <1>2, <1>3, <1>9 DEF Post
  <1>10. CASE Dele
    BY <1>2, <1>3, <1>4, <1>10 DEF Dele
  <1> QED
    BY <1>6, <1>7, <1>8, <1>9, <1>10

LEMMA CardBox ==
    ASSUME box \subseteq Msgs
    PROVE  Cardinality(box) \in Nat
  <1>1. IsFiniteSet(1..NumMsgs)
    BY FS_Interval
  <1> QED
    BY <1>1, FS_Subset, FS_CardinalityType

LEMMA InitTypes == Init => TypeInv
  <1> SUFFICES ASSUME Init PROVE TypeInv
    OBVIOUS
  <1>1. accepted \in [Msgs -> 0..MaxAccepts] /\ \A m \in Msgs : accepted[m] = 0
    BY DEF Init
  <1>2. stream \in Seq(Tokens) /\ file \in Seq(Tokens)
    BY DEF Init
  <1>3. /\ box \subseteq Msgs /\ arrived \in 0..NumMsgs /\ kept \subseteq Msgs
        /\ excused \subseteq Msgs /\ faults \in 0..MaxFaults /\ late \in 0..faults
        /\ marked \subseteq box /\ todo \subseteq box
        /\ left \in 0..MaxMessages /\ last \in Msgs \cup {0}
    BY DEF Init
  <1>5. /\ pc \in {"idle", "retr", "body", "post", "clean", "dele", "quit"}
        /\ up \in BOOLEAN /\ delivered \in BOOLEAN
    BY DEF Init
  <1>6. TypeOK
    BY <1>1, <1>2, <1>3, <1>5 DEF TypeOK
  <1>4. SessionOK
    BY <1>1 DEF Init, SessionOK, Holding
  <1> QED
    BY <1>4, <1>6 DEF TypeInv

LEMMA OpenTypes == TypeInv /\ Open => TypeInv'
  <1> SUFFICES ASSUME TypeInv, Open PROVE TypeInv'
    OBVIOUS
  <1>1. TypeOK /\ SessionOK /\ pc = "idle"
    BY DEF TypeInv, Open
  <1>2. left' \in 0..MaxMessages
    BY <1>1, CardBox DEF Open, TypeOK
  <1>5. faults' \in 0..MaxFaults /\ late' \in 0..faults'
    BY <1>1, LateTypes
  <1>3. TypeOK'
    BY <1>1, <1>2, <1>5 DEF Open, TypeOK, server
  <1>4. SessionOK'
    BY <1>1 DEF Open, SessionOK, Holding, server
  <1> QED
    BY <1>3, <1>4 DEF TypeInv

LEMMA RetrTypes == TypeInv /\ Retr => TypeInv'
  <1> SUFFICES ASSUME TypeInv, Retr PROVE TypeInv'
    OBVIOUS
  <1>1. TypeOK /\ SessionOK /\ pc = "retr"
    BY DEF TypeInv, Retr
  <1>2. PICK m \in todo :
          /\ todo' = todo \ {m}
          /\ last' = m
          /\ \/ Succeeds(Message(m)) /\ pc' = "body" /\ UNCHANGED faults
             \/ Refuses(Message(m)) /\ pc' = "quit" /\ UNCHANGED faults
             \/ Silent(Message(m)) /\ pc' = "quit"
             \/ up /\ Fault("err") /\ Succeeds(<<Err>>) /\ pc' = "body"
             \/ up /\ Fault("err") /\ Refuses(<<Err>>) /\ pc' = "quit"
    BY DEF Retr
  <1>3. m \in Msgs /\ m \in box
    BY <1>1 DEF TypeOK
  <1>4. Message(m) \in Seq(Tokens) /\ <<Err>> \in Seq(Tokens)
    BY <1>3, MessageType, TokenTypes
  <1>5. stream' \in Seq(Tokens) /\ faults' \in 0..MaxFaults
    <2>1. stream \in Seq(Tokens) /\ faults \in 0..MaxFaults
      BY <1>1 DEF TypeOK
    <2>2. CASE Silent(Message(m))
      BY <1>4, <2>1, <2>2, SilentType
    <2>3. CASE Succeeds(Message(m)) \/ Refuses(Message(m))
      <3>1. stream' \in Seq(Tokens)
        BY <1>4, <2>1, <2>3, RepliesType
      <3>2. CASE UNCHANGED faults
        BY <2>1, <3>1, <3>2
      <3> QED
        BY <1>2, <2>1, <3>1 DEF Fault, Silent
    <2>4. CASE (Succeeds(<<Err>>) \/ Refuses(<<Err>>)) /\ Fault("err")
      <3>1. stream' \in Seq(Tokens)
        BY <1>4, <2>1, <2>4, RepliesType
      <3> QED
        BY <2>1, <2>4, <3>1 DEF Fault
    <2> QED
      BY <1>2, <2>2, <2>3, <2>4
  <1>6. pc' \in {"body", "quit"}
    BY <1>2
  <1>7. left' \in 0..MaxMessages /\ file' \in Seq(Tokens)
    BY <1>1 DEF Retr, BelowLimit, TypeOK
  <1>8. UNCHANGED <<server, accepted, kept, excused, up, delivered>>
    BY DEF Retr
  <1>9. TypeOK'
    BY <1>1, <1>2, <1>3, <1>5, <1>6, <1>7, <1>8, LateTypes DEF TypeOK, server
  <1>10. SessionOK'
    BY <1>1, <1>2, <1>3, <1>6, <1>8 DEF SessionOK, server, TypeOK
  <1> QED
    BY <1>9, <1>10 DEF TypeInv

LEMMA NoMoreTypes == TypeInv /\ NoMore => TypeInv'
  BY DEF TypeInv, NoMore, TypeOK, SessionOK, Holding, server

LEMMA ReadLineTypes == TypeInv /\ ReadLine => TypeInv'
  <1> SUFFICES ASSUME TypeInv, ReadLine PROVE TypeInv'
    OBVIOUS
  <1>1. TypeOK /\ SessionOK /\ pc = "body" /\ last \in Msgs
        /\ UNCHANGED <<server, accepted, kept, up, todo, left, last, delivered>>
    BY DEF TypeInv, ReadLine, SessionOK, Holding, TypeOK
  <1>2. <<>> \in Seq(Tokens)
    OBVIOUS
  <1>3. stream' \in Seq(Tokens) /\ file' \in Seq(Tokens)
    <2>1. CASE stream # << >> /\ stream' = Tail(stream)
               /\ (file' = file \/ file' = Append(file, Head(stream)))
      <3>1. Head(stream) \in Tokens /\ Tail(stream) \in Seq(Tokens)
        BY <1>1, <2>1, HeadTailProperties DEF TypeOK
      <3>2. file \in Seq(Tokens)
        BY <1>1 DEF TypeOK
      <3>3. Append(file, Head(stream)) \in Seq(Tokens)
        BY <3>1, <3>2, AppendProperties
      <3> QED
        BY <2>1, <3>1, <3>2, <3>3
    <2>2. CASE UNCHANGED <<stream, file>>
      BY <1>1, <2>2 DEF TypeOK
    <2>3. CASE stream' \in Late(stream) /\ UNCHANGED file
      BY <1>1, <1>2, <2>3, RepliesType DEF TypeOK
    <2> QED
      BY <2>1, <2>2, <2>3 DEF ReadLine
  <1>4. pc' \in {"body", "post", "quit"}
    BY DEF ReadLine
  <1>7. excused' \subseteq Msgs
    <2>1. Astray(late') \subseteq Msgs
      BY <1>1 DEF Astray, TypeOK
    <2> QED
      BY <1>1, <2>1 DEF ReadLine, TypeOK
  <1>5. TypeOK'
    BY <1>1, <1>3, <1>4, <1>7, LateTypes DEF TypeOK, server
  <1>6. SessionOK'
    BY <1>1, <1>4 DEF SessionOK, Holding, server
  <1> QED
    BY <1>5, <1>6 DEF TypeInv

\* What an acceptance adds, and to whom.
LEMMA AcceptOK ==
    ASSUME TypeInv, pc = "post", Accept
    PROVE  /\ accepted' \in [Msgs -> 0..MaxAccepts]
           /\ last \in 1..arrived /\ last \in Msgs
           /\ \A m \in Msgs : accepted'[m] >= accepted[m]
           /\ \A m \in Msgs \ {last} : accepted'[m] = accepted[m]
           /\ accepted'[last] <= accepted[last] + 1
           /\ Whole(last) => accepted'[last] > 0
  <1>1. /\ last \in 1..arrived /\ last \in Msgs
        /\ accepted \in [Msgs -> 0..MaxAccepts] /\ MaxAccepts \in Nat \ {0}
    BY DEF TypeInv, TypeOK, SessionOK, Holding
  <1>2. CASE Whole(last) /\ accepted[last] < MaxAccepts
    <2>1. accepted' = [accepted EXCEPT ![last] = accepted[last] + 1]
      BY <1>2 DEF Accept
    <2>2. accepted' \in [Msgs -> 0..MaxAccepts] /\ accepted'[last] = accepted[last] + 1
      BY <1>1, <1>2, <2>1
    <2>3. \A m \in Msgs \ {last} : accepted'[m] = accepted[m]
      BY <1>1, <2>1
    <2>4. \A m \in Msgs : accepted[m] \in Nat
      BY <1>1
    <2>5. \A m \in Msgs : accepted'[m] >= accepted[m]
      BY <2>2, <2>3, <2>4
    <2>6. accepted'[last] <= accepted[last] + 1 /\ accepted'[last] > 0
      BY <1>1, <2>2, <2>4
    <2> QED
      BY <1>1, <2>2, <2>3, <2>5, <2>6
  <1>3. CASE ~(Whole(last) /\ accepted[last] < MaxAccepts)
    <2>1. accepted' = accepted
      BY <1>3 DEF Accept
    <2>2. Whole(last) => accepted[last] > 0
      BY <1>1, <1>3
    <2> QED
      BY <1>1, <2>1, <2>2
  <1> QED
    BY <1>2, <1>3

\* The outcomes of a delivery.
LEMMA PostOutcomes ==
    ASSUME TypeInv, Post
    PROVE  /\ accepted' \in [Msgs -> 0..MaxAccepts]
           /\ last \in 1..arrived /\ last \in Msgs
           /\ \A m \in Msgs : accepted'[m] >= accepted[m]
           /\ \A m \in Msgs \ {last} : accepted'[m] = accepted[m]
           /\ \/ accepted'[last] <= accepted[last] /\ faults' \in {faults, faults + 1}
              \/ accepted'[last] <= accepted[last] + 1 /\ delivered' /\ faults' = faults
              \/ accepted'[last] <= accepted[last] + 1 /\ faults' = faults + 1
           /\ faults' \in 0..MaxFaults
           /\ delivered' \in BOOLEAN
           /\ excused' \in {excused, excused \cup {last}}
           /\ delivered' /\ Whole(last) => accepted'[last] > 0 \/ last \in excused'
  <1>1. TypeOK /\ pc = "post" /\ last \in 1..arrived /\ last \in Msgs
    BY DEF TypeInv, SessionOK, Holding, TypeOK, Post
  <1>2. accepted \in [Msgs -> 0..MaxAccepts] /\ faults \in 0..MaxFaults
    BY <1>1 DEF TypeOK
  <1>3. CASE UNCHANGED accepted /\ (~delivered' \/ last \in excused')
             /\ delivered' \in BOOLEAN
             /\ excused' \in {excused, excused \cup {last}}
             /\ (UNCHANGED faults \/ (faults < MaxFaults /\ faults' = faults + 1))
    BY <1>1, <1>2, <1>3
  <1>4. CASE Accept /\ delivered' = TRUE /\ UNCHANGED <<faults, excused>>
    <2>1. UNCHANGED faults /\ UNCHANGED excused /\ delivered'
      BY <1>4
    <2> QED
      BY <1>1, <1>2, <1>4, <2>1, AcceptOK
  <1>5. CASE Fault("lost") /\ Accept /\ delivered' = FALSE /\ UNCHANGED excused
    <2>1. faults' = faults + 1 /\ faults' \in 0..MaxFaults
      BY <1>2, <1>5 DEF Fault
    <2>2. ~delivered' /\ delivered' \in BOOLEAN
      BY <1>5
    <2>3. excused' \in {excused, excused \cup {last}}
      BY <1>5
    <2>4. /\ accepted' \in [Msgs -> 0..MaxAccepts]
          /\ \A m \in Msgs : accepted'[m] >= accepted[m]
          /\ \A m \in Msgs \ {last} : accepted'[m] = accepted[m]
          /\ accepted'[last] <= accepted[last] + 1
      BY <1>1, <1>5, AcceptOK
    <2>5. delivered' /\ Whole(last) => accepted'[last] > 0 \/ last \in excused'
      BY <2>2
    <2>6. accepted'[last] <= accepted[last] + 1 /\ faults' = faults + 1
      BY <2>1, <2>4
    <2>7. \/ accepted'[last] <= accepted[last] /\ faults' \in {faults, faults + 1}
          \/ accepted'[last] <= accepted[last] + 1 /\ delivered' /\ faults' = faults
          \/ accepted'[last] <= accepted[last] + 1 /\ faults' = faults + 1
      BY <2>6, Zenon
    <2> QED
      BY <1>1, <2>1, <2>2, <2>3, <2>4, <2>5, <2>7, Zenon
  <1>6. CASE DebugParse
    <2>1. delivered' = TRUE /\ excused' = excused \cup {last} /\ UNCHANGED <<accepted, faults>>
      BY <1>6 DEF Post
    <2>2. delivered' \in BOOLEAN /\ last \in excused'
      BY <2>1
    <2> QED
      BY <1>3, <2>1, <2>2
  <1>7. CASE ~DebugParse
    <2>1. CASE /\ UNCHANGED <<accepted, excused>> /\ delivered' = FALSE
               /\ IF last \in Poison THEN UNCHANGED faults ELSE Fault("refuse")
      <3>1. UNCHANGED faults \/ (faults < MaxFaults /\ faults' = faults + 1)
        BY <2>1 DEF Fault
      <3>2. ~delivered' /\ delivered' \in BOOLEAN
        BY <2>1
      <3> QED
        BY <1>3, <2>1, <3>1, <3>2
    <2>2. CASE /\ Fault("hollow") /\ delivered' = TRUE
               /\ excused' = excused \cup {last} /\ UNCHANGED accepted
      <3>1. UNCHANGED faults \/ (faults < MaxFaults /\ faults' = faults + 1)
        BY <2>2 DEF Fault
      <3>2. last \in excused' /\ delivered' \in BOOLEAN
        BY <2>2
      <3> QED
        BY <1>3, <2>2, <3>1, <3>2
    <2> QED
      BY <1>4, <1>5, <1>7, <2>1, <2>2 DEF Post
  <1> QED
    BY <1>6, <1>7

LEMMA PostTypes == TypeInv /\ Post => TypeInv'
  <1> SUFFICES ASSUME TypeInv, Post PROVE TypeInv'
    OBVIOUS
  <1>1. /\ TypeOK /\ SessionOK /\ pc = "post" /\ pc' = "clean"
        /\ UNCHANGED <<server, kept, up, stream, todo, left, last, file>>
    BY DEF TypeInv, Post
  <1>2. TypeOK'
    BY <1>1, PostOutcomes, LateTypes DEF TypeOK, server
  <1>3. \A m \in Msgs : m > arrived => accepted'[m] = 0
    <2>1. last \in 1..arrived /\ \A m \in Msgs \ {last} : accepted'[m] = accepted[m]
      BY PostOutcomes
    <2>2. arrived \in Nat
      BY <1>1 DEF TypeOK
    <2> QED
      BY <1>1, <2>1, <2>2 DEF SessionOK
  <1>4. SessionOK'
    BY <1>1, <1>3 DEF SessionOK, Holding, server
  <1> QED
    BY <1>2, <1>4 DEF TypeInv

LEMMA CleanTypes == TypeInv /\ Clean => TypeInv'
  <1> SUFFICES ASSUME TypeInv, Clean PROVE TypeInv'
    OBVIOUS
  <1>1. /\ TypeOK /\ SessionOK /\ pc = "clean" /\ pc' \in {"dele", "retr"}
        /\ last \in Msgs /\ kept' \in {kept, kept \cup {last}}
        /\ file' \in Seq(Tokens)
    BY DEF TypeInv, Clean, SessionOK, Holding, TypeOK
  <1>2. TypeOK'
    BY <1>1 DEF Clean, TypeOK, server
  <1>3. SessionOK'
    BY <1>1 DEF Clean, SessionOK, Holding, server
  <1> QED
    BY <1>2, <1>3 DEF TypeInv

LEMMA DeleTypes == TypeInv /\ Dele => TypeInv'
  <1> SUFFICES ASSUME TypeInv, Dele PROVE TypeInv'
    OBVIOUS
  <1>1. TypeOK /\ SessionOK /\ pc = "dele" /\ pc' = "retr" /\ last \in box
    BY DEF TypeInv, Dele, SessionOK, Holding
  <1>2. <<Ok>> \in Seq(Tokens) /\ <<Err>> \in Seq(Tokens)
    BY TokenTypes
  <1>3. stream' \in Seq(Tokens) /\ faults' \in 0..MaxFaults
    <2>1. stream \in Seq(Tokens) /\ faults \in 0..MaxFaults
      BY <1>1 DEF TypeOK
    <2>2. CASE Silent(<<Ok>>)
      BY <1>2, <2>1, <2>2, SilentType
    <2>3. CASE (Succeeds(<<Ok>>) \/ Refuses(<<Ok>>)) /\ UNCHANGED faults
      BY <1>2, <2>1, <2>3, RepliesType
    <2>4. CASE (Succeeds(<<Err>>) \/ Refuses(<<Err>>)) /\ Fault("err")
      <3>1. stream' \in Seq(Tokens)
        BY <1>2, <2>1, <2>4, RepliesType
      <3> QED
        BY <2>1, <2>4, <3>1 DEF Fault
    <2> QED
      BY <2>2, <2>3, <2>4 DEF Dele
  <1>4. marked' \subseteq box /\ (~up => marked' = {})
    BY <1>1 DEF Dele, TypeOK, SessionOK
  <1>7. excused' \subseteq Msgs
    <2>1. Astray(late') \subseteq Msgs
      BY <1>1 DEF Astray, TypeOK
    <2> QED
      BY <1>1, <2>1 DEF Dele, TypeOK
  <1>8. UNCHANGED <<box, arrived, accepted, kept, up, todo, left, last, file, delivered>>
    BY DEF Dele
  <1>5. TypeOK'
    BY <1>1, <1>3, <1>4, <1>7, <1>8, LateTypes DEF TypeOK
  <1>6. SessionOK'
    BY <1>1, <1>4 DEF Dele, SessionOK, Holding
  <1> QED
    BY <1>5, <1>6 DEF TypeInv

\* The end of a session, whatever it leaves in the mailbox.
LEMMA ForgetTypes ==
    ASSUME TypeInv, Forget, box' \subseteq box, faults' \in 0..MaxFaults,
           kept' \subseteq Msgs, UNCHANGED <<arrived, accepted, excused>>
    PROVE  TypeInv'
  <1>1. stream' \in Seq(Tokens) /\ file' \in Seq(Tokens)
    BY DEF Forget
  <1>4. /\ up' \in BOOLEAN /\ delivered' \in BOOLEAN /\ marked' \subseteq box'
        /\ pc' \in {"idle", "retr", "body", "post", "clean", "dele", "quit"}
        /\ todo' \subseteq box' /\ left' \in 0..MaxMessages /\ last' \in Msgs \cup {0}
    <2>1. /\ up' = FALSE /\ delivered' = FALSE /\ marked' = {} /\ pc' = "idle"
          /\ todo' = {} /\ left' = 0 /\ last' = 0
      BY DEF Forget
    <2>2. up' \in BOOLEAN /\ delivered' \in BOOLEAN
      BY <2>1
    <2>3. /\ marked' \subseteq box' /\ todo' \subseteq box'
          /\ left' \in 0..MaxMessages /\ last' \in Msgs \cup {0}
      BY <2>1
    <2> QED
      BY <2>1, <2>2, <2>3
  <1>5. TypeOK
    BY DEF TypeInv
  <1>6. late' \in 0..faults'
    BY DEF Forget
  <1>2. TypeOK'
    BY <1>1, <1>4, <1>5, <1>6 DEF TypeOK
  <1>3. SessionOK'
    BY DEF Forget, TypeInv, SessionOK, Holding
  <1> QED
    BY <1>2, <1>3 DEF TypeInv

LEMMA QuitTypes == TypeInv /\ Quit => TypeInv'
  <1> SUFFICES ASSUME TypeInv, Quit PROVE TypeInv'
    OBVIOUS
  <1>1. box' \subseteq box /\ faults' \in 0..MaxFaults /\ kept' \subseteq Msgs
    BY DEF Quit, TypeInv, TypeOK
  <1> QED
    BY <1>1, ForgetTypes DEF Quit

LEMMA CrashTypes == TypeInv /\ Crash => TypeInv'
  <1> SUFFICES ASSUME TypeInv, Crash PROVE TypeInv'
    OBVIOUS
  <1>1. faults' \in 0..MaxFaults
    BY DEF Crash, TypeInv, TypeOK, Fault
  <1>2. kept' \subseteq Msgs
    BY DEF Crash, TypeInv, TypeOK, SessionOK, Holding
  <1> QED
    BY <1>1, <1>2, ForgetTypes DEF Crash

LEMMA DropTypes == TypeInv /\ Drop => TypeInv'
  <1> SUFFICES ASSUME TypeInv, Drop PROVE TypeInv'
    OBVIOUS
  <1>1. stream' \in Seq(Tokens)
    <2>1. PICK n \in 0..Len(stream) : stream' = SubSeq(stream, 1, n)
      BY DEF Drop
    <2>2. \A i \in 1..n : stream[i] \in Tokens
      BY DEF TypeInv, TypeOK
    <2> QED
      BY <2>1, <2>2, SubSeqProperties DEF TypeInv, TypeOK
  <1>4. up' \in BOOLEAN /\ marked' \subseteq box' /\ faults' \in 0..MaxFaults
    <2>1. up' = FALSE /\ marked' = {} /\ Fault("drop")
      BY DEF Drop
    <2>2. up' \in BOOLEAN
      BY <2>1
    <2>3. marked' \subseteq box' /\ faults' \in 0..MaxFaults
      BY <2>1 DEF TypeInv, TypeOK, Fault
    <2> QED
      BY <2>2, <2>3
  <1>5. UNCHANGED <<box, arrived, accepted, kept, excused,
                    pc, todo, left, last, file, delivered>>
    BY DEF Drop
  <1>2. TypeOK'
    BY <1>1, <1>4, <1>5, LateTypes DEF TypeInv, TypeOK
  <1>3. SessionOK'
    BY DEF Drop, TypeInv, SessionOK, Holding
  <1> QED
    BY <1>2, <1>3 DEF TypeInv

LEMMA ArriveTypes == TypeInv /\ Arrive => TypeInv'
  <1> SUFFICES ASSUME TypeInv, Arrive PROVE TypeInv'
    OBVIOUS
  <1>0. arrived \in 0..NumMsgs /\ box \subseteq 1..arrived
        /\ arrived < NumMsgs /\ arrived' = arrived + 1 /\ box' = box \cup {arrived + 1}
    BY DEF Arrive, TypeInv, TypeOK, SessionOK
  <1>1. arrived' \in 0..NumMsgs /\ box' \subseteq 1..arrived' /\ box \subseteq box'
        /\ box' \subseteq Msgs
    BY <1>0
  <1>2. TypeOK'
    BY <1>1 DEF Arrive, TypeInv, TypeOK
  <1>3. SessionOK'
    BY <1>1 DEF Arrive, TypeInv, TypeOK, SessionOK, Holding
  <1> QED
    BY <1>2, <1>3 DEF TypeInv

LEMMA StutterTypes == TypeInv /\ UNCHANGED vars => TypeInv'
  BY DEF TypeInv, TypeOK, SessionOK, Holding, vars, server

\* Every variable keeps its type; in particular a message that is marked, or
\* still to be fetched, is in the mailbox, and the limit is kept.
THEOREM PopTypeCorrect == Spec => []TypeOK
  <1>1. TypeInv /\ [Next]_vars => TypeInv'
    BY OpenTypes, RetrTypes, NoMoreTypes, ReadLineTypes, PostTypes, CleanTypes,
       DeleTypes, QuitTypes, CrashTypes, DropTypes, ArriveTypes, StutterTypes
       DEF Next, Step
  <1>2. TypeInv => TypeOK
    BY DEF TypeInv
  <1> QED
    BY InitTypes, <1>1, <1>2, PTL DEF Spec

(***************************************************************************)
(* Duplicates                                                              *)
(***************************************************************************)

\* The session may still post the message.
ToPost(m) == m \in todo \/ (m = last /\ pc \in {"body", "post"})

\* The session removes the message if it comes to its end.
ToRemove(m) == /\ up
               /\ \/ m \in marked
                  \/ m = last /\ (pc = "dele" \/ (pc = "clean" /\ Deletes))

\* A message was taken once without a failure only if it is gone, or goes at the
\* end of the session; and when the connection is broken, a failure stands for
\* each message that is yet to be posted again.
DupAt(m) ==
    /\ accepted[m] <= faults + 1
    /\ m \in box /\ ~ToRemove(m) => accepted[m] <= faults
    /\ m \in box /\ ToPost(m) /\ ~up => accepted[m] + 1 <= faults

Dup == Delete => \A m \in Msgs : DupAt(m)

DupInv == TypeInv /\ Dup

LEMMA DupFacts ==
    ASSUME DupInv, Delete, NEW m \in Msgs
    PROVE  /\ accepted[m] \in Nat /\ faults \in Nat /\ DupAt(m)
           /\ TypeOK /\ SessionOK /\ up \in BOOLEAN
  <1>1. TypeOK /\ SessionOK /\ DupAt(m)
    BY DEF DupInv, Dup, TypeInv
  <1>2. accepted \in [Msgs -> 0..MaxAccepts] /\ faults \in 0..MaxFaults /\ up \in BOOLEAN
    BY <1>1 DEF TypeOK
  <1>3. accepted[m] \in 0..MaxAccepts
    BY <1>2
  <1>4. accepted[m] \in Nat /\ faults \in Nat
    BY <1>2, <1>3
  <1> QED
    BY <1>1, <1>2, <1>4

LEMMA InitDup == Init => DupInv
  <1> SUFFICES ASSUME Init PROVE DupInv
    OBVIOUS
  <1>1. \A m \in Msgs : DupAt(m)
    <2>1. box = {} /\ faults = 0 /\ accepted = [m \in Msgs |-> 0]
      BY DEF Init
    <2> QED
      BY <2>1 DEF DupAt
  <1> QED
    BY <1>1, InitTypes DEF DupInv, Dup

LEMMA OpenDup == DupInv /\ Open => Dup'
  <1> SUFFICES ASSUME DupInv, Open, Delete, NEW m \in Msgs PROVE DupAt(m)'
    BY DEF Dup
  <1>1. /\ accepted[m] \in Nat /\ faults \in Nat /\ DupAt(m)
        /\ pc = "idle" /\ ~up /\ todo = {} /\ UNCHANGED <<box, accepted>>
        /\ faults' \in {faults, faults + 1}
    BY DupFacts DEF Open, SessionOK, Fault, server
  <1>2. ~ToRemove(m)
    BY <1>1 DEF ToRemove
  <1>3. up' \/ ~ToPost(m)'
    BY <1>1 DEF Open, ToPost
  <1> QED
    BY <1>1, <1>2, <1>3 DEF DupAt

LEMMA RetrDup == DupInv /\ Retr => Dup'
  <1> SUFFICES ASSUME DupInv, Retr, Delete, NEW m \in Msgs PROVE DupAt(m)'
    BY DEF Dup
  <1>1. /\ accepted[m] \in Nat /\ faults \in Nat /\ DupAt(m)
        /\ pc = "retr" /\ UNCHANGED <<box, accepted, up, marked>>
        /\ faults' \in {faults, faults + 1} /\ pc' \in {"body", "quit"}
        /\ last' \in todo /\ todo' = todo \ {last'}
    BY DupFacts DEF Retr, SessionOK, Fault, server, Silent
  <1>2. ToRemove(m) => ToRemove(m)'
    BY <1>1 DEF ToRemove
  <1>3. ToPost(m)' => ToPost(m)
    BY <1>1 DEF ToPost
  <1> QED
    BY <1>1, <1>2, <1>3 DEF DupAt

LEMMA NoMoreDup == DupInv /\ NoMore => Dup'
  <1> SUFFICES ASSUME DupInv, NoMore, Delete, NEW m \in Msgs PROVE DupAt(m)'
    BY DEF Dup
  <1>1. /\ DupAt(m) /\ pc = "retr" /\ pc' = "quit"
        /\ UNCHANGED <<box, accepted, faults, up, marked, last, todo>>
    BY DupFacts DEF NoMore, server
  <1> QED
    BY <1>1 DEF DupAt, ToRemove, ToPost

LEMMA ReadLineDup == DupInv /\ ReadLine => Dup'
  <1> SUFFICES ASSUME DupInv, ReadLine, Delete, NEW m \in Msgs PROVE DupAt(m)'
    BY DEF Dup
  <1>1. /\ accepted[m] \in Nat /\ faults \in Nat /\ DupAt(m)
        /\ pc = "body" /\ pc' \in {"body", "post", "quit"}
        /\ UNCHANGED <<box, accepted, up, marked, last, todo>>
        /\ faults' \in {faults, faults + 1}
    BY DupFacts DEF ReadLine, TimeOut, Fault, server
  <1>2. ToRemove(m) => ToRemove(m)'
    BY <1>1 DEF ToRemove
  <1>3. ToPost(m)' => ToPost(m)
    BY <1>1 DEF ToPost
  <1> QED
    BY <1>1, <1>2, <1>3 DEF DupAt

\* A message is taken once; without a failure only if it then goes.
LEMMA PostDup == DupInv /\ Post => Dup'
  <1> SUFFICES ASSUME DupInv, Post, Delete, NEW m \in Msgs PROVE DupAt(m)'
    BY DEF Dup
  <1>1. /\ accepted[m] \in Nat /\ faults \in Nat /\ DupAt(m)
        /\ pc = "post" /\ pc' = "clean" /\ last \in box /\ last \notin todo \cup marked
        /\ UNCHANGED <<box, up, marked, last, todo>>
    BY DupFacts DEF Post, SessionOK, Holding, server
  <1>2. accepted'[m] \in Nat /\ faults' \in {faults, faults + 1}
    BY PostOutcomes DEF DupInv
  <1>3. CASE m # last
    <2>1. accepted'[m] = accepted[m]
      BY <1>3, PostOutcomes DEF DupInv
    <2>2. (ToRemove(m)' <=> ToRemove(m)) /\ (ToPost(m)' <=> ToPost(m))
      BY <1>1, <1>3 DEF ToRemove, ToPost
    <2> QED
      BY <1>1, <1>2, <2>1, <2>2 DEF DupAt
  <1>4. CASE m = last
    <2>1. m \in box /\ ToPost(m) /\ ~ToRemove(m) /\ ~ToPost(m)'
      BY <1>1, <1>4 DEF ToPost, ToRemove
    <2>2. accepted[m] <= faults /\ (~up => accepted[m] + 1 <= faults)
      BY <1>1, <2>1 DEF DupAt
    <2>3. CASE accepted'[m] <= accepted[m]
      BY <1>1, <1>2, <2>1, <2>2, <2>3 DEF DupAt
    <2>4. CASE accepted'[m] <= accepted[m] + 1 /\ faults' = faults + 1
      BY <1>1, <1>2, <2>1, <2>2, <2>4 DEF DupAt
    <2>5. CASE accepted'[m] <= accepted[m] + 1 /\ delivered' /\ faults' = faults
      <3>1. up => ToRemove(m)'
        BY <1>1, <1>4, <2>5 DEF ToRemove, Deletes
      <3> QED
        BY <1>1, <1>2, <2>1, <2>2, <2>5, <3>1 DEF DupAt
    <2> QED
      BY <1>4, <2>3, <2>4, <2>5, PostOutcomes DEF DupInv
  <1> QED
    BY <1>3, <1>4

LEMMA CleanDup == DupInv /\ Clean => Dup'
  <1> SUFFICES ASSUME DupInv, Clean, Delete, NEW m \in Msgs PROVE DupAt(m)'
    BY DEF Dup
  <1>1. /\ DupAt(m) /\ pc = "clean" /\ pc' = IF Deletes THEN "dele" ELSE "retr"
        /\ UNCHANGED <<box, accepted, faults, up, marked, last, todo>>
    BY DupFacts DEF Clean, server
  <1>2. ToRemove(m) => ToRemove(m)'
    BY <1>1 DEF ToRemove
  <1>3. ToPost(m)' => ToPost(m)
    BY <1>1 DEF ToPost
  <1> QED
    BY <1>1, <1>2, <1>3 DEF DupAt

LEMMA DeleDup == DupInv /\ Dele => Dup'
  <1> SUFFICES ASSUME DupInv, Dele, Delete, NEW m \in Msgs PROVE DupAt(m)'
    BY DEF Dup
  <1>1. /\ accepted[m] \in Nat /\ faults \in Nat /\ DupAt(m)
        /\ pc = "dele" /\ pc' = "retr"
        /\ UNCHANGED <<box, accepted, up, last, todo>>
    BY DupFacts DEF Dele
  <1>2. ToPost(m)' => ToPost(m)
    BY <1>1 DEF ToPost
  <1>3. CASE /\ marked' = IF up THEN marked \cup {last} ELSE marked
             /\ faults' \in {faults, faults + 1}
    <2>1. ToRemove(m) => ToRemove(m)'
      BY <1>1, <1>3 DEF ToRemove
    <2> QED
      BY <1>1, <1>2, <1>3, <2>1 DEF DupAt
  <1>4. CASE UNCHANGED marked /\ faults' = faults + 1
    BY <1>1, <1>2, <1>4 DEF DupAt
  <1> QED
    BY <1>1, <1>3, <1>4 DEF Dele, Silent, Fault

\* A failure outweighs whatever a session that ends has not removed.
LEMMA ForgetDup ==
    ASSUME DupInv, Forget, UNCHANGED <<box, accepted>>, faults' = faults + 1
    PROVE  Dup'
  <1> SUFFICES ASSUME Delete, NEW m \in Msgs PROVE DupAt(m)'
    BY DEF Dup
  <1>1. accepted[m] \in Nat /\ faults \in Nat /\ DupAt(m)
    BY DupFacts
  <1>2. ~ToPost(m)'
    BY DEF Forget, ToPost
  <1> QED
    BY <1>1, <1>2 DEF DupAt

LEMMA QuitDup == DupInv /\ Quit => Dup'
  <1> SUFFICES ASSUME DupInv, Quit, Delete, NEW m \in Msgs PROVE DupAt(m)'
    BY DEF Dup
  <1>1. /\ accepted[m] \in Nat /\ faults \in Nat /\ DupAt(m)
        /\ pc = "quit" /\ UNCHANGED <<accepted, faults>>
        /\ box' = IF up THEN box \ marked ELSE box
    BY DupFacts DEF Quit
  <1>2. ~ToPost(m)'
    BY DEF Quit, Forget, ToPost
  <1>3. m \in box' => m \in box /\ ~ToRemove(m)
    BY <1>1 DEF ToRemove
  <1> QED
    BY <1>1, <1>2, <1>3 DEF DupAt

LEMMA CrashDup == DupInv /\ Crash => Dup'
  BY ForgetDup DEF Crash, Fault

LEMMA DropDup == DupInv /\ Drop => Dup'
  <1> SUFFICES ASSUME DupInv, Drop, Delete, NEW m \in Msgs PROVE DupAt(m)'
    BY DEF Dup
  <1>1. /\ accepted[m] \in Nat /\ faults \in Nat /\ DupAt(m)
        /\ UNCHANGED <<box, accepted, pc, last, todo>> /\ faults' = faults + 1
    BY DupFacts DEF Drop, Fault
  <1>2. ToPost(m)' => ToPost(m)
    BY <1>1 DEF ToPost
  <1>3. ToPost(m) => ~ToRemove(m)
    BY DupFacts DEF ToPost, ToRemove, SessionOK, Holding
  <1> QED
    BY <1>1, <1>2, <1>3 DEF DupAt

LEMMA ArriveDup == DupInv /\ Arrive => Dup'
  <1> SUFFICES ASSUME DupInv, Arrive, Delete, NEW m \in Msgs PROVE DupAt(m)'
    BY DEF Dup
  <1>1. /\ accepted[m] \in Nat /\ faults \in Nat /\ DupAt(m) /\ SessionOK
        /\ todo \subseteq box /\ arrived \in Nat
        /\ UNCHANGED <<accepted, faults, pc, last, todo, up, marked, delivered>>
        /\ box' = box \cup {arrived + 1}
    BY DupFacts DEF Arrive, TypeOK
  <1>2. (ToRemove(m)' <=> ToRemove(m)) /\ (ToPost(m)' <=> ToPost(m))
    BY <1>1 DEF ToRemove, ToPost, Deletes
  <1>3. CASE m \in box
    BY <1>1, <1>2, <1>3 DEF DupAt
  <1>4. CASE m \notin box
    <2>1. m = arrived + 1 => accepted[m] = 0
      BY <1>1 DEF SessionOK
    <2>2. ~ToPost(m)
      BY <1>1, <1>4 DEF ToPost, SessionOK, Holding
    <2> QED
      BY <1>1, <1>2, <2>1, <2>2 DEF DupAt
  <1> QED
    BY <1>3, <1>4

LEMMA StutterDup == DupInv /\ UNCHANGED vars => Dup'
  BY DEF DupInv, Dup, DupAt, ToRemove, ToPost, Deletes, vars, server

\* An account that deletes gets a message to the backend once, and once more
\* for every failure or death: QUIT removes whatever was taken without one.
THEOREM PopDuplicates == Spec => []DuplicatesAreFaults
  <1>1. DupInv /\ [Next]_vars => DupInv'
    <2>1. TypeInv /\ [Next]_vars => TypeInv'
      BY OpenTypes, RetrTypes, NoMoreTypes, ReadLineTypes, PostTypes, CleanTypes,
         DeleTypes, QuitTypes, CrashTypes, DropTypes, ArriveTypes, StutterTypes
         DEF Next, Step
    <2> QED
      BY <2>1, OpenDup, RetrDup, NoMoreDup, ReadLineDup, PostDup, CleanDup, DeleDup,
         QuitDup, CrashDup, DropDup, ArriveDup, StutterDup DEF DupInv, Next, Step
  <1>2. DupInv => DuplicatesAreFaults
    BY DupFacts DEF DuplicatesAreFaults, DupAt
  <1> QED
    BY InitDup, <1>1, <1>2, PTL DEF Spec

(***************************************************************************)
(* Late replies: how far the client may be behind                          *)
(***************************************************************************)

\* What a body may consist of: the reply to RETR after its status line, or, when
\* a late reply was taken for the status line, all that RETR was answered.
Sent == {Tail(Message(last))} \cup (IF late = 0 THEN {} ELSE {Message(last), <<Err>>})

\* The file and the unread lines make up s; a beginning of s after a break.
Reads(s) ==
    /\ Len(file) + Len(stream) <= Len(s)
    /\ up => Len(file) + Len(stream) = Len(s)
    /\ \A i \in DOMAIN file : file[i] = s[i] /\ s[i] # Dot
    /\ \A i \in DOMAIN stream : stream[i] = s[Len(file) + i]

\* No late reply is among the lines.
NoStatus(s) == \A i \in DOMAIN s : s[i] # Ok

\* Without a timeout, nothing is unread between two commands.  After one, what
\* is unread are the rest of a body and, as the last line, one late reply, which
\* only the next RETR may take for its own.
InStep ==
    /\ late = 0 /\ pc \notin {"body", "quit"} => stream = << >>
    /\ pc \in {"post", "clean", "dele"} => NoStatus(stream)
    /\ pc = "retr" => \A i \in DOMAIN stream : stream[i] = Ok => i = Len(stream)
    /\ pc = "body" => \E s \in Sent : Reads(s)
    /\ OwnLines

\* A message that is posted while the connection stands is whole or excused, in
\* whatever session; so is, further on, every message of a session that has
\* fallen behind too far.
Sound ==
    /\ pc = "idle" => late = 0 /\ stream = << >>
    /\ ~Prompt(late) => todo \subseteq excused
    /\ ~Prompt(late) /\ pc = "body" => last \in excused
    /\ pc \in {"post", "clean"} /\ up => Whole(last) \/ last \in excused
    /\ Prompt(late) => InStep

StepInv == TypeInv /\ Sound

LEMMA StatusLines ==
    /\ isOK(Ok) /\ ~isOK(Err)
    /\ Ok # Err /\ Ok # Dot /\ Err # Dot
    /\ \A m \in Msgs, i \in 1..NumLines : Line(m, i) # Ok /\ Line(m, i) # Dot /\ Line(m, i)[1] = m
    /\ {Ok, Err, Dot} \cap (Msgs \X (1..NumLines)) = {}
    /\ Lookalikes = {} => \A l \in Tokens : isOK(l) => l = Ok
  BY DEF isOK, Ok, Err, Dot, Line

\* The lines a body may consist of: the dot comes last and after all lines, and
\* there are no other messages' lines among them.
LEMMA SentFacts ==
    ASSUME last \in Msgs, NEW s \in Sent
    PROVE  /\ s \in Seq(Tokens)
           /\ \A i \in 1..Len(s) : s[i] = Dot => i = Len(s)
           /\ \A i \in 1..Len(s) : s[i] \in Msgs \X (1..NumLines) => s[i][1] = last
           /\ s[Len(s)] = Dot => \A n \in 1..NumLines : \E j \in 1..Len(s) - 1 : s[j] = Line(last, n)
           /\ late = 0 => NoStatus(s)
  <1>1. /\ Message(last) \in Seq(Tokens) /\ Len(Message(last)) = NumLines + 2
        /\ Message(last)[1] = Ok
        /\ \A i \in 1..NumLines : Message(last)[i + 1] = Line(last, i)
        /\ Message(last)[NumLines + 2] = Dot
        /\ NumLines \in Nat \ {0}
    BY MessageType
  <1>5. ASSUME NEW i \in 1..NumLines + 2
        PROVE  /\ Message(last)[i] = Dot => i = NumLines + 2
               /\ Message(last)[i] \in Msgs \X (1..NumLines) => Message(last)[i][1] = last
               /\ Message(last)[i] = Ok => i = 1
    <2>1. CASE i = 1 \/ i = NumLines + 2
      BY <1>1, <2>1, StatusLines
    <2>2. CASE i \in 2..NumLines + 1
      <3>1. i - 1 \in 1..NumLines /\ (i - 1) + 1 = i
        BY <2>2
      <3>2. Message(last)[i] = Line(last, i - 1)
        BY <1>1, <3>1
      <3> QED
        BY <3>1, <3>2, StatusLines
    <2> QED
      BY <1>1, <2>1, <2>2
  <1>2. CASE s = Message(last)
    <2>1. ASSUME NEW n \in 1..NumLines PROVE \E j \in 1..Len(s) - 1 : s[j] = Line(last, n)
      <3>1. n + 1 \in 1..Len(s) - 1
        BY <1>1, <1>2
      <3> QED
        BY <1>1, <1>2, <3>1
    <2>2. late # 0 \/ s = Tail(Message(last)) \/ s = <<Err>>
      BY DEF Sent
    <2>3. CASE late # 0
      BY <1>1, <1>2, <1>5, <2>1, <2>3
    <2>4. CASE s = Tail(Message(last))
      <3>1. Len(Tail(Message(last))) = NumLines + 1
        BY <1>1
      <3> QED
        BY <1>1, <1>2, <2>4, <3>1
    <2>5. CASE s = <<Err>>
      <3>1. Len(<<Err>>) = 1
        OBVIOUS
      <3> QED
        BY <1>1, <1>2, <2>5, <3>1
    <2> QED
      BY <2>2, <2>3, <2>4, <2>5
  <1>3. CASE s = Tail(Message(last))
    <2>1. /\ s \in Seq(Tokens) /\ Len(s) = NumLines + 1
          /\ \A i \in 1..NumLines + 1 : s[i] = Message(last)[i + 1]
      BY <1>1, <1>3
    <2>2. ASSUME NEW i \in 1..Len(s)
          PROVE  /\ s[i] = Dot => i = Len(s)
                 /\ s[i] \in Msgs \X (1..NumLines) => s[i][1] = last
                 /\ s[i] # Ok
      <3>1. i + 1 \in 1..NumLines + 2 /\ s[i] = Message(last)[i + 1] /\ i + 1 # 1
        BY <1>1, <2>1
      <3>2. i + 1 = NumLines + 2 => i = Len(s)
        BY <1>1, <2>1
      <3> QED
        BY <1>5, <3>1, <3>2
    <2>3. ASSUME NEW n \in 1..NumLines PROVE \E j \in 1..Len(s) - 1 : s[j] = Line(last, n)
      <3>1. n \in 1..Len(s) - 1 /\ n \in 1..NumLines + 1
        BY <1>1, <2>1
      <3> QED
        BY <1>1, <2>1, <3>1
    <2>4. NoStatus(s)
      BY <2>1, <2>2 DEF NoStatus
    <2> QED
      BY <2>1, <2>2, <2>3, <2>4
  <1>4. CASE late # 0 /\ s = <<Err>>
    <2>1. s \in Seq(Tokens) /\ Len(s) = 1 /\ s[1] = Err
      BY <1>4, TokenTypes
    <2> QED
      BY <1>4, <2>1, StatusLines
  <1> QED
    BY <1>2, <1>3, <1>4 DEF Sent

\* A read that times out adds no status line.
LEMMA LateLines ==
    ASSUME NEW s \in Seq(Tokens), NoStatus(s), NEW t \in Late(s)
    PROVE  NoStatus(t)
  <1>1. CASE t = s
    BY <1>1
  <1>2. CASE s # << >> /\ t = <<Err>> \o Tail(s)
    <2>1. /\ Tail(s) \in Seq(Tokens) /\ Len(Tail(s)) = Len(s) - 1
          /\ \A i \in 1..Len(s) - 1 : Tail(s)[i] = s[i + 1]
      BY <1>2
    <2>2. <<Err>> \in Seq(Tokens) /\ Len(<<Err>>) = 1 /\ <<Err>>[1] = Err
      BY TokenTypes
    <2>3. /\ t \in Seq(Tokens) /\ Len(t) = Len(s)
          /\ \A i \in 1..Len(s) : t[i] = IF i <= 1 THEN <<Err>>[i] ELSE Tail(s)[i - 1]
      BY <1>2, <2>1, <2>2, ConcatProperties
    <2>4. ASSUME NEW i \in 1..Len(s) PROVE t[i] # Ok
      <3>1. CASE i = 1
        BY <2>2, <2>3, <3>1, StatusLines
      <3>2. CASE i # 1
        <4>1. i - 1 \in 1..Len(s) - 1 /\ (i - 1) + 1 = i /\ ~(i <= 1) /\ i \in DOMAIN s
          BY <3>2
        <4>2. t[i] = s[i]
          BY <2>1, <2>3, <4>1
        <4> QED
          BY <4>1, <4>2 DEF NoStatus
      <3> QED
        BY <3>1, <3>2
    <2>5. DOMAIN t = 1..Len(s)
      BY <2>3
    <2> QED
      BY <2>4, <2>5 DEF NoStatus
  <1> QED
    BY <1>1, <1>2 DEF Late

LEMMA TailOfOne ==
    ASSUME NEW s \in Seq(Tokens), Len(s) = 1
    PROVE  Tail(s) = << >>
  <1>1. Tail(s) \in Seq(Tokens) /\ Len(Tail(s)) = 0
    OBVIOUS
  <1> QED
    BY <1>1, EmptySeq

\* A command that is answered in step leaves nothing but what follows the reply.
LEMMA OneReply ==
    ASSUME stream = << >>, NEW l \in Tokens
    PROVE  /\ Succeeds(<<l>>) => stream' = << >> /\ isOK(l)
           /\ Refuses(<<l>>) => stream' = << >> /\ ~isOK(l)
  <1>1. Replies(<<l>>) \in {<<l>>, << >>}
    <2>1. << >> \o <<l>> = <<l>>
      OBVIOUS
    <2> QED
      BY <2>1 DEF Replies
  <1>2. Tail(<<l>>) = << >> /\ Head(<<l>>) = l
    OBVIOUS
  <1> QED
    BY <1>1, <1>2 DEF Succeeds, Refuses

\* A command whose reply is still to come when it takes the first unread line.
LEMMA StaleReply ==
    ASSUME stream \in Seq(Tokens), stream # << >>, NEW reply \in Seq(Tokens),
           Succeeds(reply) \/ Refuses(reply)
    PROVE  /\ Succeeds(reply) => isOK(stream[1])
           /\ stream' = IF up THEN Tail(stream) \o reply ELSE Tail(stream)
  <1>1. Len(stream) >= 1 /\ Head(stream) = stream[1]
    OBVIOUS
  <1>2. /\ stream \o reply \in Seq(Tokens)
        /\ Len(stream \o reply) = Len(stream) + Len(reply)
        /\ \A i \in 1..Len(stream) + Len(reply) :
              (stream \o reply)[i] = IF i <= Len(stream) THEN stream[i] ELSE reply[i - Len(stream)]
    BY ConcatProperties
  <1>3. Head(stream \o reply) = stream[1]
    <2>1. 1 \in 1..Len(stream) + Len(reply) /\ 1 <= Len(stream)
      BY <1>1
    <2>2. Head(stream \o reply) = (stream \o reply)[1]
      BY <1>1, <1>2
    <2> QED
      BY <1>2, <2>1, <2>2
  <1>4. Tail(stream \o reply) = Tail(stream) \o reply
    OBVIOUS
  <1> QED
    BY <1>1, <1>3, <1>4 DEF Succeeds, Refuses, Replies

LEMMA InitSound == Init => StepInv
  <1> SUFFICES ASSUME Init PROVE StepInv
    OBVIOUS
  <1>1. InStep
    BY DEF Init, InStep, NoStatus, OwnLines
  <1>2. Prompt(late)
    BY DEF Init, Prompt
  <1> QED
    BY <1>1, <1>2, InitTypes DEF Init, StepInv, Sound

\* A body is about to be read.
LEMMA ReadsAll ==
    ASSUME NEW s \in Seq(Tokens), file' = << >>,
           stream' = s \/ (~up' /\ stream' = << >>)
    PROVE  Reads(s)'
  BY DEF Reads

LEMMA RetrSound == StepInv /\ Retr => Sound'
  <1> SUFFICES ASSUME StepInv, Retr PROVE Sound'
    OBVIOUS
  <1>1. /\ TypeOK /\ Sound /\ pc = "retr" /\ stream \in Seq(Tokens) /\ up \in BOOLEAN
        /\ UNCHANGED <<up, late, excused>> /\ file' = << >>
    BY DEF StepInv, TypeInv, TypeOK, Retr
  <1>2. PICK m \in todo :
          /\ last' = m /\ todo' = todo \ {m}
          /\ \/ Succeeds(Message(m)) /\ pc' = "body"
             \/ Refuses(Message(m)) /\ pc' = "quit"
             \/ Silent(Message(m)) /\ pc' = "quit"
             \/ Succeeds(<<Err>>) /\ pc' = "body"
             \/ Refuses(<<Err>>) /\ pc' = "quit"
    BY DEF Retr
  <1>3. m \in Msgs /\ Err \in Tokens /\ <<Err>> \in Seq(Tokens)
    BY <1>1, <1>2, TokenTypes DEF TypeOK
  <1>4. /\ Message(m) \in Seq(Tokens) /\ Len(Message(m)) = NumLines + 2
        /\ Message(m)[1] = Ok /\ Tail(Message(m)) \in Seq(Tokens)
        /\ Head(Message(m)) = Ok /\ Message(m) # << >>
    BY <1>3, MessageType
  <1>5. CASE ~Prompt(late)
    BY <1>1, <1>2, <1>5 DEF Sound, Prompt
  <1>6. CASE Prompt(late) /\ pc' = "quit"
    BY <1>1, <1>2, <1>6 DEF Sound, Prompt, InStep, OwnLines
  <1>7. CASE Prompt(late) /\ pc' = "body"
    <2>1. PICK r \in {Message(m), <<Err>>} : Succeeds(r)
      BY <1>2, <1>7
    <2>2. r \in Seq(Tokens)
      BY <1>3, <1>4, <2>1
    <2>3. CASE stream = << >>
      <3>1. up /\ r = Message(m) /\ stream' = Tail(Message(m))
        <4>1. CASE r = <<Err>>
          BY <1>3, <2>1, <2>3, <4>1, OneReply, StatusLines
        <4>2. CASE r = Message(m)
          <5>1. << >> \o Message(m) = Message(m)
            BY <1>4
          <5> QED
            BY <2>1, <2>3, <4>2, <5>1 DEF Succeeds, Replies
        <4> QED
          BY <2>1, <4>1, <4>2
      <3>2. Reads(Tail(Message(m)))'
        BY <1>1, <1>4, <3>1, ReadsAll
      <3>3. Tail(Message(m)) \in Sent'
        BY <1>2 DEF Sent
      <3>4. (\E s \in Sent : Reads(s))'
        BY <3>2, <3>3
      <3> QED
        BY <1>1, <1>2, <1>7, <3>4 DEF Sound, Prompt, InStep, OwnLines
    <2>4. CASE stream # << >>
      <3>1. late = 1 /\ Lookalikes = {}
        BY <1>1, <1>7, <2>4 DEF Sound, InStep, Prompt
      <3>2. Len(stream) \in Nat \ {0} /\ stream[1] \in Tokens /\ 1 \in DOMAIN stream
        BY <1>1, <2>4
      <3>3. isOK(stream[1])
        BY <1>1, <2>1, <2>2, <2>4, StaleReply
      <3>4. stream[1] = Ok /\ Len(stream) = 1
        <4>1. stream[1] = Ok
          BY <3>1, <3>2, <3>3, StatusLines
        <4> QED
          BY <1>1, <1>7, <3>2, <4>1 DEF Sound, InStep
      <3>5. Tail(stream) = << >>
        BY <1>1, <3>4, TailOfOne
      <3>6. << >> \o r = r
        BY <2>2
      <3>7. stream' = r \/ (~up' /\ stream' = << >>)
        BY <1>1, <2>1, <2>2, <2>4, <3>5, <3>6, StaleReply
      <3>8. Reads(r)'
        BY <1>1, <2>2, <3>7, ReadsAll
      <3>9. r \in Sent'
        BY <1>1, <1>2, <2>1, <3>1 DEF Sent
      <3>10. (\E s \in Sent : Reads(s))'
        BY <3>8, <3>9
      <3>11. late' # 0 /\ Prompt(late')
        BY <1>1, <1>7, <3>1
      <3> QED
        BY <1>1, <1>2, <1>7, <3>10, <3>11 DEF Sound, InStep, OwnLines
    <2> QED
      BY <2>3, <2>4
  <1> QED
    BY <1>2, <1>5, <1>6, <1>7

\* Where the client is in the body it reads.
LEMMA BodyFacts ==
    ASSUME StepInv, pc = "body", Prompt(late)
    PROVE  /\ file \in Seq(Tokens) /\ stream \in Seq(Tokens) /\ last \in Msgs
           /\ \E s \in Sent : Reads(s)
           /\ \A j \in DOMAIN file : file[j] \in Msgs \X (1..NumLines) => file[j][1] = last
           /\ late = 0 => NoStatus(stream)
  <1>1. /\ file \in Seq(Tokens) /\ stream \in Seq(Tokens) /\ last \in Msgs
    BY DEF StepInv, TypeInv, TypeOK, SessionOK, Holding
  <1>2. PICK s \in Sent : Reads(s)
    BY DEF StepInv, Sound, InStep
  <1>3. /\ s \in Seq(Tokens)
        /\ \A i \in 1..Len(s) : s[i] \in Msgs \X (1..NumLines) => s[i][1] = last
        /\ late = 0 => NoStatus(s)
    BY <1>1, SentFacts
  <1>4. /\ Len(file) \in Nat /\ Len(stream) \in Nat /\ Len(s) \in Nat
        /\ DOMAIN file = 1..Len(file) /\ DOMAIN stream = 1..Len(stream) /\ DOMAIN s = 1..Len(s)
    BY <1>1, <1>3
  <1>5. Len(file) + Len(stream) <= Len(s)
    BY <1>2 DEF Reads
  <1>6. ASSUME NEW j \in DOMAIN file, file[j] \in Msgs \X (1..NumLines) PROVE file[j][1] = last
    <2>1. j \in 1..Len(s)
      BY <1>4, <1>5
    <2>2. file[j] = s[j]
      BY <1>2 DEF Reads
    <2> QED
      BY <1>3, <1>6, <2>1, <2>2
  <1>7. ASSUME late = 0, NEW i \in DOMAIN stream PROVE stream[i] # Ok
    <2>1. Len(file) + i \in 1..Len(s)
      BY <1>4, <1>5
    <2>2. stream[i] = s[Len(file) + i]
      BY <1>2 DEF Reads
    <2> QED
      BY <1>3, <1>4, <1>7, <2>1, <2>2 DEF NoStatus
  <1> QED
    BY <1>1, <1>2, <1>6, <1>7 DEF NoStatus

\* The dot is the last line of the body, and all of the message came before it.
LEMMA DotEnds ==
    ASSUME StepInv, pc = "body", Prompt(late), stream # << >>, Head(stream) = Dot
    PROVE  Tail(stream) = << >> /\ Whole(last)
  <1>1. /\ file \in Seq(Tokens) /\ stream \in Seq(Tokens) /\ last \in Msgs
    BY BodyFacts
  <1>2. PICK s \in Sent : Reads(s)
    BY BodyFacts
  <1>3. /\ s \in Seq(Tokens)
        /\ \A i \in 1..Len(s) : s[i] = Dot => i = Len(s)
        /\ s[Len(s)] = Dot => \A n \in 1..NumLines : \E j \in 1..Len(s) - 1 : s[j] = Line(last, n)
    BY <1>1, SentFacts
  <1>4. /\ Len(file) \in Nat /\ Len(stream) \in Nat \ {0} /\ Len(s) \in Nat
        /\ DOMAIN file = 1..Len(file) /\ DOMAIN stream = 1..Len(stream)
        /\ Head(stream) = stream[1] /\ 1 \in DOMAIN stream
    BY <1>1, <1>3
  <1>5. Len(file) + Len(stream) <= Len(s)
    BY <1>2 DEF Reads
  <1>6. stream[1] = s[Len(file) + 1]
    BY <1>2, <1>4 DEF Reads
  <1>7. Len(file) + 1 = Len(s) /\ s[Len(s)] = Dot
    <2>1. Len(file) + 1 \in 1..Len(s)
      BY <1>4, <1>5
    <2> QED
      BY <1>3, <1>4, <1>6, <2>1
  <1>8. Len(stream) = 1
    BY <1>4, <1>5, <1>7
  <1>9. Tail(stream) = << >>
    BY <1>1, <1>8, TailOfOne
  <1>10. ASSUME NEW n \in 1..NumLines PROVE \E j \in DOMAIN file : file[j] = Line(last, n)
    <2>1. PICK j \in 1..Len(s) - 1 : s[j] = Line(last, n)
      BY <1>3, <1>7
    <2>2. j \in DOMAIN file
      BY <1>4, <1>7
    <2>3. file[j] = s[j]
      BY <1>2, <2>2 DEF Reads
    <2> QED
      BY <2>1, <2>2, <2>3
  <1> QED
    BY <1>9, <1>10 DEF Whole

\* A line of the body goes from the stream to the file.
LEMMA LineMoves ==
    ASSUME StepInv, pc = "body", Prompt(late), stream # << >>, Head(stream) # Dot,
           stream' = Tail(stream), file' = Append(file, Head(stream)),
           UNCHANGED <<up, late, last>>
    PROVE  (\E s \in Sent : Reads(s))'
  <1>1. /\ file \in Seq(Tokens) /\ stream \in Seq(Tokens) /\ last \in Msgs
    BY BodyFacts
  <1>2. PICK s \in Sent : Reads(s)
    BY BodyFacts
  <1>3. s \in Seq(Tokens) /\ s \in Sent'
    BY <1>1, SentFacts DEF Sent
  <1>4. /\ Len(file) \in Nat /\ Len(stream) \in Nat \ {0} /\ Len(s) \in Nat
        /\ DOMAIN file = 1..Len(file) /\ DOMAIN stream = 1..Len(stream)
        /\ Head(stream) = stream[1] /\ 1 \in DOMAIN stream /\ Head(stream) \in Tokens
    BY <1>1, <1>3
  <1>5. /\ Len(file) + Len(stream) <= Len(s)
        /\ up => Len(file) + Len(stream) = Len(s)
    BY <1>2 DEF Reads
  <1>6. stream[1] = s[Len(file) + 1]
    BY <1>2, <1>4 DEF Reads
  <1>7. /\ Len(file') = Len(file) + 1 /\ DOMAIN file' = 1..Len(file) + 1
        /\ \A i \in 1..Len(file) : file'[i] = file[i]
        /\ file'[Len(file) + 1] = Head(stream)
    BY <1>1, <1>4
  <1>8. /\ Len(stream') = Len(stream) - 1 /\ DOMAIN stream' = 1..Len(stream) - 1
        /\ \A i \in 1..Len(stream) - 1 : stream'[i] = stream[i + 1]
    BY <1>1, <1>4
  <1>9. ASSUME NEW i \in DOMAIN file' PROVE file'[i] = s[i] /\ s[i] # Dot
    <2>1. CASE i \in 1..Len(file)
      BY <1>2, <1>4, <1>7, <2>1 DEF Reads
    <2>2. CASE i = Len(file) + 1
      BY <1>4, <1>6, <1>7, <2>2
    <2> QED
      BY <1>4, <1>7, <2>1, <2>2
  <1>10. ASSUME NEW i \in DOMAIN stream' PROVE stream'[i] = s[Len(file') + i]
    <2>1. i \in 1..Len(stream) - 1 /\ i + 1 \in DOMAIN stream
      BY <1>4, <1>8
    <2>2. stream[i + 1] = s[Len(file) + (i + 1)]
      BY <1>2, <2>1 DEF Reads
    <2>3. Len(file) + (i + 1) = Len(file') + i
      <3>1. i \in Int /\ Len(file) \in Int /\ Len(file') = Len(file) + 1
        BY <1>4, <1>7, <2>1
      <3> QED
        BY <3>1
    <2> QED
      BY <1>8, <2>1, <2>2, <2>3
  <1>11. Len(file') + Len(stream') = Len(file) + Len(stream)
    BY <1>4, <1>7, <1>8
  <1>12. Reads(s)'
    BY <1>5, <1>9, <1>10, <1>11 DEF Reads
  <1> QED
    BY <1>3, <1>12

LEMMA ReadLineSound == StepInv /\ ReadLine => Sound'
  <1> SUFFICES ASSUME StepInv, ReadLine PROVE Sound'
    OBVIOUS
  <1>1. /\ pc = "body" /\ Sound /\ TypeOK /\ last \in Msgs /\ late \in Nat
        /\ UNCHANGED <<up, todo, last>>
    BY DEF StepInv, TypeInv, TypeOK, SessionOK, Holding, ReadLine, server
  <1>2. Prompt(late) =>
          \A j \in DOMAIN file : file[j] \in Msgs \X (1..NumLines) => file[j][1] = last
    BY <1>1, BodyFacts
  <1>3. CASE pc' = "quit" /\ UNCHANGED <<stream, file, late, excused>>
    BY <1>1, <1>3 DEF Sound, Prompt, InStep, OwnLines
  <1>4. CASE stream = << >> /\ ~up /\ pc' = "post" /\ UNCHANGED <<stream, file, late, excused>>
    <2>1. NoStatus(stream')
      BY <1>4 DEF NoStatus
    <2>2. Prompt(late) => OwnLines'
      BY <1>1, <1>2, <1>4 DEF OwnLines
    <2> QED
      BY <1>1, <1>4, <2>1, <2>2 DEF Sound, Prompt, InStep
  <1>5. CASE stream # << >> /\ stream' = Tail(stream) /\ Head(stream) = Dot
             /\ pc' = "post" /\ UNCHANGED <<file, late, excused>>
    <2>1. CASE Prompt(late)
      <3>1. stream' = << >> /\ Whole(last)
        BY <1>1, <1>5, <2>1, DotEnds
      <3>2. Whole(last)'
        BY <1>1, <1>5, <3>1 DEF Whole
      <3>3. NoStatus(stream')
        BY <3>1 DEF NoStatus
      <3>4. OwnLines'
        BY <1>1, <1>2, <1>5, <2>1 DEF OwnLines
      <3> QED
        BY <1>1, <1>5, <2>1, <3>1, <3>2, <3>3, <3>4 DEF Sound, InStep
    <2>2. CASE ~Prompt(late)
      BY <1>1, <1>5, <2>2 DEF Sound
    <2> QED
      BY <2>1, <2>2
  <1>6. CASE stream # << >> /\ stream' = Tail(stream) /\ Head(stream) # Dot
             /\ pc' = "body" /\ file' = Append(file, Head(stream)) /\ UNCHANGED <<late, excused>>
    <2>1. CASE Prompt(late)
      <3>1. (\E s \in Sent : Reads(s))'
        BY <1>1, <1>6, <2>1, LineMoves
      <3>2. InStep'
        BY <1>6, <3>1 DEF InStep, OwnLines
      <3>3. Prompt(late') /\ pc' = "body"
        BY <1>6, <2>1
      <3> QED
        BY <3>2, <3>3 DEF Sound
    <2>2. CASE ~Prompt(late)
      BY <1>1, <1>6, <2>2 DEF Sound
    <2> QED
      BY <2>1, <2>2
  <1>7. CASE /\ up /\ pc' = "post" /\ UNCHANGED file
             /\ IF stream = << >> THEN UNCHANGED <<faults, late>> ELSE TimeOut
             /\ stream' \in Late(stream)
             /\ excused' = excused \cup (IF Whole(last) THEN {} ELSE {last}) \cup Astray(late')
    <2>1. Whole(last)' \/ last' \in excused'
      BY <1>1, <1>7 DEF Whole
    <2>2. ~Prompt(late') => todo' \subseteq excused'
      BY <1>1, <1>7 DEF Astray
    <2>3. CASE Prompt(late')
      <3>1. Prompt(late) /\ (stream # << >> => late = 0)
        BY <1>1, <1>7, <2>3 DEF Prompt, TimeOut
      <3>2. OwnLines'
        BY <1>1, <1>2, <1>7, <3>1 DEF OwnLines
      <3>3. stream = << >> => stream' = << >>
        BY <1>7 DEF Late
      <3>4. late' = 0 => stream' = << >>
        BY <1>1, <1>7, <3>3 DEF TimeOut
      <3>5. NoStatus(stream')
        <4>1. CASE stream = << >>
          BY <3>3, <4>1 DEF NoStatus
        <4>2. CASE stream # << >>
          <5>1. NoStatus(stream) /\ stream \in Seq(Tokens)
            BY <1>1, <3>1, <4>2, BodyFacts
          <5> QED
            BY <1>7, <5>1, LateLines
        <4> QED
          BY <4>1, <4>2
      <3>6. InStep'
        BY <1>7, <3>2, <3>4, <3>5 DEF InStep
      <3> QED
        BY <1>7, <2>1, <2>3, <3>6 DEF Sound
    <2>4. CASE ~Prompt(late')
      BY <1>7, <2>1, <2>2, <2>4 DEF Sound
    <2> QED
      BY <2>3, <2>4
  <1> QED
    BY <1>3, <1>4, <1>5, <1>6, <1>7 DEF ReadLine

LEMMA ForgetSound == Forget => Sound'
  <1> SUFFICES ASSUME Forget PROVE Sound'
    OBVIOUS
  <1>1. /\ pc' = "idle" /\ late' = 0 /\ stream' = << >>
    BY DEF Forget
  <1>2. Prompt(late')
    BY <1>1 DEF Prompt
  <1> QED
    BY <1>1, <1>2 DEF Sound, InStep, OwnLines, NoStatus

LEMMA PostSound == StepInv /\ Post => Sound'
  <1> SUFFICES ASSUME StepInv, Post PROVE Sound'
    OBVIOUS
  <1>1. /\ TypeInv /\ Sound /\ pc = "post" /\ pc' = "clean"
        /\ UNCHANGED <<up, late, stream, todo, last, file>>
    BY DEF StepInv, Post
  <1>2. excused \subseteq excused'
    BY <1>1, PostOutcomes
  <1>3. Whole(last) => Whole(last)'
    BY <1>1 DEF Whole
  <1>4. Prompt(late) => InStep'
    BY <1>1 DEF Sound, InStep, OwnLines
  <1> QED
    BY <1>1, <1>2, <1>3, <1>4 DEF Sound

LEMMA CleanSound == StepInv /\ Clean => Sound'
  <1> SUFFICES ASSUME StepInv, Clean PROVE Sound'
    OBVIOUS
  <1>1. /\ Sound /\ pc = "clean" /\ pc' \in {"dele", "retr"}
        /\ UNCHANGED <<up, late, stream, todo, last, excused>>
    BY DEF StepInv, Clean
  <1>2. Prompt(late) => InStep'
    BY <1>1 DEF Sound, InStep, OwnLines, NoStatus
  <1> QED
    BY <1>1, <1>2 DEF Sound

\* The reply to DELE, or a line in its place.
LEMMA DeleSound == StepInv /\ Dele => Sound'
  <1> SUFFICES ASSUME StepInv, Dele PROVE Sound'
    OBVIOUS
  <1>1. /\ TypeOK /\ Sound /\ pc = "dele" /\ pc' = "retr" /\ late \in Nat
        /\ stream \in Seq(Tokens) /\ up \in BOOLEAN /\ UNCHANGED <<up, todo, last>>
    BY DEF StepInv, TypeInv, TypeOK, Dele
  <1>2. Ok \in Tokens /\ Err \in Tokens /\ <<Ok>> \in Seq(Tokens) /\ <<Err>> \in Seq(Tokens)
    BY TokenTypes
  <1>3. ~Prompt(late') => todo' \subseteq excused'
    <2>1. CASE UNCHANGED <<late, excused>>
      BY <1>1, <2>1 DEF Sound
    <2>2. CASE excused' = excused \cup Astray(late')
      BY <1>1, <2>2 DEF Astray
    <2> QED
      BY <2>1, <2>2 DEF Dele
  <1>4. ASSUME NEW l \in {Ok, Err}, Succeeds(<<l>>) \/ Refuses(<<l>>), UNCHANGED late,
               Prompt(late)
        PROVE  /\ late' = 0 => stream' = << >>
               /\ \A i \in DOMAIN stream' : stream'[i] = Ok => i = Len(stream')
    <2>1. CASE stream = << >>
      <3>1. stream' = << >>
        BY <1>2, <1>4, <2>1, OneReply
      <3> QED
        BY <3>1
    <2>2. CASE stream # << >>
      <3>1. late # 0 /\ NoStatus(stream)
        BY <1>1, <1>4, <2>2 DEF Sound, InStep
      <3>2. <<l>> \in Seq(Tokens) /\ Len(<<l>>) = 1
        BY <1>2
      <3>3. stream' = IF up THEN Tail(stream) \o <<l>> ELSE Tail(stream)
        BY <1>1, <1>4, <2>2, <3>2, StaleReply
      <3>4. /\ Tail(stream) \in Seq(Tokens) /\ Len(Tail(stream)) = Len(stream) - 1
            /\ \A i \in 1..Len(stream) - 1 : Tail(stream)[i] = stream[i + 1]
            /\ Len(stream) \in Nat \ {0}
        BY <1>1, <2>2
      <3>5. ASSUME NEW i \in 1..Len(stream) - 1 PROVE Tail(stream)[i] # Ok
        <4>1. i + 1 \in DOMAIN stream
          BY <3>4
        <4> QED
          BY <3>1, <3>4, <4>1 DEF NoStatus
      <3>6. CASE up
        <4>1. /\ Len(stream') = Len(stream) /\ stream' \in Seq(Tokens)
              /\ \A i \in 1..Len(stream) :
                    stream'[i] = IF i <= Len(stream) - 1 THEN Tail(stream)[i]
                                 ELSE <<l>>[i - (Len(stream) - 1)]
          <5>1. stream' = Tail(stream) \o <<l>>
            BY <3>3, <3>6
          <5>2. /\ stream' \in Seq(Tokens)
                /\ Len(stream') = Len(Tail(stream)) + Len(<<l>>)
                /\ \A i \in 1..Len(Tail(stream)) + Len(<<l>>) :
                      stream'[i] = IF i <= Len(Tail(stream)) THEN Tail(stream)[i]
                                   ELSE <<l>>[i - Len(Tail(stream))]
            BY <3>2, <3>4, <5>1, ConcatProperties
          <5>3. Len(Tail(stream)) + Len(<<l>>) = Len(stream)
            BY <3>2, <3>4
          <5> QED
            BY <3>4, <5>2, <5>3
        <4>2. ASSUME NEW i \in 1..Len(stream), stream'[i] = Ok PROVE i = Len(stream)
          <5>1. CASE i <= Len(stream) - 1
            <6>1. i \in 1..Len(stream) - 1
              BY <3>4, <5>1
            <6>2. stream'[i] = Tail(stream)[i]
              BY <4>1, <5>1
            <6> QED
              BY <3>5, <4>2, <6>1, <6>2
          <5>2. Len(stream) \in Nat \ {0} /\ i \in Nat /\ i <= Len(stream)
            BY <3>4
          <5>3. CASE ~(i <= Len(stream) - 1)
            BY <5>2, <5>3
          <5> QED
            BY <5>1, <5>3
        <4>3. DOMAIN stream' = 1..Len(stream)
          BY <4>1
        <4> QED
          BY <1>4, <3>1, <4>1, <4>2, <4>3
      <3>7. CASE ~up
        <4>1. stream' = Tail(stream) /\ DOMAIN stream' = 1..Len(stream) - 1
          BY <3>3, <3>4, <3>7
        <4> QED
          BY <1>4, <3>1, <3>5, <4>1
      <3> QED
        BY <1>1, <3>6, <3>7
    <2> QED
      BY <2>1, <2>2
  <1>5. ASSUME up, late' = late + 1, stream' \in Late(Replies(<<Ok>>)), Prompt(late')
        PROVE  /\ late' = 0 => stream' = << >>
               /\ \A i \in DOMAIN stream' : stream'[i] = Ok => i = Len(stream')
    <2>1. late = 0 /\ Prompt(late)
      BY <1>1, <1>5 DEF Prompt
    <2>2. stream = << >>
      BY <1>1, <2>1 DEF Sound, InStep
    <2>3. << >> \o <<Ok>> = <<Ok>> /\ <<Err>> \o Tail(<<Ok>>) = <<Err>>
      OBVIOUS
    <2>4. stream' \in {<<Ok>>, <<Err>>}
      BY <1>5, <2>2, <2>3 DEF Replies, Late
    <2>5. Len(stream') = 1 /\ DOMAIN stream' = {1}
      BY <2>4
    <2> QED
      BY <1>5, <2>1, <2>5
  <1>6. ASSUME ~up, UNCHANGED <<stream, late>>, Prompt(late)
        PROVE  /\ late' = 0 => stream' = << >>
               /\ \A i \in DOMAIN stream' : stream'[i] = Ok => i = Len(stream')
    BY <1>1, <1>6 DEF Sound, InStep, NoStatus
  <1>7. Prompt(late') => /\ late' = 0 => stream' = << >>
                         /\ \A i \in DOMAIN stream' : stream'[i] = Ok => i = Len(stream')
    BY <1>1, <1>4, <1>5, <1>6 DEF Dele, Silent
  <1>8. Prompt(late') => InStep'
    BY <1>1, <1>7 DEF InStep, OwnLines
  <1> QED
    BY <1>1, <1>3, <1>8 DEF Sound

LEMMA DropSound == StepInv /\ Drop => Sound'
  <1> SUFFICES ASSUME StepInv, Drop PROVE Sound'
    OBVIOUS
  <1>1. /\ file \in Seq(Tokens) /\ stream \in Seq(Tokens) /\ Sound /\ pc # "idle"
        /\ up' = FALSE /\ UNCHANGED <<pc, file, last, late, todo, excused>>
    BY DEF StepInv, TypeInv, TypeOK, SessionOK, Drop
  <1>2. PICK n \in 0..Len(stream) : stream' = SubSeq(stream, 1, n)
    BY DEF Drop
  <1>3. /\ stream' \in Seq(Tokens) /\ Len(stream') = n /\ DOMAIN stream' = 1..n
        /\ \A i \in 1..n : stream'[i] = stream[i]
    BY <1>1, <1>2, SubSeqProperties
  <1>4. Len(stream) \in Nat /\ DOMAIN stream = 1..Len(stream) /\ 1..n \subseteq 1..Len(stream)
    BY <1>1, <1>2
  <1>5. stream = << >> => stream' = << >>
    BY <1>1, <1>2, <1>3
  <1>6. NoStatus(stream) => NoStatus(stream')
    BY <1>3, <1>4 DEF NoStatus
  <1>7. ASSUME \A i \in DOMAIN stream : stream[i] = Ok => i = Len(stream)
        PROVE  \A i \in DOMAIN stream' : stream'[i] = Ok => i = Len(stream')
    <2>1. ASSUME NEW i \in 1..n, stream'[i] = Ok PROVE i = n
      <3>1. i \in DOMAIN stream /\ stream[i] = Ok
        BY <1>3, <1>4, <2>1
      <3>2. i = Len(stream)
        BY <1>7, <3>1
      <3>3. n \in Nat /\ n <= Len(stream) /\ i <= n /\ i \in Nat /\ Len(stream) \in Nat
        BY <1>2, <1>4
      <3> QED
        BY <3>2, <3>3
    <2> QED
      BY <1>3, <2>1
  <1>8. ASSUME NEW s \in Sent, Reads(s) PROVE (\E t \in Sent : Reads(t))'
    <2>1. s \in Sent'
      BY <1>1 DEF Sent
    <2>2. \A i \in DOMAIN stream' : stream'[i] = s[Len(file) + i]
      BY <1>3, <1>4, <1>8 DEF Reads
    <2>3. Len(file) \in Nat /\ Len(s) \in Int => Len(file) + n <= Len(s)
      BY <1>2, <1>4, <1>8 DEF Reads
    <2>4. Len(file) \in Nat /\ Len(s) \in Int
      <3>1. CASE pc = "body"
        BY <1>1, <3>1, SentFacts DEF StepInv, TypeInv, TypeOK, SessionOK, Holding
      <3>2. last \in Msgs => Len(s) \in Int
        BY SentFacts
      <3> QED
        BY <1>1, <3>1, <3>2
    <2>5. Reads(s)'
      BY <1>1, <1>3, <1>8, <2>2, <2>3, <2>4 DEF Reads
    <2> QED
      BY <2>1, <2>5
  <1>9. InStep => InStep'
    BY <1>1, <1>5, <1>6, <1>7, <1>8 DEF InStep, OwnLines
  <1> QED
    BY <1>1, <1>9 DEF Sound

LEMMA OtherSound == StepInv /\ (Open \/ NoMore \/ Arrive \/ UNCHANGED vars) => Sound'
  <1> SUFFICES ASSUME StepInv, Open \/ NoMore \/ Arrive \/ UNCHANGED vars PROVE Sound'
    OBVIOUS
  <1>1. CASE Open
    <2>1. /\ pc' \in {"idle", "retr"} /\ late' = 0 /\ stream' = << >>
      BY <1>1 DEF Open, StepInv, Sound
    <2>2. Prompt(late') /\ InStep'
      BY <2>1 DEF Prompt, InStep, OwnLines, NoStatus
    <2> QED
      BY <2>1, <2>2 DEF Sound
  <1>2. CASE NoMore
    <2>1. pc' = "quit" /\ UNCHANGED <<late, todo, excused>>
      BY <1>2 DEF NoMore
    <2>2. InStep'
      BY <2>1 DEF InStep, OwnLines
    <2> QED
      BY <2>1, <2>2 DEF StepInv, Sound
  <1>3. CASE UNCHANGED <<stream, pc, up, file, last, late, todo, excused>>
    <2>1. InStep => InStep'
      <3>1. \A s : Reads(s) => Reads(s)'
        BY <1>3 DEF Reads
      <3>2. Sent' = Sent
        BY <1>3 DEF Sent
      <3> QED
        BY <1>3, <3>1, <3>2 DEF InStep, OwnLines
    <2>2. Whole(last) => Whole(last)'
      BY <1>3 DEF Whole
    <2> QED
      BY <1>3, <2>1, <2>2 DEF StepInv, Sound
  <1> QED
    BY <1>1, <1>2, <1>3 DEF Arrive, vars

LEMMA StepInvNext == StepInv /\ [Next]_vars => StepInv'
  <1> SUFFICES ASSUME StepInv, [Next]_vars PROVE StepInv'
    OBVIOUS
  <1>1. TypeInv'
    BY OpenTypes, RetrTypes, NoMoreTypes, ReadLineTypes, PostTypes, CleanTypes,
       DeleTypes, QuitTypes, CrashTypes, DropTypes, ArriveTypes, StutterTypes
       DEF StepInv, Next, Step
  <1>2. Sound'
    BY RetrSound, ReadLineSound, PostSound, CleanSound, DeleSound, DropSound,
       OtherSound, ForgetSound DEF Next, Step, Quit, Crash
  <1> QED
    BY <1>1, <1>2 DEF StepInv

\* What is posted for a message are lines of this message, whatever fails, as
\* long as the session has gone on after one timeout at most, and after none
\* where lines of messages look like replies.
THEOREM PopPromptLines == Spec => []PromptLines
  <1>1. StepInv => PromptLines
    BY DEF StepInv, Sound, InStep, PromptLines
  <1> QED
    BY InitSound, StepInvNext, <1>1, PTL DEF Spec

\* No read times out.
Timely == "timeout" \notin Faults

\* In particular, as long as no read times out, whatever the lines look like.
THEOREM PopOwnLines == ASSUME Timely PROVE Spec => []OwnLines
  <1>1. Init => late = 0
    BY DEF Init
  <1>2. late = 0 /\ [Next]_vars => (late = 0)'
    <2> SUFFICES ASSUME late = 0, [Next]_vars PROVE late' = 0
      OBVIOUS
    <2>1. ~TimeOut
      BY DEF TimeOut, Fault, Timely
    <2>2. CASE Dele
      BY <2>2 DEF Dele, Silent, Fault, Timely
    <2>3. CASE ReadLine
      BY <2>1, <2>3 DEF ReadLine
    <2>4. CASE Open \/ Retr \/ NoMore \/ Post \/ Clean \/ Quit \/ Crash \/ Drop \/ Arrive
      BY <2>4 DEF Open, Retr, NoMore, Post, Clean, Quit, Crash, Drop, Arrive, Forget
    <2> QED
      BY <2>2, <2>3, <2>4 DEF Next, Step, vars
  <1>3. PromptLines /\ late = 0 => OwnLines
    BY DEF PromptLines, Prompt
  <1> QED
    BY PopPromptLines, <1>1, <1>2, <1>3, PTL DEF Spec

(***************************************************************************)
(* No message is lost                                                      *)
(***************************************************************************)

Safe(m) == accepted[m] > 0 \/ m \in kept \/ m \in excused

\* superclean under max_pop3_delete throws refused messages away by intent.
Careful == ~(SuperClean /\ MaxDelete)

\* A message that the end of the session removes is safe.
SafeGone ==
    /\ NoLoss
    /\ \A m \in marked : Safe(m)
    /\ pc = "dele" /\ up => Safe(last)
    /\ pc = "clean" /\ up /\ delivered => Safe(last)

SafeInv == StepInv /\ SafeGone

\* What is safe stays safe.
LEMMA SafeStays ==
    ASSUME TypeInv, UNCHANGED accepted \/ Post, kept \subseteq kept', excused \subseteq excused',
           NEW m \in Msgs, Safe(m)
    PROVE  Safe(m)'
  <1>1. accepted[m] \in Nat /\ accepted'[m] \in Nat /\ accepted'[m] >= accepted[m]
    <2>1. accepted[m] \in Nat
      BY DEF TypeInv, TypeOK
    <2> QED
      BY <2>1, PostOutcomes
  <1> QED
    BY <1>1 DEF Safe

LEMMA PostSafe == SafeInv /\ Post => SafeGone'
  <1> SUFFICES ASSUME SafeInv, Post PROVE SafeGone'
    OBVIOUS
  <1>1. /\ TypeInv /\ TypeOK /\ Sound /\ SafeGone /\ pc = "post" /\ pc' = "clean"
        /\ UNCHANGED <<box, arrived, marked, kept, up, last, file>>
    BY DEF SafeInv, StepInv, TypeInv, Post, server
  <1>2. excused \subseteq excused' /\ last \in Msgs
        /\ (delivered' /\ Whole(last) => accepted'[last] > 0 \/ last \in excused')
    BY <1>1, PostOutcomes
  <1>3. \A m \in Msgs : Safe(m) => Safe(m)'
    BY <1>1, <1>2, SafeStays
  <1>4. up => Whole(last) \/ last \in excused
    BY <1>1 DEF Sound
  <1>5. up /\ delivered' => Safe(last)'
    BY <1>1, <1>2, <1>4 DEF Safe
  <1>6. 1..arrived \subseteq Msgs /\ marked \subseteq Msgs
    BY <1>1 DEF TypeOK
  <1>7. NoLoss'
    BY <1>1, <1>3, <1>6 DEF SafeGone, NoLoss, Safe
  <1> QED
    BY <1>1, <1>3, <1>5, <1>6, <1>7 DEF SafeGone

LEMMA CleanSafe == Careful /\ SafeInv /\ Clean => SafeGone'
  <1> SUFFICES ASSUME Careful, SafeInv, Clean PROVE SafeGone'
    OBVIOUS
  <1>1. /\ TypeInv /\ TypeOK /\ Sound /\ SafeGone /\ pc = "clean"
        /\ UNCHANGED <<box, arrived, marked, accepted, excused, up, last, delivered>>
        /\ kept' = IF LeavesFile THEN kept \cup {last} ELSE kept
        /\ pc' = IF Deletes THEN "dele" ELSE "retr"
    BY DEF SafeInv, StepInv, TypeInv, Clean, server
  <1>3. \A m \in Msgs : Safe(m) => Safe(m)'
    BY <1>1 DEF Safe
  <1>4. up => Whole(last) \/ last \in excused
    BY <1>1 DEF Sound
  <1>5. Deletes /\ up => Safe(last)'
    <2>1. CASE delivered
      BY <1>1, <2>1 DEF SafeGone, Safe
    <2>2. CASE ~delivered
      BY <1>1, <1>4, <2>2 DEF Deletes, LeavesFile, Careful, Safe
    <2> QED
      BY <2>1, <2>2
  <1>6. 1..arrived \subseteq Msgs /\ marked \subseteq Msgs
    BY <1>1 DEF TypeOK
  <1>7. NoLoss'
    BY <1>1, <1>3, <1>6 DEF SafeGone, NoLoss, Safe
  <1> QED
    BY <1>1, <1>3, <1>5, <1>6, <1>7 DEF SafeGone

\* A step that changes neither what is kept, taken and excused nor the mailbox.
LEMMA QuietSafe ==
    ASSUME SafeInv, UNCHANGED <<accepted, kept, box, arrived>>, excused \subseteq excused',
           marked' \subseteq marked \cup (IF pc = "dele" /\ up THEN {last} ELSE {}),
           pc' \notin {"dele", "clean"} \/ (~up' /\ marked' = {})
    PROVE  SafeGone'
  <1>1. \A m \in Msgs : Safe(m) => Safe(m)'
    BY DEF Safe
  <1>2. 1..arrived \subseteq Msgs /\ marked \subseteq Msgs
    BY DEF SafeInv, StepInv, TypeInv, TypeOK
  <1>3. pc = "dele" => last \in Msgs
    BY DEF SafeInv, StepInv, TypeInv, TypeOK, SessionOK, Holding
  <1>4. NoLoss'
    BY <1>1, <1>2 DEF SafeInv, SafeGone, NoLoss, Safe
  <1>5. \A m \in marked' : Safe(m)'
    BY <1>1, <1>2, <1>3 DEF SafeInv, SafeGone
  <1> QED
    BY <1>4, <1>5 DEF SafeGone

LEMMA QuitSafe == SafeInv /\ Quit => SafeGone'
  <1> SUFFICES ASSUME SafeInv, Quit PROVE SafeGone'
    OBVIOUS
  <1>1. /\ SafeGone /\ box' = (IF up THEN box \ marked ELSE box)
        /\ pc' = "idle" /\ marked' = {}
        /\ UNCHANGED <<arrived, accepted, kept, excused>>
    BY DEF SafeInv, Quit, Forget
  <1>2. NoLoss'
    BY <1>1 DEF SafeGone, NoLoss, Safe
  <1> QED
    BY <1>1, <1>2 DEF SafeGone

LEMMA CrashSafe == SafeInv /\ Crash => SafeGone'
  <1> SUFFICES ASSUME SafeInv, Crash PROVE SafeGone'
    OBVIOUS
  <1>1. /\ SafeGone /\ kept \subseteq kept' /\ pc' = "idle" /\ marked' = {}
        /\ UNCHANGED <<box, arrived, accepted, excused>>
    BY DEF SafeInv, Crash, Forget
  <1>2. NoLoss'
    BY <1>1 DEF SafeGone, NoLoss
  <1> QED
    BY <1>1, <1>2 DEF SafeGone

LEMMA ArriveSafe == SafeInv /\ Arrive => SafeGone'
  <1> SUFFICES ASSUME SafeInv, Arrive PROVE SafeGone'
    OBVIOUS
  <1>1. /\ SafeGone /\ arrived \in Nat /\ arrived' = arrived + 1
        /\ box' = box \cup {arrived + 1}
        /\ UNCHANGED <<marked, accepted, kept, excused, pc, up, last, delivered>>
    BY DEF SafeInv, StepInv, TypeInv, TypeOK, Arrive
  <1>2. (1..arrived') \ box' \subseteq (1..arrived) \ box
    BY <1>1
  <1>3. NoLoss'
    BY <1>1, <1>2 DEF SafeGone, NoLoss
  <1> QED
    BY <1>1, <1>3 DEF SafeGone, Safe

LEMMA StutterSafe == SafeInv /\ UNCHANGED vars => SafeGone'
  BY DEF SafeInv, SafeGone, NoLoss, Safe, vars, server

LEMMA QuietSteps ==
    SafeInv /\ (Open \/ Retr \/ NoMore \/ ReadLine \/ Dele \/ Drop) => SafeGone'
  <1> SUFFICES ASSUME SafeInv, Open \/ Retr \/ NoMore \/ ReadLine \/ Dele \/ Drop
               PROVE  SafeGone'
    OBVIOUS
  <1>1. CASE Open
    BY <1>1, QuietSafe DEF Open, server
  <1>2. CASE Retr
    BY <1>2, QuietSafe DEF Retr, server
  <1>3. CASE NoMore
    BY <1>3, QuietSafe DEF NoMore, server
  <1>4. CASE ReadLine
    BY <1>4, QuietSafe DEF ReadLine, server
  <1>5. CASE Dele
    BY <1>5, QuietSafe DEF Dele
  <1>6. CASE Drop
    BY <1>6, QuietSafe DEF Drop
  <1> QED
    BY <1>1, <1>2, <1>3, <1>4, <1>5, <1>6

LEMMA SafeNext == Careful /\ SafeInv /\ [Next]_vars => SafeInv'
  <1>1. StepInv /\ [Next]_vars => StepInv'
    BY StepInvNext
  <1> QED
    BY <1>1, PostSafe, CleanSafe, QuitSafe, CrashSafe, ArriveSafe, StutterSafe, QuietSteps
       DEF SafeInv, Next, Step

LEMMA InitSafe == Init => SafeInv
  BY InitSound DEF SafeInv, SafeGone, NoLoss, Init

\* No message is lost, whatever fails and times out: what leaves the mailbox was
\* taken by the backend, is in a saved file, or is excused.
THEOREM PopNoLoss == ASSUME Careful PROVE Spec => []NoLoss
  <1>1. SafeInv => NoLoss
    BY DEF SafeInv, SafeGone
  <1> QED
    BY InitSafe, SafeNext, <1>1, PTL DEF Spec

(***************************************************************************)
(* The abstract specification                                              *)
(***************************************************************************)

Files == kept \cup InHand

\* Nothing is saved or feigned of a message that has not arrived.
Known == kept \cup excused \subseteq 1..arrived

LEMMA KnownNext == TypeInv /\ Known /\ [Next]_vars => Known'
  <1> SUFFICES ASSUME TypeInv, Known, [Next]_vars PROVE Known'
    OBVIOUS
  <1>1. pc \in Holding => last \in 1..arrived
    BY DEF TypeInv, SessionOK
  <1>2. arrived \in Nat
    BY DEF TypeInv, TypeOK
  <1>9. Astray(late') \subseteq 1..arrived
    BY DEF TypeInv, TypeOK, SessionOK, Astray
  <1>3. CASE Open \/ Retr \/ NoMore \/ Quit \/ Drop \/ UNCHANGED vars
    BY <1>3 DEF Known, Open, Retr, NoMore, Quit, Drop, Forget, vars, server
  <1>4. CASE ReadLine
    BY <1>1, <1>4, <1>9 DEF Known, ReadLine, Holding, server
  <1>10. CASE Dele
    BY <1>9, <1>10 DEF Known, Dele
  <1>5. CASE Post
    <2>1. excused' \in {excused, excused \cup {last}} /\ last \in 1..arrived
      BY <1>5, PostOutcomes
    <2> QED
      BY <1>5, <2>1 DEF Known, Post, server
  <1>6. CASE Clean
    BY <1>1, <1>6 DEF Known, Clean, Holding, server
  <1>7. CASE Crash
    BY <1>1, <1>7 DEF Known, Crash, Holding
  <1>8. CASE Arrive
    BY <1>2, <1>8 DEF Known, Arrive
  <1> QED
    BY <1>3, <1>4, <1>5, <1>6, <1>7, <1>8, <1>10 DEF Next, Step

Stutter == UNCHANGED M!vars

\* The message in hand, if its file is complete.
LEMMA InHandIs ==
    ASSUME TypeInv
    PROVE  /\ InHand = IF pc \in {"body", "post", "clean"} /\ Whole(last) THEN {last} ELSE {}
           /\ pc \in Holding => last \in Msgs /\ last \in box
  BY DEF TypeInv, TypeOK, SessionOK, Holding, InHand

LEMMA NothingInHand == pc \notin {"body", "post", "clean"} => InHand = {}
  BY DEF InHand

LEMMA EmptyNotWhole == file = << >> => \A m : ~Whole(m)
  BY DEF Whole

LEMMA QuietCustody ==
    ASSUME TypeInv, Open \/ Retr \/ NoMore \/ Drop \/ UNCHANGED vars
    PROVE  Stutter
  <1>1. UNCHANGED <<box, accepted, kept, excused>>
    BY DEF Open, Retr, NoMore, Drop, vars, server
  <1>2. InHand' = InHand
    <2>1. CASE Open \/ NoMore
      BY <2>1, NothingInHand DEF Open, NoMore, InHand
    <2>2. CASE Retr
      <3>1. InHand = {}
        BY <2>2, NothingInHand DEF Retr
      <3>2. \A m : ~Whole(m)'
        BY <2>2 DEF Retr, Whole
      <3> QED
        BY <3>1, <3>2 DEF InHand
    <2>3. CASE Drop \/ UNCHANGED vars
      BY <2>3 DEF Drop, vars, InHand, Whole
    <2> QED
      BY <2>1, <2>2, <2>3
  <1> QED
    BY <1>1, <1>2 DEF Stutter, M!vars

\* What the deletion of the file of the message in hand is.
LEMMA DiscardOne ==
    ASSUME UNCHANGED <<box, accepted, excused>>, NEW m \in Msgs, m \in box,
           Files' \in {Files, Files \ {m}}
    PROVE  M!Next \/ Stutter
  <1>1. CASE Files' = Files
    BY <1>1 DEF Stutter, M!vars, Files
  <1>2. CASE Files' = Files \ {m}
    <2>1. M!Discard(m)
      BY <1>2 DEF M!Discard, Files
    <2> QED
      BY <2>1 DEF M!Next
  <1> QED
    BY <1>1, <1>2

LEMMA CopyOne ==
    ASSUME UNCHANGED <<box, accepted, excused>>, NEW m \in Msgs, m \in box,
           Files' \in {Files, Files \cup {m}}
    PROVE  M!Next \/ Stutter
  <1>1. CASE Files' = Files
    BY <1>1 DEF Stutter, M!vars, Files
  <1>2. CASE Files' = Files \cup {m}
    <2>1. M!Copy(m)
      BY <1>2 DEF M!Copy, M!Somewhere, Files
    <2> QED
      BY <2>1 DEF M!Next
  <1> QED
    BY <1>1, <1>2

LEMMA ExcuseSome ==
    ASSUME UNCHANGED <<box, accepted>>, NEW S \in SUBSET Msgs, S \subseteq box, Files' = Files,
           excused' = excused \cup S
    PROVE  M!Next \/ Stutter
  <1>1. M!Withdraw(S)
    BY DEF M!Withdraw, Files
  <1> QED
    BY <1>1 DEF M!Next

LEMMA ExcuseOne ==
    ASSUME UNCHANGED <<box, accepted>>, NEW m \in Msgs, m \in box, Files' = Files,
           excused' \in {excused, excused \cup {m}}
    PROVE  M!Next \/ Stutter
  <1>1. CASE excused' = excused
    BY <1>1 DEF Stutter, M!vars, Files
  <1>2. CASE excused' = excused \cup {m}
    BY <1>2, ExcuseSome
  <1> QED
    BY <1>1, <1>2

\* The rest of the mailbox counts as withdrawn once replies may be mistaken.
LEMMA DeleCustody ==
    ASSUME TypeInv, Dele
    PROVE  M!Next \/ Stutter
  <1>1. UNCHANGED <<box, accepted, kept>> /\ pc = "dele" /\ pc' = "retr"
    BY DEF Dele
  <1>2. Files' = Files
    BY <1>1, NothingInHand DEF Files, InHand
  <1>3. Astray(late') \in SUBSET Msgs /\ Astray(late') \subseteq box
    BY DEF Astray, TypeInv, TypeOK
  <1>4. CASE excused' = excused \cup Astray(late')
    <2>1. PICK S \in SUBSET Msgs : S = Astray(late')
      BY <1>3
    <2> QED
      BY <1>1, <1>2, <1>3, <1>4, <2>1, ExcuseSome
  <1>5. CASE UNCHANGED excused
    BY <1>1, <1>2, <1>5 DEF Stutter, M!vars, Files
  <1> QED
    BY <1>4, <1>5 DEF Dele

LEMMA ReadLineCustody ==
    ASSUME TypeInv, ReadLine
    PROVE  M!Next \/ Stutter
  <1>1. /\ pc = "body" /\ last \in Msgs /\ last \in box
        /\ InHand = IF Whole(last) THEN {last} ELSE {}
        /\ UNCHANGED <<box, accepted, kept, last>>
    BY InHandIs DEF ReadLine, Holding, server
  <1>2. ASSUME stream # << >>, pc' = "body", file' = Append(file, Head(stream)),
               UNCHANGED excused
        PROVE  M!Next \/ Stutter
    <2>1. Whole(last) => Whole(last)'
      <3>1. file \in Seq(Tokens) /\ Len(file') = Len(file) + 1
            /\ \A i \in 1..Len(file) : file'[i] = file[i]
        BY <1>2 DEF TypeInv, TypeOK
      <3>2. DOMAIN file \subseteq DOMAIN file' /\ \A i \in DOMAIN file : file'[i] = file[i]
        BY <1>2, <3>1
      <3> QED
        BY <1>1, <3>2 DEF Whole
    <2>2. InHand' = IF Whole(last)' THEN {last} ELSE {}
      BY <1>1, <1>2 DEF InHand, Whole
    <2>3. Files' \in {Files, Files \cup {last}}
      BY <1>1, <2>1, <2>2 DEF Files
    <2> QED
      BY <1>1, <1>2, <2>3, CopyOne
  <1>3. ASSUME pc' = "post", UNCHANGED file,
               NEW S \in SUBSET box, excused' = excused \cup S
        PROVE  M!Next \/ Stutter
    <2>1. InHand' = InHand
      BY <1>1, <1>3 DEF InHand, Whole
    <2>2. S \in SUBSET Msgs
      BY DEF TypeInv, TypeOK
    <2>3. Files' = Files
      BY <1>1, <2>1 DEF Files
    <2> QED
      BY <1>1, <1>3, <2>2, <2>3, ExcuseSome
  <1>5. CASE pc' = "post" /\ UNCHANGED <<file, excused>>
    <2>1. excused' = excused \cup {} /\ {} \in SUBSET box
      BY <1>5
    <2> QED
      BY <1>3, <1>5, <2>1
  <1>6. CASE /\ pc' = "post" /\ UNCHANGED file
             /\ excused' = excused \cup (IF Whole(last) THEN {} ELSE {last}) \cup Astray(late')
    <2>1. PICK S : S = (IF Whole(last) THEN {} ELSE {last}) \cup Astray(late')
      OBVIOUS
    <2>2. S \in SUBSET box
      BY <1>1, <2>1 DEF Astray, TypeInv, TypeOK
    <2>3. excused' = excused \cup S
      BY <1>6, <2>1
    <2> QED
      BY <1>3, <1>6, <2>2, <2>3
  <1>4. ASSUME pc' = "quit", UNCHANGED <<file, excused>>
        PROVE  M!Next \/ Stutter
    <2>1. InHand' = {}
      BY <1>4 DEF InHand
    <2>2. Files' \in {Files, Files \ {last}}
      BY <1>1, <2>1 DEF Files
    <2> QED
      BY <1>1, <1>4, <2>2, DiscardOne
  <1> QED
    BY <1>2, <1>4, <1>5, <1>6 DEF ReadLine

LEMMA PostCustody ==
    ASSUME TypeInv, Post
    PROVE  M!Next \/ Stutter
  <1>1. /\ TypeOK /\ pc = "post" /\ pc' = "clean" /\ last \in Msgs /\ last \in box
        /\ UNCHANGED <<box, kept, last, file>>
    BY InHandIs DEF TypeInv, Post, Holding, server
  <1>2. InHand' = InHand /\ Files' = Files
    BY <1>1 DEF InHand, Whole, Files
  <1>3. CASE UNCHANGED accepted /\ excused' \in {excused, excused \cup {last}}
    BY <1>1, <1>2, <1>3, ExcuseOne
  <1>4. CASE Accept /\ UNCHANGED excused
    <2>1. CASE Whole(last) /\ accepted[last] < MaxAccepts
      <3>1. last \in Files
        BY <1>1, <2>1, InHandIs DEF Files
      <3>2. accepted' = [accepted EXCEPT ![last] = accepted[last] + 1]
        BY <1>4, <2>1 DEF Accept
      <3>3. {m \in Msgs : accepted[m] > 0}' = {m \in Msgs : accepted[m] > 0} \cup {last}
        BY <1>1, <3>2 DEF TypeOK
      <3>4. PICK n \in Msgs : n = last
        BY <1>1
      <3>5. M!Take(n)
        BY <1>1, <1>2, <1>4, <3>1, <3>3, <3>4 DEF M!Take, Files
      <3> QED
        BY <3>5 DEF M!Next
    <2>2. CASE ~(Whole(last) /\ accepted[last] < MaxAccepts)
      BY <1>1, <1>2, <1>3, <1>4, <2>2 DEF Accept
    <2> QED
      BY <2>1, <2>2
  <1> QED
    BY <1>1, <1>3, <1>4 DEF Post

LEMMA CleanCustody ==
    ASSUME TypeInv, Clean
    PROVE  M!Next \/ Stutter
  <1>1. /\ pc = "clean" /\ last \in Msgs /\ last \in box
        /\ InHand = IF Whole(last) THEN {last} ELSE {}
        /\ UNCHANGED <<box, accepted, excused>>
    BY InHandIs DEF Clean, Holding, server
  <1>2. InHand' = {}
    BY DEF Clean, InHand
  <1>3. Files' \in {Files, Files \ {last}}
    BY <1>1, <1>2 DEF Clean, LeavesFile, Files
  <1> QED
    BY <1>1, <1>3, DiscardOne

LEMMA CrashCustody ==
    ASSUME TypeInv, Crash
    PROVE  M!Next \/ Stutter
  <1>1. InHand' = {} /\ UNCHANGED <<box, accepted, excused>>
    BY DEF Crash, Forget, InHand
  <1>2. CASE pc \in {"body", "post", "clean"}
    <2>1. /\ last \in Msgs /\ last \in box
          /\ InHand = IF Whole(last) THEN {last} ELSE {}
      BY <1>2, InHandIs DEF Holding
    <2>2. Files' \in {Files, Files \ {last}}
      BY <1>1, <2>1 DEF Crash, Files
    <2> QED
      BY <1>1, <2>1, <2>2, DiscardOne
  <1>3. CASE pc \notin {"body", "post", "clean"}
    <2>1. kept' = kept /\ InHand = {}
      BY <1>3, NothingInHand DEF Crash
    <2> QED
      BY <1>1, <2>1 DEF Stutter, M!vars
  <1> QED
    BY <1>2, <1>3

\* QUIT removes what is marked, and all of this is safe.
LEMMA QuitCustody ==
    ASSUME SafeInv, Quit
    PROVE  M!Next \/ Stutter
  <1>1. /\ SafeGone /\ TypeOK /\ pc = "quit"
        /\ box' = (IF up THEN box \ marked ELSE box)
        /\ pc' = "idle" /\ UNCHANGED <<accepted, kept, excused>>
    BY DEF SafeInv, StepInv, TypeInv, Quit, Forget
  <1>2. InHand = {} /\ InHand' = {}
    BY <1>1 DEF InHand
  <1>3. CASE up
    <2>1. marked \in SUBSET Msgs
      BY <1>1 DEF TypeOK
    <2>2. marked \subseteq Files \cup {m \in Msgs : accepted[m] > 0} \cup excused
      BY <1>1, <2>1 DEF SafeGone, Safe, Files
    <2>3. PICK S \in SUBSET Msgs : S = marked
      BY <2>1
    <2>4. M!Remove(S)
      BY <1>1, <1>2, <1>3, <2>2, <2>3 DEF M!Remove, Files
    <2> QED
      BY <2>4 DEF M!Next
  <1>4. CASE ~up
    BY <1>1, <1>2, <1>4 DEF Stutter, M!vars
  <1> QED
    BY <1>3, <1>4

LEMMA ArriveCustody ==
    ASSUME TypeInv, Known, Arrive
    PROVE  M!Next
  <1>1. /\ TypeOK /\ SessionOK /\ arrived \in Nat /\ arrived < NumMsgs
        /\ UNCHANGED <<accepted, kept, excused, pc, last, file>>
        /\ box' = box \cup {arrived + 1}
    BY DEF TypeInv, TypeOK, Arrive
  <1>2. PICK m \in Msgs : m = arrived + 1 /\ m > arrived /\ m \notin 1..arrived
    BY <1>1
  <1>3. m \notin box \cup kept \cup excused /\ accepted[m] = 0
    BY <1>1, <1>2 DEF Known, SessionOK
  <1>4. InHand \subseteq box
    BY InHandIs DEF Holding
  <1>5. InHand' = InHand
    BY <1>1 DEF InHand, Whole
  <1>6. M!Appear(m)
    BY <1>1, <1>2, <1>3, <1>4, <1>5 DEF M!Appear, M!Somewhere
  <1> QED
    BY <1>6 DEF M!Next

\* Unless superclean throws refused messages away, POP3 mode implements
\* MailCustody, whatever fails and times out.
THEOREM PopKeepsCustody == ASSUME Careful PROVE Spec => Custody
  <1>1. Init => SafeInv /\ Known
    BY InitSafe DEF Known, Init
  <1>2. Init => M!Init
    <2> SUFFICES ASSUME Init PROVE M!Init
      OBVIOUS
    <2>1. {m \in Msgs : accepted[m] > 0} = {} /\ InHand = {}
      BY DEF Init, InHand
    <2> QED
      BY <2>1 DEF Init, M!Init
  <1>3. SafeInv /\ Known /\ [Next]_vars => (SafeInv /\ Known)'
    BY SafeNext, KnownNext DEF SafeInv, StepInv
  <1>4. SafeInv /\ Known /\ [Next]_vars => [M!Next]_M!vars
    BY QuietCustody, DeleCustody, ReadLineCustody, PostCustody, CleanCustody, CrashCustody,
       QuitCustody, ArriveCustody DEF Stutter, SafeInv, StepInv, Next, Step
  <1> QED
    BY <1>1, <1>2, <1>3, <1>4, PTL DEF Spec, Custody, M!Spec
=============================================================================
