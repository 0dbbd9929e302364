--------------------------- MODULE CodexTurnProofs ---------------------------
(***************************************************************************)
(* Proofs about CodexTurn, for any number of clients, requests and          *)
(* questions: what becomes of the messages on their way between the slot,   *)
(* the two pipes and the conversation, and of the questions Codex poses.    *)
(*                                                                         *)
(* The first invariant says of every client id where its message can be.   *)
(* No id is in the pipes twice; a message in the slot that is not being     *)
(* steered has left no trace anywhere, so delivering it is safe; a steered  *)
(* one was taken exactly if the answer that is coming says so.  The second  *)
(* says the same of answers to questions.                                   *)
(***************************************************************************)
EXTENDS CodexTurn, SequenceTheorems, TLAPS

-----------------------------------------------------------------------------
(* Pipes.  What is in one, which messages bear a client's id (a reply bears *)
(* the id of a request), and that an id is in a pipe at most once.          *)

Items(s)    == {s[i] : i \in 1..Len(s)}
Bears(m, c) == m.kind # "reply" /\ m.id = c
Single(s, c) ==
    \A i, j \in 1..Len(s) : Bears(s[i], c) /\ Bears(s[j], c) => i = j

(* What a write adds to a pipe.                                             *)
LEMMA ItemsAppend ==
    ASSUME NEW S, NEW s \in Seq(S), NEW e \in S
    PROVE  /\ Append(s, e) \in Seq(S)
           /\ Items(Append(s, e)) = Items(s) \cup {e}
<1>1. /\ Append(s, e) \in Seq(S) /\ Len(Append(s, e)) = Len(s) + 1
      /\ \A i \in 1..Len(s) : Append(s, e)[i] = s[i]
      /\ Append(s, e)[Len(s) + 1] = e /\ Len(s) \in Nat
  BY AppendProperties, LenProperties
<1>2. 1..Len(s) + 1 = 1..Len(s) \cup {Len(s) + 1}
  BY <1>1
<1> QED
  BY <1>1, <1>2 DEF Items

(* What a read takes from a pipe.                                           *)
LEMMA ItemsTail ==
    ASSUME NEW S, NEW s \in Seq(S), s # <<>>
    PROVE  /\ Tail(s) \in Seq(S) /\ Head(s) \in S
           /\ Items(s) = Items(Tail(s)) \cup {Head(s)}
<1>1. /\ Tail(s) \in Seq(S) /\ Head(s) \in S /\ Len(s) \in Nat \ {0}
      /\ Len(Tail(s)) = Len(s) - 1 /\ Head(s) = s[1]
      /\ \A i \in 1..Len(Tail(s)) : Tail(s)[i] = s[i + 1]
  BY HeadTailProperties, LenProperties, EmptySeq
<1>2. \A i \in 1..Len(s) : i = 1 \/ i - 1 \in 1..Len(Tail(s))
  BY <1>1
<1>3. \A i \in 1..Len(Tail(s)) : i + 1 \in 1..Len(s)
  BY <1>1
<1>4. Items(s) \subseteq Items(Tail(s)) \cup {Head(s)}
  <2> SUFFICES ASSUME NEW i \in 1..Len(s)
               PROVE  s[i] \in Items(Tail(s)) \cup {Head(s)}
    BY DEF Items
  <2>1. CASE i = 1
    BY <2>1, <1>1
  <2>2. CASE i - 1 \in 1..Len(Tail(s))
    <3>1. Tail(s)[i - 1] = s[(i - 1) + 1] /\ (i - 1) + 1 = i
      BY <2>2, <1>1
    <3> QED
      BY <2>2, <3>1 DEF Items
  <2> QED
    BY <2>1, <2>2, <1>2
<1>5. Items(Tail(s)) \cup {Head(s)} \subseteq Items(s)
  <2>1. 1 \in 1..Len(s)
    BY <1>1
  <2> QED
    BY <2>1, <1>1, <1>3 DEF Items
<1> QED
  BY <1>1, <1>4, <1>5

(* An id that is not in a pipe can be written to it.                        *)
LEMMA SingleAppend ==
    ASSUME NEW S, NEW s \in Seq(S), NEW e \in S, NEW c, Single(s, c),
           Bears(e, c) => \A m \in Items(s) : ~Bears(m, c)
    PROVE  Single(Append(s, e), c)
<1>1. /\ Len(Append(s, e)) = Len(s) + 1
      /\ \A i \in 1..Len(s) : Append(s, e)[i] = s[i]
      /\ Append(s, e)[Len(s) + 1] = e /\ Len(s) \in Nat
  BY AppendProperties, LenProperties
<1>2. \A i \in 1..Len(s) + 1 : i \in 1..Len(s) \/ i = Len(s) + 1
  BY <1>1
<1>3. Bears(e, c) => \A i \in 1..Len(s) : ~Bears(s[i], c)
  BY DEF Items
<1> SUFFICES ASSUME NEW i \in 1..Len(s) + 1, NEW j \in 1..Len(s) + 1,
                    Bears(Append(s, e)[i], c), Bears(Append(s, e)[j], c)
             PROVE  i = j
  BY <1>1 DEF Single
<1>4. CASE i \in 1..Len(s) /\ j \in 1..Len(s)
  BY <1>4, <1>1 DEF Single
<1> QED
  BY <1>1, <1>2, <1>3, <1>4

(* An id that is read is not in the rest of the pipe.                       *)
LEMMA SingleTail ==
    ASSUME NEW S, NEW s \in Seq(S), s # <<>>, NEW c, Single(s, c)
    PROVE  /\ Single(Tail(s), c)
           /\ Bears(Head(s), c) => \A m \in Items(Tail(s)) : ~Bears(m, c)
<1>1. /\ Len(s) \in Nat \ {0} /\ Len(Tail(s)) = Len(s) - 1 /\ Head(s) = s[1]
      /\ \A i \in 1..Len(Tail(s)) : Tail(s)[i] = s[i + 1]
  BY HeadTailProperties, LenProperties, EmptySeq
<1>2. \A i \in 1..Len(Tail(s)) : i + 1 \in 1..Len(s) /\ i + 1 # 1
  BY <1>1
<1>3. 1 \in 1..Len(s)
  BY <1>1
<1>4. Single(Tail(s), c)
  <2> SUFFICES ASSUME NEW i \in 1..Len(Tail(s)), NEW j \in 1..Len(Tail(s)),
                      Bears(Tail(s)[i], c), Bears(Tail(s)[j], c)
               PROVE  i = j
    BY DEF Single
  <2>1. i + 1 = j + 1
    BY <1>1, <1>2 DEF Single
  <2> QED
    BY <2>1, <1>1
<1>5. ASSUME Bears(Head(s), c), NEW i \in 1..Len(Tail(s)),
             Bears(Tail(s)[i], c)
      PROVE  FALSE
  BY <1>1, <1>2, <1>3, <1>5 DEF Single
<1> QED
  BY <1>4, <1>5 DEF Items

-----------------------------------------------------------------------------
(* The invariant.                                                          *)

(* A call, or the answer to one, that bears the client's id is under way.   *)
Under(c) == \E m \in Items(inbox) \cup Items(replies) : Bears(m, c)

Untouched(c) == ~Under(c) /\ taken[c] = 0 /\ said[c] = 0

(* No id is in the pipes twice.                                             *)
Once(in, back) ==
    \A c \in Clients :
        /\ Single(in, c) /\ Single(back, c)
        /\ \A m \in Items(in), n \in Items(back) :
               ~(Bears(m, c) /\ Bears(n, c))

(* A client id nobody used has left no trace.                               *)
UnusedSound ==
    \A c \in Clients \ used :
        Untouched(c) /\ slot # c /\ c \notin steering /\ answering[c] = None

(* The message in the slot is nowhere else, unless it was steered.          *)
SlotSound == slot \in Clients \ steering => Untouched(slot)

(* A steered message was taken exactly when the answer says so.             *)
SteerSound ==
    \A c \in steering :
        /\ said[c] = 0 /\ answering[c] = None /\ c \in used
        /\ \A m \in Items(inbox) : Bears(m, c) => m.kind = "steer"
        /\ \A n \in Items(replies) :
               n.id = c => \/ n.kind = "ok" /\ taken[c] = 1
                           \/ n.kind = "refused" /\ taken[c] = 0
        /\ taken[c] > 0 =>
               \E n \in Items(replies) : n.kind = "ok" /\ n.id = c

(* What is on its way to Codex has not been taken yet.                      *)
InboxSound ==
    \A m \in Items(inbox) :
        /\ m.kind = "start" => said[m.id] = 1 /\ taken[m.id] = 0
        /\ m.kind = "steer" => m.id \in steering /\ taken[m.id] = 0
        /\ m.kind = "answer" => said[m.id] = 0

(* What the conversation says Codex has.                                    *)
SaidSound ==
    \A c \in Clients :
        /\ said[c] <= 1 /\ taken[c] <= 1
        /\ taken[c] > 0 => said[c] = 1 \/ c \in steering
        /\ said[c] = 1 /\ alive /\ taken[c] = 0 =>
               \/ life[c] = "refused"
               \/ \E m \in Items(inbox) : m.kind = "start" /\ m.id = c

Messages ==
    /\ Once(inbox, replies) /\ UnusedSound /\ SlotSound /\ SteerSound
    /\ InboxSound /\ SaidSound

IInv == TypeOK /\ Messages

(* Once, when a call is written, an answer is read, and a call is           *)
(* answered.                                                                *)
LEMMA OnceWritten ==
    ASSUME NEW in \in Seq(Called), NEW back \in Seq(Returned), Once(in, back),
           NEW m \in Called,
           \A c \in Clients : Bears(m, c) =>
               \A n \in Items(in) \cup Items(back) : ~Bears(n, c)
    PROVE  Once(Append(in, m), back)
BY ItemsAppend, SingleAppend DEF Once

LEMMA OnceReplied ==
    ASSUME NEW in \in Seq(Called), NEW back \in Seq(Returned), Once(in, back),
           back # <<>>
    PROVE  Once(in, Tail(back))
BY ItemsTail, SingleTail DEF Once

LEMMA OnceRead ==
    ASSUME NEW in \in Seq(Called), NEW back \in Seq(Returned), Once(in, back),
           in # <<>>
    PROVE  /\ Once(Tail(in), back)
           /\ \A n \in Returned :
                  (\A c \in Clients : Bears(n, c) => Bears(Head(in), c))
                  => Once(Tail(in), Append(back, n))
<1>1. Once(Tail(in), back)
  BY ItemsTail, SingleTail DEF Once
<1> SUFFICES ASSUME NEW n \in Returned, NEW c \in Clients,
                    Bears(n, c) => Bears(Head(in), c)
             PROVE  /\ Single(Tail(in), c) /\ Single(Append(back, n), c)
                    /\ \A m \in Items(Tail(in)), k \in Items(Append(back, n)) :
                           ~(Bears(m, c) /\ Bears(k, c))
  BY <1>1 DEF Once
<1>2. Single(Tail(in), c)
  BY <1>1 DEF Once
<1>3. Bears(n, c) => \A k \in Items(back) : ~Bears(k, c)
  BY ItemsTail DEF Once
<1>4. Single(Append(back, n), c)
  BY <1>3, SingleAppend DEF Once
<1>5. Items(Append(back, n)) = Items(back) \cup {n}
  BY ItemsAppend
<1>6. Bears(n, c) => \A m \in Items(Tail(in)) : ~Bears(m, c)
  BY SingleTail DEF Once
<1> QED
  BY <1>1, <1>2, <1>4, <1>5, <1>6 DEF Once

-----------------------------------------------------------------------------
(* A step keeps Messages if it moves no message: it neither takes nor       *)
(* says one, and whatever it writes names a client id never used before.    *)
LEMMA FrameStep ==
    ASSUME TypeOK, TypeOK', Messages, Once(inbox, replies)',
           UNCHANGED <<steering, taken, said>>, slot' \in {slot, None},
           used \subseteq used', alive' => alive,
           \A c \in Clients : life[c] = "refused" => life'[c] = "refused",
           \A c \in Clients : answering'[c] # None =>
               answering[c] # None \/ c \in used' \ used,
           \A m \in Items(inbox') :
               \/ m \in Items(inbox)
               \/ /\ m.kind \in {"interrupt", "answer"}
                  /\ m.id \in Clients \cap (used' \ used)
               \/ m.kind \notin {"start", "steer", "answer"}
                  /\ \A c \in Clients : ~Bears(m, c),
           alive' => \A m \in Items(inbox) :
                         m.kind = "start" => m \in Items(inbox'),
           Items(replies') \subseteq Items(replies),
           \A n \in Items(replies) : n.id \in steering => n \in Items(replies')
    PROVE  Messages'
<1> USE DEF Messages
<1>1. ASSUME NEW c \in Clients, Under(c)', ~Under(c)
      PROVE  c \in used' \ used
  BY <1>1 DEF Under, Bears
<1>2. UnusedSound'
  BY <1>1, CodexAssumption DEF UnusedSound, Untouched
<1>3. SlotSound'
  BY <1>1, CodexAssumption DEF SlotSound, Untouched, UnusedSound
<1>4. SteerSound'
  <2> SUFFICES ASSUME NEW c \in steering
               PROVE  /\ said'[c] = 0 /\ answering'[c] = None /\ c \in used'
                      /\ \A m \in Items(inbox') :
                             Bears(m, c) => m.kind = "steer"
                      /\ \A n \in Items(replies') :
                             n.id = c => \/ n.kind = "ok" /\ taken'[c] = 1
                                         \/ n.kind = "refused"
                                            /\ taken'[c] = 0
                      /\ taken'[c] > 0 =>
                             \E n \in Items(replies') :
                                 n.kind = "ok" /\ n.id = c
    BY DEF SteerSound, Items, Bears
  <2>1. c \in Clients
    BY DEF TypeOK
  <2> QED
    BY <2>1 DEF SteerSound, Bears
<1>5. InboxSound'
  <2> SUFFICES ASSUME NEW m \in Items(inbox')
               PROVE  /\ m.kind = "start" =>
                             said[m.id] = 1 /\ taken[m.id] = 0
                      /\ m.kind = "steer" =>
                             m.id \in steering /\ taken[m.id] = 0
                      /\ m.kind = "answer" => said[m.id] = 0
    BY DEF InboxSound, Items
  <2>1. CASE m \in Items(inbox)
    BY <2>1 DEF InboxSound
  <2>2. CASE m.kind \in {"interrupt", "answer"}
             /\ m.id \in Clients \cap (used' \ used)
    BY <2>2 DEF UnusedSound, Untouched
  <2> QED
    BY <2>1, <2>2
<1>6. SaidSound'
  BY DEF SaidSound, Items
<1> QED
  BY <1>2, <1>3, <1>4, <1>5, <1>6

-----------------------------------------------------------------------------
(* The range of every variable.                                            *)

(* The ranges, in the parts a step changes together.                        *)
MemoryType ==
    /\ state \in {"starting", "idle", "working", "waiting_input", "stopping",
                  "stopped", "failed", "interrupted"}
    /\ turn \in Clients \cup {None} /\ slot \in Clients \cup {None}
    /\ steering \subseteq Clients
    /\ pending \subseteq Requests \cup Questions /\ seen \subseteq Questions
    /\ answering \in [Clients -> Questions \cup {None}]
    /\ overdue \in BOOLEAN /\ stopping \in BOOLEAN /\ used \subseteq Clients
    /\ pc \in {"free", "deliver", "over"}
PipeType ==
    /\ inbox \in Seq(Called) /\ replies \in Seq(Returned)
    /\ notices \in Seq(Reported)
CodexType ==
    /\ alive \in BOOLEAN
    /\ life \in [Clients -> {"none", "held", "starting", "running", "joined",
                             "ended", "repeated", "refused"}]
    /\ asking \subseteq put /\ put \subseteq Requests
    /\ posed \in [Questions -> 0..2]
HistoryType ==
    /\ fate \in [Clients -> {"none", "sent", "gone"}]
    /\ taken \in [Clients -> Nat] /\ said \in [Clients -> Nat]
    /\ answered \in [Questions -> Nat] /\ closed \subseteq Questions
    /\ ends \in Nat /\ misled \in BOOLEAN

LEMMA TypeParts ==
    TypeOK <=> MemoryType /\ PipeType /\ CodexType /\ HistoryType
  BY DEF TypeOK, MemoryType, PipeType, CodexType, HistoryType

(* The pipes hold calls, answers and reports.                               *)
LEMMA WriteType ==
    ASSUME TypeOK, NEW kind, NEW id, NEW t,
           [kind |-> kind, id |-> id, turn |-> t] \in Called,
           Write(kind, id, t)
    PROVE  inbox' \in Seq(Called)
BY AppendProperties DEF Write, TypeOK

LEMMA RepliesType ==
    ASSUME TypeOK, NEW kind, NEW id,
           [kind |-> kind, id |-> id] \in Returned, Replies(kind, id)
    PROVE  replies' \in Seq(Returned)
BY AppendProperties DEF Replies, TypeOK

LEMMA SaysType ==
    ASSUME TypeOK, NEW kind, NEW id,
           [kind |-> kind, id |-> id] \in Reported, Says(kind, id)
    PROVE  notices' \in Seq(Reported)
BY AppendProperties DEF Says, TypeOK

(* Counting keeps a counter a counter.                                      *)
LEMMA Counted ==
    ASSUME NEW S, NEW f \in [S -> Nat], NEW x
    PROVE  [f EXCEPT ![x] = @ + 1] \in [S -> Nat]
<1>1. CASE x \in S
  <2>1. f[x] + 1 \in Nat
    BY <1>1
  <2> QED
    BY <2>1
<1>2. CASE x \notin S
  <2>1. [f EXCEPT ![x] = @ + 1] = f
    BY <1>2
  <2> QED
    BY <2>1
<1> QED
  BY <1>1, <1>2

(* The range of every variable, for each kind of step.                      *)
LEMMA CommandType ==
    ASSUME TypeOK, NEW c \in Clients,
           \/ SendStart(c) \/ SendSteer(c) \/ SendLater(c) \/ Unqueue(c)
           \/ Interrupt(c) \/ Stop(c)
           \/ \E r \in Requests : Reply(c, r)
           \/ \E q \in Questions : Answer(c, q) \/ Dismiss(c, q)
    PROVE  TypeOK'
<1> USE DEF Receipt, Submit, memory, aside, outbox, codex, asks, messages,
            questions, turnends, history
<1>1. CASE SendStart(c)
  <2>1. inbox' \in Seq(Called)
    BY <1>1, WriteType DEF SendStart, Start, Called
  <2> QED
    BY <1>1, <2>1 DEF SendStart, Start, LogInput, TypeOK
<1>2. CASE SendSteer(c)
  <2>1. inbox' \in Seq(Called)
    BY <1>2, WriteType DEF SendSteer, Called, TypeOK
  <2> QED
    BY <1>2, <2>1 DEF SendSteer, HoldSteered, TypeOK
<1>3. CASE SendLater(c)
  BY <1>3 DEF SendLater, TypeOK
<1>4. CASE Unqueue(c)
  BY <1>4 DEF Unqueue, DropQueued, TypeOK
<1>5. CASE Interrupt(c)
  <2>1. inbox' \in Seq(Called)
    BY <1>5, WriteType DEF Interrupt, Called, TypeOK
  <2> QED
    BY <1>5, <2>1 DEF Interrupt, ClearPending, DropQueued, TypeOK
<1>6. CASE Stop(c)
  BY <1>6 DEF Stop, DropQueued, TypeOK
<1>7. ASSUME NEW r \in Requests, Reply(c, r) PROVE TypeOK'
  <2>1. inbox' \in Seq(Called)
    BY <1>7, WriteType DEF Reply, Called
  <2> QED
    BY <1>7, <2>1 DEF Reply, AfterReply, TypeOK
<1>8. ASSUME NEW q \in Questions, Answer(c, q) PROVE TypeOK'
  <2>1. inbox' \in Seq(Called)
    BY <1>8, WriteType DEF Answer, Called
  <2> QED
    BY <1>8, <2>1 DEF Answer, TypeOK
<1>9. ASSUME NEW q \in Questions, Dismiss(c, q) PROVE TypeOK'
  BY <1>9 DEF Dismiss, TypeOK
<1> QED
  BY <1>1, <1>2, <1>3, <1>4, <1>5, <1>6, <1>7, <1>8, <1>9

LEMMA ConsumeType ==
    ASSUME TypeOK, Consume
    PROVE  TypeOK'
<1> USE DEF memory, aside, outbox, codex, asks, messages, questions,
            turnends, history
<1>1. pc' \in {"free", "deliver"}
  BY DEF Consume
<1>2. ASSUME replies # <<>>
      PROVE  Tail(replies) \in Seq(Returned) /\ Head(replies) \in Returned
  BY <1>2, HeadTailProperties DEF TypeOK
<1>3. ASSUME notices # <<>>
      PROVE  Tail(notices) \in Seq(Reported) /\ Head(notices) \in Reported
  BY <1>3, HeadTailProperties DEF TypeOK
<1>4. \A c : Named = c /\ answering[c] # None /\ c \in Clients =>
          answering[c] \in Questions
  BY DEF TypeOK
<1>5. CASE Greeted
  <2>1. inbox' \in Seq(Called)
    BY <1>5, WriteType DEF Greeted, Called, TypeOK
  <2>2. state' \in {state, "failed"} /\ alive' \in {alive, FALSE}
    BY <1>5 DEF Greeted, Live, Fail
  <2>3. replies' \in Seq(Returned) /\ notices' = notices
    BY <1>2, <1>5 DEF Greeted, Replied
  <2>4. UNCHANGED <<turn, slot, steering, pending, aside, used, life, asks,
                    history>>
    BY <1>5 DEF Greeted
  <2>5. MemoryType'
    BY <1>1, <2>2, <2>4, TypeParts DEF MemoryType
  <2>6. PipeType'
    BY <2>1, <2>3, TypeParts DEF PipeType
  <2>7. CodexType' /\ HistoryType'
    BY <2>2, <2>4, TypeParts DEF CodexType, HistoryType
  <2> QED
    BY <2>5, <2>6, <2>7
    DEF TypeOK, MemoryType, PipeType, CodexType, HistoryType
<1>6. CASE ThreadReady
  BY <1>1, <1>2, <1>6 DEF ThreadReady, Replied, Fail, TypeOK
<1>7. CASE SteerTaken
  <2>1. MemoryType'
    BY <1>1, <1>7, TypeParts DEF SteerTaken, Answered, LogInput, MemoryType
  <2>2. PipeType'
    BY <1>2, <1>7, TypeParts DEF SteerTaken, Replied, PipeType
  <2>3. CodexType'
    BY <1>7, TypeParts DEF SteerTaken, CodexType
  <2>4. said' \in [Clients -> Nat]
    <3>1. said \in [Clients -> Nat]
      BY TypeParts DEF HistoryType
    <3>2. said' = [said EXCEPT ![Named] = @ + 1]
      BY <1>7 DEF SteerTaken, LogInput
    <3> QED
      BY <3>1, <3>2, Counted
  <2>5. HistoryType'
    BY <1>7, <2>4, TypeParts DEF SteerTaken, HistoryType
  <2> QED
    BY <2>1, <2>2, <2>3, <2>5
    DEF TypeOK, MemoryType, PipeType, CodexType, HistoryType
<1>8. CASE SteerRefused
  <2>1. MemoryType'
    BY <1>1, <1>8, TypeParts DEF SteerRefused, Answered, MemoryType
  <2>2. PipeType'
    BY <1>2, <1>8, TypeParts DEF SteerRefused, Replied, PipeType
  <2>3. CodexType' /\ HistoryType'
    BY <1>8, TypeParts DEF SteerRefused, CodexType, HistoryType
  <2> QED
    BY <2>1, <2>2, <2>3
    DEF TypeOK, MemoryType, PipeType, CodexType, HistoryType
<1>9. CASE AnswerReplied
  <2>1. MemoryType'
    BY <1>1, <1>4, <1>9, TypeParts
    DEF AnswerReplied, Restored, IsAnswer, MemoryType
  <2>2. PipeType'
    BY <1>2, <1>9, TypeParts DEF AnswerReplied, Replied, PipeType
  <2>3. CodexType' /\ HistoryType'
    BY <1>9, TypeParts DEF AnswerReplied, CodexType, HistoryType
  <2> QED
    BY <2>1, <2>2, <2>3
    DEF TypeOK, MemoryType, PipeType, CodexType, HistoryType
<1>10. CASE RequestRefused
  <2>1. state' \in {"failed", "idle"} /\ alive' \in BOOLEAN
    BY <1>10 DEF RequestRefused, Fail, TypeOK
  <2>2. misled' \in BOOLEAN
    BY <1>10 DEF RequestRefused, TypeOK
  <2>3. ends' \in {ends, ends + 1} /\ pending' \subseteq pending
        /\ closed' \subseteq closed \cup (pending \cap Questions)
    BY <1>10 DEF RequestRefused, ClearPending
  <2>4. replies' \in Seq(Returned) /\ notices' = notices
    BY <1>2, <1>10 DEF RequestRefused, Replied
  <2>5. UNCHANGED <<turn, slot, steering, aside, used, inbox, life, asks,
                    messages, answered>>
    BY <1>10 DEF RequestRefused
  <2> QED
    BY <1>1, <2>1, <2>2, <2>3, <2>4, <2>5 DEF TypeOK
<1>11. CASE DeadlineRefused
  BY <1>1, <1>2, <1>11 DEF DeadlineRefused, Replied, Fail, TypeOK
<1>12. CASE Unremarkable
  BY <1>1, <1>2, <1>12 DEF Unremarkable, Replied, TypeOK
<1>13. CASE TurnStarted
  BY <1>1, <1>3, <1>13 DEF TurnStarted, Noticed, Subject, Reported, TypeOK
<1>14. CASE TurnCompleted
  <2>1. /\ state' \in {state, "idle"} /\ turn' \in {turn, None}
        /\ overdue' \in BOOLEAN /\ ends' \in {ends, ends + 1}
        /\ pending' \subseteq pending
    BY <1>14 DEF TurnCompleted, Remaining, TypeOK
  <2>2. notices' \in Seq(Reported) /\ replies' = replies
    BY <1>3, <1>14 DEF TurnCompleted, Noticed
  <2>3. UNCHANGED <<slot, steering, seen, answering, stopping, used, inbox,
                    codex, messages, questions, misled>>
    BY <1>14 DEF TurnCompleted
  <2> QED
    BY <1>1, <2>1, <2>2, <2>3 DEF TypeOK
<1>15. CASE Asked
  BY <1>1, <1>3, <1>15 DEF Asked, Noticed, Subject, Reported, TypeOK
<1>16. CASE Resolved
  BY <1>1, <1>3, <1>16 DEF Resolved, Noticed, TypeOK
<1>17. CASE Wondered
  BY <1>1, <1>3, <1>17
  DEF Wondered, Noticed, Subject, Posed, Reported, TypeOK
<1> QED
  BY <1>5, <1>6, <1>7, <1>8, <1>9, <1>10, <1>11, <1>12, <1>13, <1>14, <1>15,
     <1>16, <1>17 DEF Consume

LEMMA ReadType ==
    ASSUME TypeOK, Read
    PROVE  TypeOK'
<1> USE DEF memory, aside, outbox, codex, asks, messages, questions,
            turnends, history
<1>1. ASSUME NEW kind, Reads(kind)
      PROVE  inbox' \in Seq(Called) /\ Wanted \in Called /\ Wanted.kind = kind
  BY <1>1, HeadTailProperties DEF Reads, Wanted, TypeOK
<1>2. CASE Greets
  <2>1. inbox' \in Seq(Called)
    BY <1>1, <1>2 DEF Greets
  <2>2. replies' \in Seq(Returned)
    BY <1>2, RepliesType DEF Greets, Returned
  <2> QED
    BY <1>2, <2>1, <2>2 DEF Greets, TypeOK
<1>3. CASE Accepts
  <2>1. inbox' \in Seq(Called) /\ Wanted.id \in Clients
    BY <1>1, <1>3 DEF Accepts, Called
  <2>2. replies' \in Seq(Returned)
    BY <1>3, <2>1, RepliesType DEF Accepts, Returned
  <2>3. taken' \in [Clients -> Nat]
    BY <1>3, Counted DEF Accepts, TypeOK
  <2>4. life' \in [Clients -> {"none", "held", "starting", "running",
                               "joined", "ended", "repeated", "refused"}]
    BY <1>3 DEF Accepts, TypeOK
  <2>5. UNCHANGED <<memory, pc, notices, alive, asks, fate, said,
                    questions, turnends>>
    BY <1>3 DEF Accepts
  <2>6. MemoryType'
    BY <2>5, TypeParts DEF MemoryType
  <2>7. PipeType'
    BY <2>1, <2>2, <2>5, TypeParts DEF PipeType
  <2>8. CodexType' /\ HistoryType'
    BY <2>3, <2>4, <2>5, TypeParts DEF CodexType, HistoryType
  <2> QED
    BY <2>6, <2>7, <2>8
    DEF TypeOK, MemoryType, PipeType, CodexType, HistoryType
<1>4. CASE Refuses
  <2>1. inbox' \in Seq(Called) /\ Wanted.id \in Clients
    BY <1>1, <1>4 DEF Refuses, Called
  <2>2. replies' \in Seq(Returned)
    BY <1>4, <2>1, RepliesType DEF Refuses, Returned
  <2>3. MemoryType'
    BY <1>4, TypeParts DEF Refuses, MemoryType
  <2>4. PipeType'
    BY <1>4, <2>1, <2>2, TypeParts DEF Refuses, PipeType
  <2>5. CodexType' /\ HistoryType'
    BY <1>4, TypeParts DEF Refuses, CodexType, HistoryType
  <2> QED
    BY <2>3, <2>4, <2>5
    DEF TypeOK, MemoryType, PipeType, CodexType, HistoryType
<1>5. CASE Steers
  <2>1. inbox' \in Seq(Called) /\ Wanted.id \in Clients
    BY <1>1, <1>5 DEF Steers, Called
  <2>2. replies' \in Seq(Returned)
    BY <1>5, <2>1, RepliesType DEF Steers, Returned
  <2>3. \/ taken' = taken
        \/ taken' = [taken EXCEPT ![Wanted.id] = @ + 1]
    BY <1>5 DEF Steers
  <2>4. taken' \in [Clients -> Nat]
    BY <2>3, Counted DEF TypeOK
  <2>5. UNCHANGED <<memory, pc, notices, codex, fate, said,
                    questions, turnends>>
    BY <1>5 DEF Steers
  <2>6. MemoryType'
    BY <2>5, TypeParts DEF MemoryType
  <2>7. PipeType'
    BY <2>1, <2>2, <2>5, TypeParts DEF PipeType
  <2>8. CodexType' /\ HistoryType'
    BY <2>4, <2>5, TypeParts DEF CodexType, HistoryType
  <2> QED
    BY <2>6, <2>7, <2>8
    DEF TypeOK, MemoryType, PipeType, CodexType, HistoryType
<1>6. CASE Interrupts
  <2>1. /\ inbox' \in Seq(Called) /\ Wanted.turn \in Clients
        /\ Wanted.id \in Clients \cup {None}
    <3>1. \/ Reads("interrupt") /\ Wanted.kind = "interrupt"
          \/ Reads("deadline") /\ Wanted.kind = "deadline"
      BY <1>1, <1>6 DEF Interrupts
    <3> QED
      BY <1>1, <3>1 DEF Called
  <2>2. replies' \in Seq(Returned)
    BY <1>6, <2>1, RepliesType DEF Interrupts, Returned
  <2>3. notices' \in Seq(Reported)
    BY <1>6, <2>1, SaysType DEF Interrupts, Reported, TypeOK
  <2>4. MemoryType' /\ HistoryType'
    BY <1>6, TypeParts DEF Interrupts, MemoryType, HistoryType
  <2>5. PipeType'
    BY <2>1, <2>2, <2>3 DEF PipeType
  <2>6. CodexType'
    BY <1>6, TypeParts DEF Interrupts, CodexType
  <2> QED
    BY <2>4, <2>5, <2>6
    DEF TypeOK, MemoryType, PipeType, CodexType, HistoryType
<1>7. CASE HearsReply
  BY <1>1, <1>7 DEF HearsReply, TypeOK
<1>8. CASE HearsAnswer
  <2>1. inbox' \in Seq(Called) /\ Wanted.id \in Clients
    BY <1>1, <1>8 DEF HearsAnswer, Called
  <2>2. replies' \in Seq(Returned)
    BY <1>8, <2>1, RepliesType DEF HearsAnswer, Returned
  <2>3. life' \in [Clients -> {"none", "held", "starting", "running",
                               "joined", "ended", "repeated", "refused"}]
    BY <1>8, <2>1 DEF HearsAnswer, TypeOK
  <2>4. \/ answered' = answered
        \/ answered' = [answered EXCEPT ![answering[Wanted.id]] = @ + 1]
    BY <1>8 DEF HearsAnswer
  <2>5. answered' \in [Questions -> Nat]
    <3>1. CASE answered' = answered
      BY <3>1 DEF TypeOK
    <3>2. CASE answered' = [answered EXCEPT ![answering[Wanted.id]] = @ + 1]
      <4>1. answered \in [Questions -> Nat]
        BY DEF TypeOK
      <4> QED
        BY <3>2, <4>1, Counted
    <3> QED
      BY <2>4, <3>1, <3>2
  <2>6. UNCHANGED <<memory, pc, notices, alive, asks, messages, closed,
                    turnends>>
    BY <1>8 DEF HearsAnswer
  <2>7. MemoryType'
    BY <2>6, TypeParts DEF MemoryType
  <2>8. PipeType'
    BY <2>1, <2>2, <2>6, TypeParts DEF PipeType
  <2>9. CodexType' /\ HistoryType'
    BY <2>3, <2>5, <2>6, TypeParts DEF CodexType, HistoryType
  <2> QED
    BY <2>7, <2>8, <2>9
    DEF TypeOK, MemoryType, PipeType, CodexType, HistoryType
<1> QED
  BY <1>2, <1>3, <1>4, <1>5, <1>6, <1>7, <1>8 DEF Read

LEMMA TypeStep ==
    ASSUME TypeOK, [Next]_vars
    PROVE  TypeOK'
<1> USE DEF vars, memory, aside, outbox, codex, asks, messages, questions,
            turnends, history
<1>1. CASE Deliver
  <2>1. inbox' \in Seq(Called)
    BY <1>1, WriteType
    DEF Deliver, MayDeliver, Start, Called, TypeOK
  <2> QED
    BY <1>1, <2>1 DEF Deliver, MayDeliver, Start, LogInput, TypeOK
<1>2. CASE DeadlinePasses
  <2>1. inbox' \in Seq(Called)
    BY <1>2, WriteType DEF DeadlinePasses, Watched, Called, TypeOK
  <2> QED
    BY <1>2, <2>1 DEF DeadlinePasses, TypeOK
<1>3. CASE GraceEnds
  BY <1>3 DEF GraceEnds, TypeOK
<1>4. CASE Finish
  BY <1>4 DEF Finish, ClearPending, Endings, TypeOK
<1>5. ASSUME NEW t \in Clients, Begins(t) PROVE TypeOK'
  <2>1. notices' \in Seq(Reported)
    BY <1>5, SaysType DEF Begins, Reported
  <2>2. MemoryType' /\ HistoryType'
    BY <1>5, TypeParts DEF Begins, MemoryType, HistoryType
  <2>3. PipeType'
    BY <1>5, <2>1, TypeParts DEF Begins, PipeType
  <2>4. CodexType'
    BY <1>5, TypeParts DEF Begins, CodexType
  <2> QED
    BY <2>2, <2>3, <2>4
    DEF TypeOK, MemoryType, PipeType, CodexType, HistoryType
<1>6. ASSUME NEW t \in Clients, TakesUp(t) PROVE TypeOK'
  BY <1>6 DEF TakesUp, TypeOK
<1>7. ASSUME NEW t \in Clients, Completes(t) PROVE TypeOK'
  <2>1. notices' \in Seq(Reported)
    BY <1>7, SaysType DEF Completes, Reported
  <2>2. MemoryType' /\ HistoryType'
    BY <1>7, TypeParts DEF Completes, MemoryType, HistoryType
  <2>3. PipeType'
    BY <1>7, <2>1, TypeParts DEF Completes, PipeType
  <2>4. CodexType'
    BY <1>7, TypeParts DEF Completes, CodexType
  <2> QED
    BY <2>2, <2>3, <2>4
    DEF TypeOK, MemoryType, PipeType, CodexType, HistoryType
<1>8. ASSUME NEW t \in Clients, Repeats(t) PROVE TypeOK'
  <2>1. notices' \in Seq(Reported)
    BY <1>8, SaysType DEF Repeats, Reported
  <2>2. MemoryType' /\ HistoryType'
    BY <1>8, TypeParts DEF Repeats, MemoryType, HistoryType
  <2>3. PipeType'
    BY <1>8, <2>1, TypeParts DEF Repeats, PipeType
  <2>4. CodexType'
    BY <1>8, TypeParts DEF Repeats, CodexType
  <2> QED
    BY <2>2, <2>3, <2>4
    DEF TypeOK, MemoryType, PipeType, CodexType, HistoryType
<1>9. ASSUME NEW r \in Requests, Asks(r) PROVE TypeOK'
  <2>1. notices' \in Seq(Reported)
    BY <1>9, SaysType DEF Asks, Reported
  <2> QED
    BY <1>9, <2>1 DEF Asks, TypeOK
<1>10. ASSUME NEW r \in Requests, Withdraws(r) PROVE TypeOK'
  <2>1. notices' \in Seq(Reported)
    BY <1>10, SaysType DEF Withdraws, Reported
  <2> QED
    BY <1>10, <2>1 DEF Withdraws, TypeOK
<1>11. ASSUME NEW q \in Questions, Poses(q) PROVE TypeOK'
  <2>1. notices' \in Seq(Reported)
    BY <1>11, SaysType DEF Poses, Reported
  <2>2. posed' \in [Questions -> 0..2]
    <3>1. posed[q] \in 0..2 /\ posed[q] < 2
      BY <1>11 DEF Poses, TypeOK
    <3>2. posed[q] + 1 \in 0..2
      BY <3>1
    <3> QED
      BY <1>11, <3>2 DEF Poses, TypeOK
  <2>3. MemoryType' /\ HistoryType'
    BY <1>11, TypeParts DEF Poses, MemoryType, HistoryType
  <2>4. PipeType'
    BY <1>11, <2>1, TypeParts DEF Poses, PipeType
  <2>5. CodexType'
    BY <1>11, <2>2, TypeParts DEF Poses, CodexType
  <2> QED
    BY <2>3, <2>4, <2>5
    DEF TypeOK, MemoryType, PipeType, CodexType, HistoryType
<1>12. CASE Dies
  <2>1. MemoryType' /\ HistoryType'
    BY <1>12, TypeParts DEF Dies, MemoryType, HistoryType
  <2>2. PipeType' /\ CodexType'
    BY <1>12, TypeParts DEF Dies, PipeType, CodexType
  <2> QED
    BY <2>1, <2>2
    DEF TypeOK, MemoryType, PipeType, CodexType, HistoryType
<1>13. CASE UNCHANGED vars
  BY <1>13 DEF TypeOK
<1> QED
  BY CommandType, ConsumeType, ReadType, <1>1, <1>2, <1>3, <1>4, <1>5, <1>6,
     <1>7, <1>8, <1>9, <1>10, <1>11, <1>12, <1>13
  DEF Next, Command, Watch, Turns, Finishes, Chatters

-----------------------------------------------------------------------------
(* Steps that leave the messages where they are.                            *)

LEMMA QuietStep ==
    ASSUME TypeOK, TypeOK', Messages,
           UNCHANGED <<inbox, replies, steering, taken, said, answering>>,
           slot' \in {slot, None}, used \subseteq used', alive' => alive,
           \A c \in Clients : life[c] = "refused" => life'[c] = "refused"
    PROVE  Messages'
<1>1. Once(inbox, replies)'
  BY DEF Messages
<1> QED
  BY <1>1, FrameStep

(* What a write leaves in the pipe, whether or not Codex lives.             *)
LEMMA Written ==
    ASSUME TypeOK, NEW kind, NEW id, NEW t,
           [kind |-> kind, id |-> id, turn |-> t] \in Called,
           Write(kind, id, t)
    PROVE  /\ Items(inbox) \subseteq Items(inbox')
           /\ \A m \in Items(inbox') :
                  m \in Items(inbox) \/ (m.kind = kind /\ m.id = id)
           /\ alive => [kind |-> kind, id |-> id, turn |-> t] \in Items(inbox')
<1> DEFINE m == [kind |-> kind, id |-> id, turn |-> t]
<1>1. CASE ~alive
  <2>1. inbox' = inbox
    BY <1>1 DEF Write
  <2>2. Items(inbox') = Items(inbox)
    BY <2>1
  <2> QED
    BY <1>1, <2>2
<1>2. CASE alive
  <2>1. inbox \in Seq(Called) /\ inbox' = Append(inbox, m)
    BY <1>2 DEF Write, TypeOK
  <2>2. Items(inbox') = Items(inbox) \cup {m}
    BY <2>1, ItemsAppend
  <2>3. m.kind = kind /\ m.id = id
    OBVIOUS
  <2>4. ASSUME NEW k \in Items(inbox')
        PROVE  k \in Items(inbox) \/ (k.kind = kind /\ k.id = id)
    <3> HIDE DEF m
    <3> QED
      BY <2>2, <2>3
  <2> QED
    BY <2>2, <2>4
<1> QED
  BY <1>1, <1>2

(* A write keeps ids single when its id is not under way.                   *)
LEMMA WrittenOnce ==
    ASSUME TypeOK, Messages, NEW kind, NEW id, NEW t,
           [kind |-> kind, id |-> id, turn |-> t] \in Called,
           Write(kind, id, t),
           kind = "reply" \/ id \notin Clients \/ ~Under(id)
    PROVE  Once(inbox', replies)
<1> DEFINE m == [kind |-> kind, id |-> id, turn |-> t]
<1>1. /\ inbox \in Seq(Called) /\ replies \in Seq(Returned)
      /\ Once(inbox, replies)
  BY DEF TypeOK, Messages
<1>2. CASE ~alive
  BY <1>1, <1>2 DEF Write
<1>3. CASE alive
  <2>1. inbox' = Append(inbox, m)
    BY <1>3 DEF Write
  <2>2. \A c \in Clients : Bears(m, c) =>
            \A n \in Items(inbox) \cup Items(replies) : ~Bears(n, c)
    BY DEF Bears, Under
  <2> QED
    BY <1>1, <2>1, <2>2, OnceWritten
<1> QED
  BY <1>2, <1>3 DEF TypeOK

(* What reading an answer leaves: no trace of the id it names.              *)
LEMMA Consumed ==
    ASSUME TypeOK, NEW kind, Replied(kind), Messages
    PROVE  /\ Once(inbox, replies')
           /\ replies' \in Seq(Returned) /\ Head(replies) \in Returned
           /\ Head(replies) \in Items(replies) /\ Head(replies).kind = kind
           /\ Items(replies) = Items(replies') \cup {Head(replies)}
           /\ \A n \in Items(replies') : Named \in Clients => n.id # Named
           /\ \A m \in Items(inbox) : Named \in Clients => ~Bears(m, Named)
<1>1. /\ inbox \in Seq(Called) /\ replies \in Seq(Returned) /\ replies # <<>>
      /\ replies' = Tail(replies) /\ Once(inbox, replies)
      /\ Head(replies).kind = kind
  BY DEF TypeOK, Replied, Messages
<1>2. /\ replies' \in Seq(Returned) /\ Head(replies) \in Returned
      /\ Items(replies) = Items(replies') \cup {Head(replies)}
  BY <1>1, ItemsTail
<1>3. Once(inbox, replies')
  BY <1>1, OnceReplied
<1>4. ASSUME Named \in Clients
      PROVE  /\ \A n \in Items(replies') : ~Bears(n, Named)
             /\ \A m \in Items(inbox) : ~Bears(m, Named)
  <2>1. Bears(Head(replies), Named)
    BY <1>2 DEF Bears, Named, Returned
  <2> QED
    BY <1>1, <1>2, <1>4, <2>1, SingleTail DEF Once
<1>5. \A n \in Items(replies') : n.kind # "reply"
  <2>1. ASSUME NEW i \in 1..Len(replies') PROVE replies'[i] \in Returned
    BY <1>2, ElementOfSeq
  <2> QED
    BY <2>1 DEF Items, Returned
<1> QED
  BY <1>1, <1>2, <1>3, <1>4, <1>5 DEF Bears

(* A steered message has no reply but "ok" and "refused".                   *)
LEMMA NotSteered ==
    ASSUME TypeOK, Messages, NEW kind, Replied(kind), Named \in steering
    PROVE  kind \in {"ok", "refused"} /\ ~IsAnswer
<1>1. Head(replies) \in Items(replies) /\ Head(replies).kind = kind
  BY Consumed
<1> QED
  BY <1>1 DEF Messages, SteerSound, Named, IsAnswer

(* Commands that send no message.                                           *)
LEMMA QuietCommand ==
    ASSUME TypeOK, TypeOK', Messages, NEW c \in Clients,
           \/ Unqueue(c) \/ Interrupt(c) \/ Stop(c)
           \/ \E r \in Requests : Reply(c, r)
           \/ \E q \in Questions : Answer(c, q) \/ Dismiss(c, q)
    PROVE  Messages'
<1> USE DEF Receipt, aside, outbox, codex, asks, messages, questions,
            turnends, history
<1>1. CASE Unqueue(c)
  BY <1>1, QuietStep DEF Unqueue, DropQueued
<1>2. CASE Stop(c)
  BY <1>2, QuietStep DEF Stop, DropQueued
<1>3. ASSUME NEW q \in Questions, Dismiss(c, q) PROVE Messages'
  BY <1>3, QuietStep DEF Dismiss
<1>4. ASSUME c \notin used PROVE ~Under(c)
  BY <1>4 DEF Messages, UnusedSound, Untouched
<1>5. CASE Interrupt(c)
  <2>1. [kind |-> "interrupt", id |-> c, turn |-> turn] \in Called
    BY <1>5 DEF Interrupt, Called, TypeOK
  <2>2. c \notin used /\ used' = used \cup {c}
    BY <1>5 DEF Interrupt, Submit
  <2>3. Write("interrupt", c, turn)
    BY <1>5 DEF Interrupt
  <2>4. /\ Items(inbox) \subseteq Items(inbox')
        /\ \A m \in Items(inbox') :
               m \in Items(inbox) \/ (m.kind = "interrupt" /\ m.id = c)
        /\ Once(inbox', replies)
    BY <1>4, <2>1, <2>2, <2>3, Written, WrittenOnce
  <2>5. /\ UNCHANGED <<replies, steering, taken, said, answering, alive, life>>
        /\ slot' = None
    BY <1>5 DEF Interrupt, DropQueued
  <2> QED
    BY <2>2, <2>4, <2>5, FrameStep
<1>6. ASSUME NEW q \in Questions, Answer(c, q) PROVE Messages'
  <2>1. [kind |-> "answer", id |-> c, turn |-> None] \in Called
    BY DEF Called
  <2>2. c \notin used /\ used' = used \cup {c}
    BY <1>6 DEF Answer, Submit
  <2>3. Write("answer", c, None)
    BY <1>6 DEF Answer
  <2>4. /\ Items(inbox) \subseteq Items(inbox')
        /\ \A m \in Items(inbox') :
               m \in Items(inbox) \/ (m.kind = "answer" /\ m.id = c)
        /\ Once(inbox', replies)
    BY <1>4, <2>1, <2>2, <2>3, Written, WrittenOnce
  <2>5. /\ UNCHANGED <<replies, steering, taken, said, slot, alive, life>>
        /\ \A d \in Clients : answering'[d] # None => answering[d] # None
                                                      \/ d = c
    BY <1>6 DEF Answer, TypeOK
  <2> QED
    BY <2>2, <2>4, <2>5, FrameStep
<1>7. ASSUME NEW r \in Requests, Reply(c, r) PROVE Messages'
  <2>1. [kind |-> "reply", id |-> r, turn |-> None] \in Called
    BY DEF Called
  <2>2. used' = used \cup {c}
    BY <1>7 DEF Reply
  <2>3. Write("reply", r, None)
    BY <1>7 DEF Reply
  <2>4. /\ Items(inbox) \subseteq Items(inbox')
        /\ \A m \in Items(inbox') : m \in Items(inbox) \/ m.kind = "reply"
        /\ Once(inbox', replies)
    BY <2>1, <2>3, Written, WrittenOnce
  <2>5. UNCHANGED <<replies, steering, taken, said, slot, answering, alive,
                    life>>
    BY <1>7 DEF Reply
  <2>6. \A m \in Items(inbox') :
            \/ m \in Items(inbox)
            \/ /\ m.kind \notin {"start", "steer", "answer"}
               /\ \A d \in Clients : ~Bears(m, d)
    BY <2>4 DEF Bears
  <2> QED
    BY <2>2, <2>4, <2>5, <2>6, FrameStep
<1> QED
  BY <1>1, <1>2, <1>3, <1>5, <1>6, <1>7

(* Answers that settle no steer.                                            *)
LEMMA QuietReply ==
    ASSUME TypeOK, TypeOK', Messages,
           \/ Greeted \/ ThreadReady \/ AnswerReplied \/ RequestRefused
           \/ DeadlineRefused \/ Unremarkable
    PROVE  Messages'
<1> USE DEF aside, outbox, codex, asks, messages, questions, turnends,
            history, memory
<1>1. ASSUME NEW kind, Replied(kind), Named \notin steering,
             UNCHANGED <<inbox, steering, taken, said, slot, used, life>>,
             alive' => alive,
             \A c \in Clients : answering'[c] # None => answering[c] # None
      PROVE  Messages'
  <2>1. /\ Once(inbox, replies') /\ Items(replies') \subseteq Items(replies)
        /\ \A n \in Items(replies) : n.id # Named => n \in Items(replies')
    BY <1>1, Consumed DEF Named
  <2>2. Once(inbox, replies)'
    BY <1>1, <2>1
  <2> QED
    BY <1>1, <2>1, <2>2, FrameStep
<1>2. CASE Greeted
  <2>1. PICK kind \in {"initialized", "authenticated", "unauthenticated"} :
            Replied(kind)
    BY <1>2 DEF Greeted
  <2>2. /\ \/ inbox' = inbox
           \/ Write("auth", None, None) \/ Write("thread", None, None)
        /\ UNCHANGED <<steering, taken, said, slot, used, life, answering>>
        /\ alive' => alive
    BY <1>2 DEF Greeted, Live, Fail
  <2>3. Named \notin steering
    BY <2>1, NotSteered
  <2>4. CASE inbox' = inbox
    BY <1>1, <2>1, <2>2, <2>3, <2>4
  <2>5. ASSUME NEW call \in {"auth", "thread"}, Write(call, None, None)
        PROVE  Messages'
    <3>1. [kind |-> call, id |-> None, turn |-> None] \in Called
      BY DEF Called
    <3>2. /\ Once(inbox, replies') /\ Items(replies') \subseteq Items(replies)
          /\ \A n \in Items(replies) : n.id # Named => n \in Items(replies')
      BY <2>1, Consumed DEF Named
    <3>3. /\ Items(inbox) \subseteq Items(inbox')
          /\ \A m \in Items(inbox') :
                 m \in Items(inbox) \/ (m.kind = call /\ m.id = None)
      BY <2>5, <3>1, Written
    <3>4. Once(inbox, replies)'
      <4>1. CASE inbox' = inbox
        BY <3>2, <4>1
      <4>2. CASE inbox' = Append(inbox, [kind |-> call, id |-> None,
                                         turn |-> None])
        <5>1. \A c \in Clients : ~Bears([kind |-> call, id |-> None,
                                         turn |-> None], c)
          BY CodexAssumption DEF Bears
        <5> QED
          BY <3>1, <3>2, <4>2, <5>1, OnceWritten DEF TypeOK
      <4> QED
        BY <2>5, <4>1, <4>2 DEF Write
    <3>5. \A m \in Items(inbox') :
              \/ m \in Items(inbox)
              \/ /\ m.kind \notin {"start", "steer", "answer"}
                 /\ \A c \in Clients : ~Bears(m, c)
      BY <3>3, CodexAssumption DEF Bears
    <3> QED
      BY <2>2, <2>3, <3>2, <3>3, <3>4, <3>5, FrameStep
  <2> QED
    BY <2>2, <2>4, <2>5
<1>3. CASE ThreadReady
  <2>1. Replied("threaded")
    BY <1>3 DEF ThreadReady
  <2> QED
    BY <1>1, <1>3, <2>1, NotSteered DEF ThreadReady, Fail
<1>4. CASE AnswerReplied
  <2>1. PICK kind : Replied(kind)
    BY <1>4 DEF AnswerReplied
  <2>2. Named \notin steering
    BY <1>4, <2>1, NotSteered DEF AnswerReplied
  <2>3. \A c \in Clients : answering'[c] # None => answering[c] # None
    BY <1>4 DEF AnswerReplied, TypeOK
  <2> QED
    BY <1>1, <1>4, <2>1, <2>2, <2>3 DEF AnswerReplied
<1>5. CASE RequestRefused
  <2>1. Replied("refused") /\ Named \notin steering
    BY <1>5 DEF RequestRefused
  <2>2. /\ UNCHANGED <<inbox, steering, taken, said, slot, used, life,
                       answering>>
        /\ alive' => alive
    BY <1>5 DEF RequestRefused, Fail
  <2> QED
    BY <1>1, <2>1, <2>2
<1>6. CASE DeadlineRefused
  <2>1. Replied("late")
    BY <1>6 DEF DeadlineRefused
  <2>2. /\ UNCHANGED <<inbox, steering, taken, said, slot, used, life,
                       answering>>
        /\ alive' => alive
    BY <1>6 DEF DeadlineRefused, Fail
  <2>3. Named \notin steering
    BY <2>1, NotSteered
  <2> QED
    BY <1>1, <2>1, <2>2, <2>3
<1>7. CASE Unremarkable
  BY <1>1, <1>7 DEF Unremarkable
<1> QED
  BY <1>2, <1>3, <1>4, <1>5, <1>6, <1>7

(* Reports: they touch the turn and what is pending.                        *)
LEMMA QuietNotice ==
    ASSUME TypeOK, TypeOK', Messages,
           \/ TurnStarted \/ TurnCompleted \/ Asked \/ Resolved \/ Wondered
    PROVE  Messages'
<1> USE QuietStep DEF Noticed, aside, codex, asks, messages, questions,
                      turnends, history
<1>1. CASE TurnStarted
  BY <1>1 DEF TurnStarted
<1>2. CASE TurnCompleted
  BY <1>2 DEF TurnCompleted
<1>3. CASE Asked
  BY <1>3 DEF Asked
<1>4. CASE Resolved
  BY <1>4 DEF Resolved
<1>5. CASE Wondered
  BY <1>5 DEF Wondered
<1> QED
  BY <1>1, <1>2, <1>3, <1>4, <1>5

(* The deadline, the end of the reader, and Codex on its own.               *)
LEMMA QuietRest ==
    ASSUME TypeOK, TypeOK', Messages,
           \/ DeadlinePasses \/ GraceEnds \/ Finish \/ HearsReply \/ Dies
           \/ \E t \in Clients : \/ Begins(t) \/ TakesUp(t) \/ Completes(t)
                                 \/ Repeats(t)
           \/ \E r \in Requests : Asks(r) \/ Withdraws(r)
           \/ \E q \in Questions : Poses(q)
           \/ UNCHANGED vars
    PROVE  Messages'
<1> USE DEF aside, outbox, memory, codex, asks, messages, questions,
            turnends, history
<1>1. CASE DeadlinePasses
  <2>1. [kind |-> "deadline", id |-> None, turn |-> turn] \in Called
    BY <1>1 DEF DeadlinePasses, Watched, Called, TypeOK
  <2>2. Write("deadline", None, turn)
    BY <1>1 DEF DeadlinePasses
  <2>3. /\ Items(inbox) \subseteq Items(inbox')
        /\ \A m \in Items(inbox') :
               m \in Items(inbox) \/ (m.kind = "deadline" /\ m.id = None)
    BY <2>1, <2>2, Written
  <2>4. UNCHANGED <<replies, steering, taken, said, slot, answering, alive,
                    life, used>>
    BY <1>1 DEF DeadlinePasses
  <2>5. Once(inbox, replies)'
    BY <2>1, <2>2, <2>4, WrittenOnce, CodexAssumption
  <2>6. \A m \in Items(inbox') :
            \/ m \in Items(inbox)
            \/ /\ m.kind \notin {"start", "steer", "answer"}
               /\ \A d \in Clients : ~Bears(m, d)
    BY <2>3, CodexAssumption DEF Bears
  <2> QED
    BY <2>3, <2>4, <2>5, <2>6, FrameStep
<1>2. CASE GraceEnds
  BY <1>2, QuietStep DEF GraceEnds
<1>3. CASE Finish
  BY <1>3, QuietStep DEF Finish
<1>4. CASE HearsReply
  <2>1. /\ inbox # <<>> /\ inbox' = Tail(inbox) /\ Head(inbox).kind = "reply"
        /\ inbox \in Seq(Called) /\ replies \in Seq(Returned)
        /\ Once(inbox, replies)
    BY <1>4 DEF HearsReply, Reads, TypeOK, Messages
  <2>2. Once(inbox', replies)
    BY <2>1, OnceRead
  <2>3. Items(inbox) = Items(inbox') \cup {Head(inbox)}
    BY <2>1, ItemsTail
  <2>4. UNCHANGED <<replies, steering, taken, said, slot, answering, alive,
                    life, used>>
    BY <1>4 DEF HearsReply
  <2>5. \A m \in Items(inbox) : m.kind = "start" => m \in Items(inbox')
    BY <2>1, <2>3
  <2> QED
    BY <2>2, <2>3, <2>4, <2>5, FrameStep
<1>5. CASE Dies
  BY <1>5, QuietStep DEF Dies
<1>6. ASSUME NEW t \in Clients,
             Begins(t) \/ TakesUp(t) \/ Completes(t) \/ Repeats(t)
      PROVE  Messages'
  <2>1. /\ UNCHANGED <<inbox, replies, steering, taken, said, slot, answering,
                       alive, used>>
        /\ life[t] # "refused"
        /\ \E l : life' = [life EXCEPT ![t] = l]
    BY <1>6 DEF Begins, TakesUp, Completes, Repeats
  <2>2. \A c \in Clients : life[c] = "refused" => life'[c] = "refused"
    BY <2>1 DEF TypeOK
  <2> QED
    BY <2>1, <2>2, QuietStep
<1>7. ASSUME NEW r \in Requests, Asks(r) \/ Withdraws(r) PROVE Messages'
  BY <1>7, QuietStep DEF Asks, Withdraws
<1>8. ASSUME NEW q \in Questions, Poses(q) PROVE Messages'
  BY <1>8, QuietStep DEF Poses
<1>9. CASE UNCHANGED vars
  BY <1>9, QuietStep DEF vars
<1> QED
  BY <1>1, <1>2, <1>3, <1>4, <1>5, <1>6, <1>7, <1>8, <1>9

-----------------------------------------------------------------------------
(* Steps that move a message.                                               *)

(* A message starts a turn: it is said before it is written.                *)
LEMMA StartStep ==
    ASSUME TypeOK, TypeOK', Messages, NEW c \in Clients,
           Untouched(c), c \notin steering, slot \in {None, c},
           used' = used \cup {c}, LogInput(c), Write("start", c, None),
           UNCHANGED <<replies, steering, taken, alive, life, answering>>
    PROVE  Messages'
<1> DEFINE m == [kind |-> "start", id |-> c, turn |-> None]
<1>1. m \in Called
  BY DEF Called
<1>2. /\ Items(inbox) \subseteq Items(inbox')
      /\ \A k \in Items(inbox') :
             k \in Items(inbox) \/ (k.kind = "start" /\ k.id = c)
      /\ alive => m \in Items(inbox')
  BY <1>1, Written
<1>3. Once(inbox, replies)'
  BY <1>1, WrittenOnce DEF Untouched
<1>4. /\ said' = [said EXCEPT ![c] = 1] /\ slot' = None
      /\ said[c] = 0 /\ taken[c] = 0 /\ ~Under(c)
  BY DEF LogInput, Untouched, TypeOK
<1>5. \A d \in Clients : Under(d)' => Under(d) \/ d = c
  BY <1>2 DEF Under, Bears
<1>6. UnusedSound'
  BY <1>4, <1>5, CodexAssumption
  DEF Messages, UnusedSound, Untouched, TypeOK
<1>7. SlotSound'
  BY <1>4, CodexAssumption DEF SlotSound
<1>8. SteerSound'
  <2> SUFFICES ASSUME NEW d \in steering
               PROVE  /\ said'[d] = 0 /\ answering'[d] = None /\ d \in used'
                      /\ \A k \in Items(inbox') :
                             Bears(k, d) => k.kind = "steer"
                      /\ \A n \in Items(replies') : n.id = d =>
                             \/ n.kind = "ok" /\ taken'[d] = 1
                             \/ n.kind = "refused" /\ taken'[d] = 0
                      /\ taken'[d] > 0 => \E n \in Items(replies') :
                             n.kind = "ok" /\ n.id = d
    BY DEF SteerSound, Items, Bears
  <2>1. d # c /\ d \in Clients
    BY DEF TypeOK
  <2>2. said'[d] = said[d]
    BY <1>4, <2>1 DEF TypeOK
  <2> QED
    BY <1>2, <2>1, <2>2 DEF Messages, SteerSound, Bears
<1>9. InboxSound'
  <2> SUFFICES ASSUME NEW k \in Items(inbox')
               PROVE  /\ k.kind = "start" =>
                             said'[k.id] = 1 /\ taken'[k.id] = 0
                      /\ k.kind = "steer" =>
                             k.id \in steering' /\ taken'[k.id] = 0
                      /\ k.kind = "answer" => said'[k.id] = 0
    BY DEF InboxSound, Items
  <2>1. CASE k.id = c
    <3>1. k.kind # "reply" => k \notin Items(inbox)
      BY <1>4, <2>1 DEF Under, Bears
    <3> QED
      BY <1>2, <1>4, <2>1, <3>1 DEF TypeOK
  <2>2. CASE k.id # c
    <3>1. k \in Items(inbox) /\ said'[k.id] = said[k.id]
      BY <1>2, <1>4, <2>2 DEF TypeOK
    <3> QED
      BY <3>1 DEF Messages, InboxSound
  <2> QED
    BY <2>1, <2>2
<1>10. SaidSound'
  <2> SUFFICES ASSUME NEW d \in Clients
               PROVE  /\ said'[d] <= 1 /\ taken'[d] <= 1
                      /\ taken'[d] > 0 => said'[d] = 1 \/ d \in steering'
                      /\ said'[d] = 1 /\ alive' /\ taken'[d] = 0 =>
                             \/ life'[d] = "refused"
                             \/ \E k \in Items(inbox') :
                                    k.kind = "start" /\ k.id = d
    BY DEF SaidSound, Items
  <2>1. CASE d = c
    <3>1. m.kind = "start" /\ m.id = c
      OBVIOUS
    <3> HIDE DEF m
    <3> QED
      BY <1>2, <1>4, <2>1, <3>1 DEF TypeOK
  <2>2. CASE d # c
    <3>1. said'[d] = said[d]
      BY <1>4, <2>2 DEF TypeOK
    <3> QED
      BY <1>2, <3>1 DEF Messages, SaidSound
  <2> QED
    BY <2>1, <2>2
<1> QED
  BY <1>3, <1>6, <1>7, <1>8, <1>9, <1>10 DEF Messages

(* A message is steered: it waits, and is not said yet.                     *)
LEMMA SteerStep ==
    ASSUME TypeOK, TypeOK', Messages, NEW c \in Clients, SendSteer(c)
    PROVE  Messages'
<1> USE DEF aside, outbox, codex, asks, questions, turnends
<1> DEFINE m == [kind |-> "steer", id |-> c, turn |-> turn]
<1>1. /\ c \notin used /\ used' = used \cup {c} /\ slot' = c
      /\ steering' = steering \cup {c} /\ Write("steer", c, turn)
      /\ UNCHANGED <<replies, taken, said, alive, life, answering>>
      /\ turn \in Clients
  BY DEF SendSteer, Submit, Receipt, HoldSteered, TypeOK
<1>2. /\ Untouched(c) /\ c \notin steering /\ answering[c] = None
  BY <1>1 DEF Messages, UnusedSound
<1>3. m \in Called
  BY <1>1 DEF Called
<1>4. /\ Items(inbox) \subseteq Items(inbox')
      /\ \A k \in Items(inbox') :
             k \in Items(inbox) \/ (k.kind = "steer" /\ k.id = c)
  BY <1>1, <1>3, Written
<1>5. Once(inbox, replies)'
  BY <1>1, <1>2, <1>3, WrittenOnce DEF Untouched
<1>6. \A d \in Clients : Under(d)' => Under(d) \/ d = c
  BY <1>1, <1>4 DEF Under, Bears
<1>7. UnusedSound'
  BY <1>1, <1>6 DEF Messages, UnusedSound, Untouched
<1>8. SlotSound'
  BY <1>1 DEF SlotSound
<1>9. SteerSound'
  <2> SUFFICES ASSUME NEW d \in steering'
               PROVE  /\ said'[d] = 0 /\ answering'[d] = None /\ d \in used'
                      /\ \A k \in Items(inbox') :
                             Bears(k, d) => k.kind = "steer"
                      /\ \A n \in Items(replies') : n.id = d =>
                             \/ n.kind = "ok" /\ taken'[d] = 1
                             \/ n.kind = "refused" /\ taken'[d] = 0
                      /\ taken'[d] > 0 => \E n \in Items(replies') :
                             n.kind = "ok" /\ n.id = d
    BY DEF SteerSound, Items, Bears
  <2>1. CASE d = c
    <3>1. \A n \in Items(replies) : n.kind # "reply"
      <4>1. ASSUME NEW i \in 1..Len(replies) PROVE replies[i] \in Returned
        BY ElementOfSeq DEF TypeOK
      <4> QED
        BY <4>1 DEF Items, Returned
    <3>2. \A n \in Items(replies) : n.id # c
      BY <1>2, <3>1 DEF Untouched, Under, Bears
    <3>3. \A k \in Items(inbox) : ~Bears(k, c)
      BY <1>2 DEF Untouched, Under
    <3> QED
      BY <1>1, <1>2, <1>4, <2>1, <3>2, <3>3 DEF Untouched
  <2>2. CASE d \in steering /\ d # c
    BY <1>1, <1>4, <2>2 DEF Messages, SteerSound, Bears
  <2> QED
    BY <1>1, <2>1, <2>2
<1>10. InboxSound'
  <2> SUFFICES ASSUME NEW k \in Items(inbox')
               PROVE  /\ k.kind = "start" =>
                             said'[k.id] = 1 /\ taken'[k.id] = 0
                      /\ k.kind = "steer" =>
                             k.id \in steering' /\ taken'[k.id] = 0
                      /\ k.kind = "answer" => said'[k.id] = 0
    BY DEF InboxSound, Items
  <2>1. CASE k \in Items(inbox)
    BY <1>1, <2>1 DEF Messages, InboxSound
  <2>2. CASE k.kind = "steer" /\ k.id = c
    BY <1>1, <1>2, <2>2 DEF Untouched
  <2> QED
    BY <1>4, <2>1, <2>2
<1>11. SaidSound'
  <2> SUFFICES ASSUME NEW d \in Clients
               PROVE  /\ said'[d] <= 1 /\ taken'[d] <= 1
                      /\ taken'[d] > 0 => said'[d] = 1 \/ d \in steering'
                      /\ said'[d] = 1 /\ alive' /\ taken'[d] = 0 =>
                             \/ life'[d] = "refused"
                             \/ \E k \in Items(inbox') :
                                    k.kind = "start" /\ k.id = d
    BY DEF SaidSound, Items
  <2> QED
    BY <1>1, <1>4 DEF Messages, SaidSound
<1> QED
  BY <1>5, <1>7, <1>8, <1>9, <1>10, <1>11 DEF Messages

(* The commands that send a message.                                        *)
LEMMA CommandStep ==
    ASSUME TypeOK, TypeOK', Messages, NEW c \in Clients,
           SendStart(c) \/ SendSteer(c) \/ SendLater(c)
    PROVE  Messages'
<1> USE DEF aside, outbox, codex, asks, questions, turnends
<1>1. c \notin used /\ used' = used \cup {c} /\ slot = None
  BY DEF SendStart, SendSteer, SendLater, Submit, Receipt
<1>2. Untouched(c) /\ c \notin steering
  BY <1>1 DEF Messages, UnusedSound
<1>3. CASE SendStart(c)
  BY <1>1, <1>2, <1>3, StartStep DEF SendStart, Start
<1>4. CASE SendLater(c)
  <2>1. /\ UNCHANGED <<inbox, replies, steering, taken, said, alive, life,
                       answering>>
        /\ slot' = c
    BY <1>4 DEF SendLater
  <2>2. Under(c)' = Under(c) /\ \A d \in Clients : Under(d)' = Under(d)
    BY <2>1 DEF Under
  <2>3. UnusedSound' /\ SlotSound'
    BY <1>1, <1>2, <2>1, <2>2
    DEF Messages, UnusedSound, SlotSound, Untouched
  <2>4. SteerSound' /\ InboxSound' /\ SaidSound' /\ Once(inbox, replies)'
    BY <1>1, <2>1
    DEF Messages, SteerSound, InboxSound, SaidSound, Items, Bears
  <2> QED
    BY <2>3, <2>4 DEF Messages
<1> QED
  BY <1>3, <1>4, SteerStep

-----------------------------------------------------------------------------
(* Steps of Codex that answer a request.                                    *)

(* What is read was in the pipe once, and its answer takes its place.       *)
LEMMA ReadOnce ==
    ASSUME TypeOK, Messages, inbox # <<>>, inbox' = Tail(inbox),
           Wanted.kind # "reply",
           NEW k, [kind |-> k, id |-> Wanted.id] \in Returned,
           Replies(k, Wanted.id)
    PROVE  /\ Once(inbox', replies')
           /\ Items(inbox) = Items(inbox') \cup {Wanted}
           /\ Items(replies') = Items(replies)
                  \cup {[kind |-> k, id |-> Wanted.id]}
           /\ Wanted \in Called
           /\ \A c \in Clients : Bears(Wanted, c) =>
                  \A n \in Items(inbox') \cup Items(replies) : ~Bears(n, c)
           /\ \A m \in Items(inbox') : m \in Called
           /\ \A n \in Items(replies) : n.kind # "reply"
<1> DEFINE new == [kind |-> k, id |-> Wanted.id]
<1>1. /\ inbox \in Seq(Called) /\ replies \in Seq(Returned)
      /\ Once(inbox, replies) /\ inbox # <<>> /\ Wanted = Head(inbox)
      /\ replies' = Append(replies, new) /\ new \in Returned
  BY DEF TypeOK, Messages, Wanted, Replies
<1>2. /\ Items(inbox) = Items(inbox') \cup {Wanted}
      /\ inbox' \in Seq(Called) /\ Wanted \in Called
  BY <1>1, ItemsTail
<1>3. Items(replies') = Items(replies) \cup {new}
  BY <1>1, ItemsAppend
<1>4. \A c \in Clients : Bears(new, c) => Bears(Wanted, c)
  BY DEF Bears
<1>5. Once(inbox', replies')
  <2> HIDE DEF new
  <2> QED
    BY <1>1, <1>4, OnceRead
<1>6. ASSUME NEW c \in Clients, Bears(Wanted, c)
      PROVE  \A n \in Items(inbox') \cup Items(replies) : ~Bears(n, c)
  <2>1. \A n \in Items(replies) : ~Bears(n, c)
    BY <1>1, <1>2, <1>6 DEF Once
  <2>2. \A n \in Items(inbox') : ~Bears(n, c)
    BY <1>1, <1>6, SingleTail DEF Once
  <2> QED
    BY <2>1, <2>2
<1>7. \A m \in Items(inbox') : m \in Called
  <2>1. ASSUME NEW i \in 1..Len(inbox') PROVE inbox'[i] \in Called
    BY <1>2, ElementOfSeq
  <2> QED
    BY <2>1 DEF Items
<1>8. \A n \in Items(replies) : n.kind # "reply"
  <2>1. ASSUME NEW i \in 1..Len(replies) PROVE replies[i] \in Returned
    BY <1>1, ElementOfSeq
  <2> QED
    BY <2>1 DEF Items, Returned
<1> QED
  BY <1>2, <1>3, <1>5, <1>6, <1>7, <1>8

(* A message is taken with "ok", and only then.                             *)
LEMMA ReadStep ==
    ASSUME TypeOK, TypeOK', Messages, inbox # <<>>, inbox' = Tail(inbox),
           Wanted.kind # "reply",
           NEW k, [kind |-> k, id |-> Wanted.id] \in Returned,
           Replies(k, Wanted.id),
           UNCHANGED <<slot, steering, said, used, alive, answering>>,
           \/ /\ Wanted.kind \in {"start", "steer"} /\ k = "ok"
              /\ taken' = [taken EXCEPT ![Wanted.id] = @ + 1]
           \/ /\ taken' = taken
              /\ Wanted.kind = "steer" => k = "refused"
              /\ Wanted.kind = "start" => life'[Wanted.id] = "refused",
           \A c \in Clients :
               life[c] = "refused" /\ said[c] = 1 =>
                   \/ life'[c] = "refused"
                   \/ Wanted.kind = "start" /\ c = Wanted.id
    PROVE  Messages'
<1> DEFINE new == [kind |-> k, id |-> Wanted.id]
<1>1. /\ Once(inbox', replies')
      /\ Items(inbox) = Items(inbox') \cup {Wanted}
      /\ Items(replies') = Items(replies) \cup {new}
      /\ Wanted \in Called
      /\ \A c \in Clients : Bears(Wanted, c) =>
             \A n \in Items(inbox') \cup Items(replies) : ~Bears(n, c)
      /\ \A m \in Items(inbox') : m \in Called
      /\ \A n \in Items(replies) : n.kind # "reply"
  BY ReadOnce
<1>2. new.kind = k /\ new.id = Wanted.id
  OBVIOUS
<1> HIDE DEF new
<1>3. \A c \in Clients : c # Wanted.id => taken'[c] = taken[c]
  BY DEF TypeOK
<1>4. /\ Wanted.kind \in {"start", "steer"} => Wanted.id \in Clients
                                               /\ taken[Wanted.id] = 0
      /\ Wanted.kind = "start" => said[Wanted.id] = 1
      /\ Wanted.kind = "steer" => Wanted.id \in steering
  BY <1>1 DEF Messages, InboxSound, Called
<1>5. \/ Wanted.kind \in {"start", "steer"} /\ k = "ok"
         /\ taken'[Wanted.id] = 1
      \/ /\ taken' = taken
         /\ Wanted.kind = "steer" => k = "refused"
         /\ Wanted.kind = "start" => life'[Wanted.id] = "refused"
  BY <1>4 DEF TypeOK
<1>6. \A c \in Clients : Under(c)' => Under(c)
  BY <1>1, <1>2 DEF Under, Bears
<1>7. \A c \in Clients : Untouched(c) => Untouched(c)'
  <2> SUFFICES ASSUME NEW c \in Clients, Untouched(c) PROVE Untouched(c)'
    OBVIOUS
  <2>1. ~Bears(Wanted, c)
    BY <1>1 DEF Untouched, Under
  <2>2. c # Wanted.id
    BY <2>1 DEF Bears
  <2> QED
    BY <1>3, <1>6, <2>2 DEF Untouched
<1>8. UnusedSound'
  BY <1>7 DEF Messages, UnusedSound
<1>9. SlotSound'
  BY <1>7 DEF Messages, SlotSound
<1>10. SteerSound'
  <2> SUFFICES ASSUME NEW c \in steering
               PROVE  /\ said'[c] = 0 /\ answering'[c] = None /\ c \in used'
                      /\ \A m \in Items(inbox') :
                             Bears(m, c) => m.kind = "steer"
                      /\ \A n \in Items(replies') : n.id = c =>
                             \/ n.kind = "ok" /\ taken'[c] = 1
                             \/ n.kind = "refused" /\ taken'[c] = 0
                      /\ taken'[c] > 0 => \E n \in Items(replies') :
                             n.kind = "ok" /\ n.id = c
    BY DEF SteerSound, Items, Bears
  <2>1. /\ c \in Clients /\ said'[c] = 0 /\ answering'[c] = None
        /\ c \in used'
        /\ \A m \in Items(inbox) : Bears(m, c) => m.kind = "steer"
    BY DEF Messages, SteerSound, TypeOK
  <2>2. \A m \in Items(inbox') : Bears(m, c) => m.kind = "steer"
    BY <1>1, <2>1
  <2>3. CASE Wanted.id = c
    <3>1. Bears(Wanted, c) /\ Wanted.kind = "steer"
      BY <1>1, <2>1, <2>3 DEF Bears
    <3>2. \A n \in Items(replies) : n.id # c
      BY <1>1, <2>1, <3>1 DEF Bears
    <3>3. \A n \in Items(replies') : n.id = c => n = new
      BY <1>1, <3>2
    <3>4. \/ k = "ok" /\ taken'[c] = 1
          \/ k = "refused" /\ taken'[c] = 0
      BY <1>4, <1>5, <2>3, <3>1
    <3> QED
      BY <1>1, <1>2, <2>1, <2>2, <2>3, <3>3, <3>4
  <2>4. CASE Wanted.id # c
    <3>1. taken'[c] = taken[c]
      BY <1>3, <2>1, <2>4
    <3>2. \A n \in Items(replies') : n.id = c => n \in Items(replies)
      BY <1>1, <1>2, <2>4
    <3>3. /\ \A n \in Items(replies) : n.id = c =>
                 \/ n.kind = "ok" /\ taken[c] = 1
                 \/ n.kind = "refused" /\ taken[c] = 0
          /\ taken[c] > 0 =>
                 \E n \in Items(replies) : n.kind = "ok" /\ n.id = c
      BY DEF Messages, SteerSound
    <3>4. \A n \in Items(replies) : n \in Items(replies')
      BY <1>1
    <3>5. taken'[c] > 0 => \E n \in Items(replies') :
                               n.kind = "ok" /\ n.id = c
      BY <3>1, <3>3, <3>4
    <3> QED
      BY <2>1, <2>2, <3>1, <3>2, <3>3, <3>5
  <2> QED
    BY <2>3, <2>4
<1>11. InboxSound'
  <2> SUFFICES ASSUME NEW m \in Items(inbox')
               PROVE  /\ m.kind = "start" =>
                             said'[m.id] = 1 /\ taken'[m.id] = 0
                      /\ m.kind = "steer" =>
                             m.id \in steering' /\ taken'[m.id] = 0
                      /\ m.kind = "answer" => said'[m.id] = 0
    BY DEF InboxSound, Items
  <2>1. m \in Items(inbox) /\ m \in Called
    BY <1>1
  <2>2. ASSUME m.kind \in {"start", "steer"}
        PROVE  m.id \in Clients /\ m.id # Wanted.id
    <3>1. m.id \in Clients /\ Bears(m, m.id)
      BY <2>1, <2>2 DEF Called, Bears
    <3>2. ~Bears(Wanted, m.id)
      BY <1>1, <3>1
    <3> QED
      BY <3>1, <3>2 DEF Bears
  <2> QED
    BY <1>3, <2>1, <2>2 DEF Messages, InboxSound
<1>12. SaidSound'
  <2> SUFFICES ASSUME NEW c \in Clients
               PROVE  /\ said'[c] <= 1 /\ taken'[c] <= 1
                      /\ taken'[c] > 0 => said'[c] = 1 \/ c \in steering'
                      /\ said'[c] = 1 /\ alive' /\ taken'[c] = 0 =>
                             \/ life'[c] = "refused"
                             \/ \E m \in Items(inbox') :
                                    m.kind = "start" /\ m.id = c
    BY DEF SaidSound, Items
  <2>1. /\ said[c] <= 1 /\ taken[c] <= 1
        /\ taken[c] > 0 => said[c] = 1 \/ c \in steering
        /\ said[c] = 1 /\ alive /\ taken[c] = 0 =>
               \/ life[c] = "refused"
               \/ \E m \in Items(inbox) : m.kind = "start" /\ m.id = c
    BY DEF Messages, SaidSound
  <2>2. CASE c # Wanted.id
    BY <1>1, <1>3, <2>1, <2>2
  <2>3. CASE c = Wanted.id /\ taken'[Wanted.id] = 1
             /\ Wanted.kind \in {"start", "steer"}
    BY <1>4, <2>1, <2>3
  <2>4. CASE c = Wanted.id /\ taken' = taken
             /\ (Wanted.kind = "start" => life'[Wanted.id] = "refused")
    BY <1>1, <2>1, <2>4
  <2> QED
    BY <1>5, <2>2, <2>3, <2>4
<1> QED
  BY <1>1, <1>8, <1>9, <1>10, <1>11, <1>12 DEF Messages

(* Every request Codex reads.                                               *)
LEMMA CodexStep ==
    ASSUME TypeOK, TypeOK', Messages, Read
    PROVE  Messages'
<1> USE DEF memory, aside, outbox, codex, asks, messages, questions,
            turnends, history
<1>1. ASSUME NEW kind, Reads(kind)
      PROVE  /\ inbox # <<>> /\ inbox' = Tail(inbox)
             /\ Wanted \in Called /\ Wanted.kind = kind
  BY <1>1, HeadTailProperties DEF Reads, Wanted, TypeOK
<1>2. CASE Greets
  <2>1. PICK kind \in {"initialize", "auth", "thread"},
             k \in {"initialized", "authenticated", "threaded",
                    "unauthenticated", "refused"} :
            Reads(kind) /\ Replies(k, None)
    BY <1>2 DEF Greets
  <2>2. Wanted.id = None /\ [kind |-> k, id |-> Wanted.id] \in Returned
    BY <1>1, <2>1 DEF Called, Returned
  <2>3. UNCHANGED <<slot, steering, said, used, alive, answering, taken, life>>
    BY <1>2 DEF Greets
  <2> QED
    BY <1>1, <2>1, <2>2, <2>3, ReadStep
<1>3. CASE Accepts
  <2>1. /\ Wanted.kind = "start" /\ Replies("ok", Wanted.id)
        /\ [kind |-> "ok", id |-> Wanted.id] \in Returned
    BY <1>1, <1>3 DEF Accepts, Called, Returned
  <2>2. /\ UNCHANGED <<slot, steering, said, used, alive, answering>>
        /\ taken' = [taken EXCEPT ![Wanted.id] = @ + 1]
        /\ \A c \in Clients : c # Wanted.id => life'[c] = life[c]
    BY <1>3 DEF Accepts, TypeOK
  <2> QED
    BY <1>1, <1>3, <2>1, <2>2, ReadStep DEF Accepts
<1>4. CASE Refuses
  <2>1. /\ Wanted.kind = "start" /\ Replies("refused", Wanted.id)
        /\ [kind |-> "refused", id |-> Wanted.id] \in Returned
        /\ Wanted.id \in Clients
    BY <1>1, <1>4 DEF Refuses, Called, Returned
  <2>2. /\ UNCHANGED <<slot, steering, said, used, alive, answering, taken>>
        /\ \A c \in Clients : c # Wanted.id => life'[c] = life[c]
        /\ life'[Wanted.id] = "refused"
    BY <1>4, <2>1 DEF Refuses, TypeOK
  <2> QED
    BY <1>1, <1>4, <2>1, <2>2, ReadStep DEF Refuses
<1>5. CASE Steers
  <2>1. Wanted.kind = "steer" /\ Wanted.id \in Clients
    BY <1>1, <1>5 DEF Steers, Called
  <2>2. UNCHANGED <<slot, steering, said, used, alive, answering, life>>
    BY <1>5 DEF Steers
  <2>3. PICK k \in {"ok", "refused"} :
            /\ Replies(k, Wanted.id)
            /\ \/ k = "ok" /\ taken' = [taken EXCEPT ![Wanted.id] = @ + 1]
               \/ k = "refused" /\ taken' = taken
    BY <1>5 DEF Steers
  <2>4. [kind |-> k, id |-> Wanted.id] \in Returned
    BY <2>1 DEF Returned
  <2> QED
    BY <1>1, <1>5, <2>1, <2>2, <2>3, <2>4, ReadStep DEF Steers
<1>6. CASE Interrupts
  <2>1. PICK kind \in {"interrupt", "deadline"} : Reads(kind)
    BY <1>6 DEF Interrupts
  <2>2. PICK k \in {"ok", "late", "refused"} : Replies(k, Wanted.id)
    BY <1>6 DEF Interrupts
  <2>3. /\ Wanted.kind = kind /\ Wanted.turn \in Clients
        /\ [kind |-> k, id |-> Wanted.id] \in Returned
    BY <1>1, <2>1 DEF Called, Returned
  <2>4. UNCHANGED <<slot, steering, said, used, alive, answering, taken>>
    BY <1>6 DEF Interrupts
  <2>5. \A c \in Clients : life[c] = "refused" => life'[c] = "refused"
    BY <1>6, <2>3 DEF Interrupts, TypeOK
  <2> QED
    BY <1>1, <2>1, <2>2, <2>3, <2>4, <2>5, ReadStep
<1>7. CASE HearsAnswer
  <2>1. Wanted.kind = "answer" /\ Wanted.id \in Clients
    BY <1>1, <1>7 DEF HearsAnswer, Called
  <2>2. UNCHANGED <<slot, steering, said, used, alive, answering, taken>>
    BY <1>7 DEF HearsAnswer
  <2>3. PICK k \in {"ok", "refused"} : Replies(k, Wanted.id)
    BY <1>7 DEF HearsAnswer
  <2>4. [kind |-> k, id |-> Wanted.id] \in Returned
    BY <2>1 DEF Returned
  <2>5. CASE life' = life
    BY <1>1, <1>7, <2>1, <2>2, <2>3, <2>4, <2>5, ReadStep DEF HearsAnswer
  <2>6. CASE life' = [life EXCEPT ![Wanted.id] = "held"]
    <3>1. said[Wanted.id] = 0
      <4>1. inbox \in Seq(Called) /\ inbox # <<>> /\ Wanted = Head(inbox)
        BY <1>1, <1>7 DEF HearsAnswer, Wanted, TypeOK
      <4>2. Wanted \in Items(inbox)
        BY <4>1, ItemsTail
      <4> QED
        BY <2>1, <4>2 DEF Messages, InboxSound
    <3>2. \A c \in Clients : life[c] = "refused" /\ said[c] = 1 =>
                                 life'[c] = "refused"
      BY <2>6, <3>1 DEF TypeOK
    <3> QED
      BY <1>1, <1>7, <2>1, <2>2, <2>3, <2>4, <3>2, ReadStep DEF HearsAnswer
  <2> QED
    BY <1>7, <2>5, <2>6 DEF HearsAnswer
<1> QED
  BY <1>2, <1>3, <1>4, <1>5, <1>6, <1>7, QuietRest DEF Read

-----------------------------------------------------------------------------
(* Answers to a steer, and the delivery of what waits.                      *)

(* What the two answers share: the message leaves steering, and its answer  *)
(* leaves the pipe.                                                         *)
LEMMA Settled ==
    ASSUME TypeOK, TypeOK', Messages, NEW kind, Replied(kind),
           NEW s \in steering, s = Named, steering' = steering \ {Named},
           UNCHANGED <<inbox, taken, used, answering, alive, life>>,
           \A c \in Clients : c # Named => said'[c] = said[c],
           slot' \in {slot, None}
    PROVE  /\ Once(inbox, replies)' /\ UnusedSound' /\ SteerSound'
           /\ ~Under(s)'
           /\ \A c \in Clients : Untouched(c) => Untouched(c)'
<1>1. Named \in Clients
  BY DEF TypeOK
<1>2. /\ Once(inbox, replies') /\ Items(replies') \subseteq Items(replies)
      /\ Head(replies) \in Items(replies) /\ Head(replies).kind = kind
      /\ Items(replies) = Items(replies') \cup {Head(replies)}
      /\ \A n \in Items(replies') : n.id # Named
      /\ \A m \in Items(inbox) : ~Bears(m, Named)
  BY <1>1, Consumed
<1>3. Once(inbox, replies)'
  BY <1>2
<1>4. Items(inbox') = Items(inbox)
  OBVIOUS
<1>5. ~Under(s)'
  BY <1>2, <1>4 DEF Under, Bears
<1>6. \A c \in Clients : Under(c)' => Under(c)
  BY <1>2, <1>4 DEF Under
<1>7. Under(Named)
  <2>1. Head(replies).kind # "reply" /\ Head(replies).id = Named
    BY <1>2, NotSteered DEF Named
  <2> QED
    BY <1>2, <2>1 DEF Under, Bears
<1>8. \A c \in Clients : Untouched(c) => Untouched(c)'
  BY <1>6, <1>7 DEF Untouched
<1>9. UnusedSound'
  BY <1>8, CodexAssumption DEF Messages, UnusedSound
<1>10. SteerSound'
  <2> SUFFICES ASSUME NEW c \in steering, c # Named
               PROVE  /\ said'[c] = 0 /\ answering'[c] = None /\ c \in used'
                      /\ \A m \in Items(inbox') :
                             Bears(m, c) => m.kind = "steer"
                      /\ \A n \in Items(replies') : n.id = c =>
                             \/ n.kind = "ok" /\ taken'[c] = 1
                             \/ n.kind = "refused" /\ taken'[c] = 0
                      /\ taken'[c] > 0 => \E n \in Items(replies') :
                             n.kind = "ok" /\ n.id = c
    BY DEF SteerSound, Items, Bears
  <2>1. /\ said[c] = 0 /\ answering[c] = None /\ c \in used
        /\ \A m \in Items(inbox) : Bears(m, c) => m.kind = "steer"
        /\ \A n \in Items(replies) : n.id = c =>
               \/ n.kind = "ok" /\ taken[c] = 1
               \/ n.kind = "refused" /\ taken[c] = 0
        /\ taken[c] > 0 => \E n \in Items(replies) :
               n.kind = "ok" /\ n.id = c
    BY DEF Messages, SteerSound
  <2>2. c \in Clients
    BY DEF TypeOK
  <2>3. \A n \in Items(replies) : n.id = c => n \in Items(replies')
    BY <1>2 DEF Named
  <2> QED
    BY <1>2, <1>4, <2>1, <2>2, <2>3
<1> QED
  BY <1>3, <1>5, <1>8, <1>9, <1>10

(* A steer that was taken is said.                                          *)
LEMMA SteerTakenStep ==
    ASSUME TypeOK, TypeOK', Messages, SteerTaken
    PROVE  Messages'
<1> USE DEF aside, outbox, codex, asks, messages, questions, turnends
<1>1. /\ Replied("ok") /\ Named \in steering /\ Named \in Clients
      /\ steering' = steering \ {Named} /\ LogInput(Named)
      /\ UNCHANGED <<inbox, taken, used, answering, alive, life>>
  BY DEF SteerTaken, Answered, TypeOK
<1>2. Head(replies) \in Items(replies) /\ Head(replies).kind = "ok"
  BY <1>1, Consumed
<1>3. said[Named] = 0 /\ taken[Named] = 1
  BY <1>1, <1>2 DEF Messages, SteerSound, Named
<1>4. /\ said'[Named] = 1
      /\ \A c \in Clients : c # Named => said'[c] = said[c]
      /\ slot' = IF slot = Named THEN None ELSE slot
  BY <1>1, <1>3 DEF LogInput, TypeOK
<1>5. /\ Once(inbox, replies)' /\ UnusedSound' /\ SteerSound'
      /\ \A c \in Clients : Untouched(c) => Untouched(c)'
  BY <1>1, <1>4, Settled
<1>6. SlotSound'
  BY <1>1, <1>4, <1>5, CodexAssumption DEF Messages, SlotSound
<1>7. InboxSound'
  <2> SUFFICES ASSUME NEW m \in Items(inbox)
               PROVE  /\ m.kind = "start" =>
                             said'[m.id] = 1 /\ taken'[m.id] = 0
                      /\ m.kind = "steer" =>
                             m.id \in steering' /\ taken'[m.id] = 0
                      /\ m.kind = "answer" => said'[m.id] = 0
    BY <1>1 DEF InboxSound, Items
  <2>1. m.kind \in {"start", "steer", "answer"} => m.id # Named
    BY <1>1, Consumed DEF Bears
  <2>2. m.kind \in {"start", "steer", "answer"} => said'[m.id] = said[m.id]
    BY <1>1, <2>1 DEF LogInput, TypeOK
  <2> QED
    BY <1>1, <2>1, <2>2 DEF Messages, InboxSound
<1>8. SaidSound'
  <2> SUFFICES ASSUME NEW c \in Clients
               PROVE  /\ said'[c] <= 1 /\ taken'[c] <= 1
                      /\ taken'[c] > 0 => said'[c] = 1 \/ c \in steering'
                      /\ said'[c] = 1 /\ alive' /\ taken'[c] = 0 =>
                             \/ life'[c] = "refused"
                             \/ \E m \in Items(inbox') :
                                    m.kind = "start" /\ m.id = c
    BY DEF SaidSound, Items
  <2>1. CASE c = Named
    BY <1>1, <1>3, <1>4, <2>1
  <2>2. CASE c # Named
    BY <1>1, <1>4, <2>2 DEF Messages, SaidSound, Items
  <2> QED
    BY <2>1, <2>2
<1> QED
  BY <1>5, <1>6, <1>7, <1>8 DEF Messages

(* A steer that was refused left no trace, and may be delivered.            *)
LEMMA SteerRefusedStep ==
    ASSUME TypeOK, TypeOK', Messages, SteerRefused
    PROVE  Messages'
<1> USE DEF aside, outbox, codex, asks, messages, questions, turnends,
            history
<1>1. /\ Replied("refused") /\ Named \in steering /\ Named \in Clients
      /\ steering' = steering \ {Named}
      /\ UNCHANGED <<inbox, taken, used, answering, alive, life, said, slot>>
  BY DEF SteerRefused, Answered, TypeOK
<1>2. Head(replies) \in Items(replies) /\ Head(replies).kind = "refused"
  BY <1>1, Consumed
<1>3. said[Named] = 0 /\ taken[Named] = 0
  BY <1>1, <1>2 DEF Messages, SteerSound, Named
<1> PICK s \in steering : s = Named
  BY <1>1
<1>4. /\ Once(inbox, replies)' /\ UnusedSound' /\ SteerSound'
      /\ ~Under(s)'
      /\ \A c \in Clients : Untouched(c) => Untouched(c)'
  BY <1>1, Settled
<1>5. Untouched(s)'
  BY <1>1, <1>3, <1>4 DEF Untouched
<1>6. SlotSound'
  BY <1>1, <1>4, <1>5 DEF Messages, SlotSound
<1>7. InboxSound'
  <2> SUFFICES ASSUME NEW m \in Items(inbox)
               PROVE  /\ m.kind = "start" => said[m.id] = 1 /\ taken[m.id] = 0
                      /\ m.kind = "steer" =>
                             m.id \in steering' /\ taken[m.id] = 0
                      /\ m.kind = "answer" => said[m.id] = 0
    BY <1>1 DEF InboxSound, Items
  <2>1. m.kind = "steer" => m.id # Named
    BY <1>1, Consumed DEF Bears
  <2> QED
    BY <1>1, <2>1 DEF Messages, InboxSound
<1>8. SaidSound'
  BY <1>1, <1>3 DEF Messages, SaidSound, Items
<1> QED
  BY <1>4, <1>6, <1>7, <1>8 DEF Messages

(* What waits and is delivered was never taken.                             *)
LEMMA DeliverStep ==
    ASSUME TypeOK, TypeOK', Messages, Deliver
    PROVE  Messages'
<1> USE DEF aside, outbox, codex, asks, questions, turnends
<1>1. CASE ~MayDeliver
  BY <1>1, QuietStep DEF Deliver
<1>2. CASE MayDeliver
  <2>1. slot \in Clients /\ steering = {} /\ Untouched(slot)
    BY <1>2 DEF MayDeliver, TypeOK, Messages, SlotSound
  <2>2. slot \in used
    BY <2>1 DEF Messages, UnusedSound
  <2>3. /\ used' = used /\ LogInput(slot) /\ Write("start", slot, None)
        /\ UNCHANGED <<replies, steering, taken, alive, life, answering>>
    BY <1>2 DEF Deliver, Start
  <2>4. used' = used \cup {slot} /\ slot \in {None, slot}
        /\ slot \notin steering
    BY <2>1, <2>2, <2>3
  <2> QED
    BY <2>1, <2>3, <2>4, StartStep
<1> QED
  BY <1>1, <1>2

(* The invariant is inductive.                                              *)
LEMMA MessagesStep ==
    ASSUME TypeOK, TypeOK', Messages, [Next]_vars
    PROVE  Messages'
<1>1. CASE Command
  BY <1>1, CommandStep, QuietCommand DEF Command
<1>2. CASE Consume
  BY <1>2, SteerTakenStep, SteerRefusedStep, QuietReply, QuietNotice
  DEF Consume
<1>3. CASE Deliver
  BY <1>3, DeliverStep
<1>4. CASE Read
  BY <1>4, CodexStep
<1>5. CASE Watch \/ Finish \/ Turns \/ Finishes \/ Chatters \/ Dies
  BY <1>5, QuietRest DEF Watch, Turns, Finishes, Chatters
<1>6. CASE UNCHANGED vars
  BY <1>6, QuietRest
<1> QED
  BY <1>1, <1>2, <1>3, <1>4, <1>5, <1>6 DEF Next

-----------------------------------------------------------------------------
(* The theorems.                                                           *)

(* It holds at the start of a run.                                          *)
LEMMA InitSound == Init => IInv
<1> SUFFICES ASSUME Init PROVE IInv
  OBVIOUS
<1> DEFINE m == [kind |-> "initialize", id |-> None, turn |-> None]
<1>1. m \in Called /\ m.kind = "initialize" /\ m.id = None
  BY DEF Called
<1>2. inbox = <<m>> /\ replies = <<>> /\ notices = <<>>
  BY DEF Init
<1> HIDE DEF m
<1>3. inbox \in Seq(Called) /\ replies \in Seq(Returned)
      /\ notices \in Seq(Reported)
  BY <1>1, <1>2
<1>4. TypeOK
  <2>1. posed \in [Questions -> 0..2]
    <3>1. 0 \in 0..2
      OBVIOUS
    <3> QED
      BY <3>1 DEF Init
  <2>2. /\ answering \in [Clients -> Questions \cup {None}]
        /\ taken \in [Clients -> Nat] /\ said \in [Clients -> Nat]
        /\ answered \in [Questions -> Nat]
    BY DEF Init
  <2>3. /\ life \in [Clients -> {"none", "held", "starting", "running",
                                  "joined", "ended", "repeated", "refused"}]
        /\ fate \in [Clients -> {"none", "sent", "gone"}]
    BY DEF Init
  <2> QED
    BY <1>3, <2>1, <2>2, <2>3 DEF Init, TypeOK
<1>5. Items(inbox) = {m} /\ Items(replies) = {}
  <2>1. Len(inbox) = 1 /\ inbox[1] = m /\ Len(replies) = 0
    BY <1>2
  <2>2. 1..1 = {1} /\ 1..0 = {}
    OBVIOUS
  <2> QED
    BY <2>1, <2>2 DEF Items
<1>6. \A c \in Clients : ~Bears(m, c)
  BY <1>1, CodexAssumption DEF Bears
<1>7. Once(inbox, replies)
  <2>1. \A i \in 1..Len(inbox) : inbox[i] \in Items(inbox)
    BY DEF Items
  <2>2. \A i \in 1..Len(replies) : replies[i] \in Items(replies)
    BY DEF Items
  <2> QED
    BY <1>5, <1>6, <2>1, <2>2 DEF Once, Single
<1>8. UnusedSound /\ SlotSound
  BY <1>5, <1>6, CodexAssumption
  DEF Init, UnusedSound, SlotSound, Untouched, Under
<1>9. SteerSound /\ InboxSound /\ SaidSound
  BY <1>1, <1>5 DEF Init, SteerSound, InboxSound, SaidSound
<1> QED
  BY <1>4, <1>7, <1>8, <1>9 DEF IInv, Messages

LEMMA InvStep == IInv /\ [Next]_vars => IInv'
BY TypeStep, MessagesStep DEF IInv

LEMMA Invariant == Spec => []IInv
BY InitSound, InvStep, PTL DEF Spec

(* Every variable keeps its range: what Codex is asked, answers and reports *)
(* names clients, requests and questions that exist.                        *)
THEOREM CodexTypeCorrect == Spec => []TypeOK
<1>1. IInv => TypeOK
  BY DEF IInv
<1> QED
  BY <1>1, Invariant, PTL

(* codex.go: a steer that was refused is delivered later, one that was      *)
(* taken never is, and a message that waits is written to Codex once more   *)
(* only when no answer to its steer is still to come.                       *)
THEOREM CodexTakesOnce == Spec => []TakenOnce
<1>1. IInv => TakenOnce
  BY DEF IInv, Messages, SaidSound, TakenOnce
<1> QED
  BY <1>1, Invariant, PTL

(* What the conversation says was sent, by startTurn or by the answer to a  *)
(* steer, is with Codex, on its way to it, or was refused by it.            *)
THEOREM CodexSaidIsTaken == Spec => []SaidIsTaken
<1>1. ASSUME IInv, NEW c \in Clients
      PROVE  /\ said[c] <= 1
             /\ said[c] = 1 /\ alive =>
                   \/ taken[c] = 1 \/ life[c] = "refused"
                   \/ \E i \in DOMAIN inbox : inbox[i].kind = "start"
                                              /\ inbox[i].id = c
  <2>1. /\ said[c] <= 1 /\ taken[c] <= 1
        /\ said[c] = 1 /\ alive /\ taken[c] = 0 =>
               \/ life[c] = "refused"
               \/ \E m \in Items(inbox) : m.kind = "start" /\ m.id = c
    BY <1>1 DEF IInv, Messages, SaidSound
  <2>2. taken[c] \in Nat
    BY <1>1 DEF IInv, TypeOK
  <2>3. DOMAIN inbox = 1..Len(inbox)
    BY <1>1, LenProperties DEF IInv, TypeOK
  <2> QED
    BY <2>1, <2>2, <2>3 DEF Items
<1>2. IInv => SaidIsTaken
  BY <1>1 DEF SaidIsTaken
<1> QED
  BY <1>2, Invariant, PTL

(* What Codex took by a steer enters the conversation with the answer, also *)
(* when an interrupt or Ctrl+X emptied the slot before the answer came.     *)
THEOREM CodexTakenIsSaid == Spec => []TakenIsSaid
<1>1. ASSUME IInv, NEW c \in Clients, taken[c] > 0
      PROVE  \/ said[c] > 0
             \/ /\ c \in steering
                /\ \E i \in DOMAIN replies :
                       replies[i] = [kind |-> "ok", id |-> c]
  <2>1. said[c] = 1 \/ c \in steering
    BY <1>1 DEF IInv, Messages, SaidSound
  <2>2. CASE c \in steering
    <3>1. PICK n \in Items(replies) : n.kind = "ok" /\ n.id = c
      BY <1>1, <2>2 DEF IInv, Messages, SteerSound
    <3>2. PICK i \in 1..Len(replies) : replies[i] = n
      BY <3>1 DEF Items
    <3>3. replies[i] \in Returned /\ DOMAIN replies = 1..Len(replies)
      BY <1>1, ElementOfSeq, LenProperties DEF IInv, TypeOK
    <3>4. replies[i] = [kind |-> "ok", id |-> c]
      BY <3>1, <3>2, <3>3 DEF Returned
    <3> QED
      BY <2>2, <3>3, <3>4
  <2> QED
    BY <2>1, <2>2
<1>2. IInv => TakenIsSaid
  BY <1>1 DEF TakenIsSaid
<1> QED
  BY <1>2, Invariant, PTL

-----------------------------------------------------------------------------
(* A message leaves the slot into the conversation or with a report.        *)

(* NothingLost, when a message is said, sent and dropped.                   *)
LEMMA Logged ==
    ASSUME TypeOK, NothingLost, NEW c \in Clients, LogInput(c), fate' = fate
    PROVE  NothingLost'
<1>1. /\ said'[c] = said[c] + 1 /\ said[c] \in Nat
      /\ \A d \in Clients : d # c => said'[d] = said[d]
      /\ slot' = IF slot = c THEN None ELSE slot
  BY DEF LogInput, TypeOK
<1> QED
  BY <1>1 DEF NothingLost

LEMMA Sent ==
    ASSUME TypeOK, NothingLost, NEW c \in Clients, slot = None,
           fate' = [fate EXCEPT ![c] = "sent"],
           LogInput(c) \/ (slot' = c /\ said' = said)
    PROVE  NothingLost'
<1>1. \A d \in Clients : d # c => fate'[d] = fate[d]
  BY DEF TypeOK
<1>2. CASE LogInput(c)
  <2>1. /\ said'[c] = said[c] + 1 /\ said[c] \in Nat
        /\ \A d \in Clients : d # c => said'[d] = said[d]
    BY <1>2 DEF LogInput, TypeOK
  <2> QED
    BY <1>1, <1>2, <2>1, CodexAssumption DEF NothingLost, LogInput, TypeOK
<1>3. CASE slot' = c /\ said' = said
  BY <1>1, <1>3, CodexAssumption DEF NothingLost
<1> QED
  BY <1>2, <1>3

LEMMA Dropped ==
    ASSUME TypeOK, NothingLost, DropQueued, said' = said
    PROVE  NothingLost'
<1>1. \A d \in Clients : fate'[d] = IF d = slot THEN "gone" ELSE fate[d]
  BY CodexAssumption DEF DropQueued, TypeOK
<1> QED
  BY <1>1 DEF NothingLost

(* NothingLost is inductive.                                                *)
LEMMA LostStep ==
    ASSUME TypeOK, NothingLost, [Next]_vars
    PROVE  NothingLost'
<1> USE DEF memory, aside, outbox, codex, asks, messages, questions,
            turnends, history
<1>1. ASSUME UNCHANGED <<fate, said, slot>> PROVE NothingLost'
  BY <1>1 DEF NothingLost
<1>2. CASE Command
  <2> PICK c \in Clients :
        \/ SendStart(c) \/ SendSteer(c) \/ SendLater(c) \/ Unqueue(c)
        \/ Interrupt(c) \/ Stop(c)
        \/ \E r \in Requests : Reply(c, r)
        \/ \E q \in Questions : Answer(c, q) \/ Dismiss(c, q)
    BY <1>2 DEF Command
  <2>1. CASE SendStart(c) \/ SendSteer(c) \/ SendLater(c)
    BY <2>1, Sent DEF SendStart, SendSteer, SendLater, Start, HoldSteered
  <2>2. CASE Unqueue(c) \/ Interrupt(c) \/ Stop(c)
    BY <2>2, Dropped DEF Unqueue, Interrupt, Stop
  <2>3. CASE \/ \E r \in Requests : Reply(c, r)
             \/ \E q \in Questions : Answer(c, q) \/ Dismiss(c, q)
    BY <1>1, <2>3 DEF Reply, Answer, Dismiss
  <2> QED
    BY <2>1, <2>2, <2>3
<1>3. CASE Consume
  <2>1. CASE SteerTaken
    <3>1. Named \in Clients /\ LogInput(Named) /\ fate' = fate
      BY <2>1 DEF SteerTaken, TypeOK
    <3> QED
      BY <3>1, Logged
  <2>2. CASE \/ Greeted \/ ThreadReady \/ SteerRefused \/ AnswerReplied
             \/ RequestRefused \/ DeadlineRefused \/ Unremarkable
    BY <1>1, <2>2
    DEF Greeted, ThreadReady, SteerRefused, AnswerReplied, RequestRefused,
        DeadlineRefused, Unremarkable
  <2>3. CASE \/ TurnStarted \/ TurnCompleted \/ Asked \/ Resolved \/ Wondered
    BY <1>1, <2>3
    DEF TurnStarted, TurnCompleted, Asked, Resolved, Wondered
  <2> QED
    BY <1>3, <2>1, <2>2, <2>3 DEF Consume
<1>4. CASE Deliver
  <2>1. CASE MayDeliver
    <3>1. slot \in Clients /\ LogInput(slot) /\ fate' = fate
      BY <1>4, <2>1 DEF Deliver, MayDeliver, Start, TypeOK
    <3> QED
      BY <3>1, Logged
  <2>2. CASE ~MayDeliver
    BY <1>1, <1>4, <2>2 DEF Deliver
  <2> QED
    BY <2>1, <2>2
<1>5. CASE Read
  BY <1>1, <1>5
  DEF Read, Greets, Accepts, Refuses, Steers, Interrupts, HearsReply,
      HearsAnswer
<1>6. CASE Watch \/ Finish \/ Dies \/ UNCHANGED vars
  BY <1>1, <1>6 DEF Watch, DeadlinePasses, GraceEnds, Finish, Dies, vars
<1>7. CASE Turns \/ Finishes \/ Chatters
  BY <1>1, <1>7
  DEF Turns, Finishes, Chatters, Begins, TakesUp, Completes, Repeats, Asks,
      Withdraws, Poses
<1> QED
  BY <1>2, <1>3, <1>4, <1>5, <1>6, <1>7 DEF Next

(* queue.go: what waits "can be shown, cancelled, and reported when it is   *)
(* dropped".  A message a client was promised never disappears between the  *)
(* slot, Codex and the conversation unless dropQueued or unqueue said so.   *)
THEOREM CodexLosesNothing == Spec => []NothingLost
<1>1. Init => NothingLost
  BY DEF Init, NothingLost
<1>2. TypeOK /\ NothingLost /\ [Next]_vars => NothingLost'
  BY LostStep
<1> QED
  BY <1>1, <1>2, CodexTypeCorrect, PTL DEF Spec

-----------------------------------------------------------------------------
(* Questions.  An answer is in one place - on its way to Codex, or in the   *)
(* reply that comes back - and what it answers is not pending meanwhile.    *)

(* A question is pending while nobody has answered it or is answering.      *)
PendingSound ==
    \A q \in Questions :
        /\ answered[q] <= 1
        /\ answered[q] = 1 => q \in seen
        /\ q \in pending => /\ q \in seen /\ answered[q] = 0
                            /\ \A c \in Clients : answering[c] # q

(* One client answers a question at a time.                                 *)
AnswersSingle ==
    \A c, d \in Clients :
        answering[c] = answering[d] /\ answering[c] # None => c = d

(* It was taken exactly if the reply says so.                               *)
AnswerSound(c) ==
    answering[c] # None =>
        /\ answering[c] \in seen
        /\ \A m \in Items(inbox) :
               Bears(m, c) => m.kind = "answer" /\ answered[answering[c]] = 0
        /\ \A n \in Items(replies) :
               n.id = c => \/ n.kind = "ok" /\ answered[answering[c]] = 1
                           \/ n.kind = "refused" /\ answered[answering[c]] = 0
AnswersSound == \A c \in Clients : AnswerSound(c)

(* What waits in the slot is a message, not an answer.                      *)
SlotAside == \A c \in Clients : slot = c => answering[c] = None

Questioned ==
    PendingSound /\ AnswersSingle /\ AnswersSound /\ SlotAside

(* A step keeps it if it neither answers nor poses a question, and what it  *)
(* writes names nobody who is answering one.                                *)
LEMMA QuestionFrame ==
    ASSUME TypeOK, TypeOK', Questioned,
           UNCHANGED <<seen, answering, answered>>,
           \A c \in Clients : slot' = c => slot = c \/ answering[c] = None,
           pending' \cap Questions \subseteq pending,
           \A m \in Items(inbox') :
               \/ m \in Items(inbox)
               \/ \A c \in Clients : answering[c] # None => ~Bears(m, c),
           \A n \in Items(replies') :
               \/ n \in Items(replies)
               \/ \A c \in Clients : answering[c] # None => n.id # c
    PROVE  Questioned'
<1>1. PendingSound' /\ AnswersSingle' /\ SlotAside'
  BY DEF Questioned, PendingSound, AnswersSingle, SlotAside
<1>2. ASSUME NEW c \in Clients, answering[c] # None
      PROVE  /\ answering[c] \in seen
             /\ \A m \in Items(inbox') :
                    Bears(m, c) => m.kind = "answer"
                                   /\ answered[answering[c]] = 0
             /\ \A n \in Items(replies') :
                    n.id = c => \/ n.kind = "ok" /\ answered[answering[c]] = 1
                                \/ n.kind = "refused"
                                   /\ answered[answering[c]] = 0
  BY <1>2 DEF Questioned, AnswersSound, AnswerSound
<1>3. AnswersSound'
  BY <1>2 DEF AnswersSound, AnswerSound, Items, Bears
<1> QED
  BY <1>1, <1>3 DEF Questioned

(* The same for a step that leaves the replies alone, and writes at most    *)
(* one call.                                                                *)
LEMMA QuestionWritten ==
    ASSUME TypeOK, TypeOK', Questioned, NEW kind, NEW id, NEW t,
           [kind |-> kind, id |-> id, turn |-> t] \in Called,
           Write(kind, id, t),
           \A c \in Clients : answering[c] # None /\ kind # "reply" => id # c,
           UNCHANGED <<seen, answering, answered>>,
           Items(replies') \subseteq Items(replies),
           \A c \in Clients : slot' = c => slot = c \/ answering[c] = None,
           pending' \cap Questions \subseteq pending
    PROVE  Questioned'
<1>1. \A m \in Items(inbox') :
          m \in Items(inbox) \/ (m.kind = kind /\ m.id = id)
  BY Written
<1>2. \A m \in Items(inbox') :
          \/ m \in Items(inbox)
          \/ \A c \in Clients : answering[c] # None => ~Bears(m, c)
  BY <1>1 DEF Bears
<1> QED
  BY <1>2, QuestionFrame

(* Commands that answer no question.                                        *)
LEMMA QuestionCommand ==
    ASSUME IInv, TypeOK', Questioned, NEW c \in Clients,
           \/ SendStart(c) \/ SendSteer(c) \/ SendLater(c) \/ Unqueue(c)
           \/ Interrupt(c) \/ Stop(c)
           \/ \E r \in Requests : Reply(c, r)
           \/ \E q \in Questions : Dismiss(c, q)
    PROVE  Questioned'
<1> USE DEF aside, outbox, codex, asks, messages, questions, turnends,
            history
<1>1. TypeOK /\ Messages
  BY DEF IInv
<1>2. c \notin used => answering[c] = None
  BY <1>1 DEF Messages, UnusedSound
<1>3. CASE SendStart(c)
  <2>1. [kind |-> "start", id |-> c, turn |-> None] \in Called
    BY DEF Called
  <2>2. /\ Write("start", c, None) /\ answering[c] = None
        /\ UNCHANGED <<seen, answering, answered, replies, pending>>
        /\ slot' \in {slot, None}
    BY <1>2, <1>3 DEF SendStart, Start, LogInput, Submit
  <2> QED
    BY <1>1, <2>1, <2>2, QuestionWritten, CodexAssumption
<1>4. CASE SendSteer(c)
  <2>1. [kind |-> "steer", id |-> c, turn |-> turn] \in Called
    BY <1>1, <1>4 DEF SendSteer, Called, TypeOK
  <2>2. /\ Write("steer", c, turn) /\ answering[c] = None
        /\ UNCHANGED <<seen, answering, answered, replies, pending>>
        /\ slot' = c
    BY <1>2, <1>4 DEF SendSteer, HoldSteered, Submit
  <2> QED
    BY <1>1, <2>1, <2>2, QuestionWritten
<1>5. CASE SendLater(c)
  <2>1. /\ UNCHANGED <<seen, answering, answered, replies, pending, inbox>>
        /\ slot' = c /\ answering[c] = None
    BY <1>2, <1>5 DEF SendLater, Submit
  <2> QED
    BY <1>1, <2>1, QuestionFrame
<1>6. CASE Unqueue(c) \/ Stop(c)
  <2>1. /\ UNCHANGED <<seen, answering, answered, replies, pending, inbox>>
        /\ slot' = None
    BY <1>6 DEF Unqueue, Stop, DropQueued
  <2> QED
    BY <1>1, <2>1, QuestionFrame, CodexAssumption
<1>7. CASE Interrupt(c)
  <2>1. [kind |-> "interrupt", id |-> c, turn |-> turn] \in Called
    BY <1>1, <1>7 DEF Interrupt, Called, TypeOK
  <2>2. /\ Write("interrupt", c, turn) /\ answering[c] = None
        /\ UNCHANGED <<seen, answering, answered, replies>>
        /\ slot' = None /\ pending' = {}
    BY <1>2, <1>7 DEF Interrupt, ClearPending, DropQueued, Submit
  <2> QED
    BY <1>1, <2>1, <2>2, QuestionWritten, CodexAssumption
<1>8. ASSUME NEW r \in Requests, Reply(c, r) PROVE Questioned'
  <2>1. [kind |-> "reply", id |-> r, turn |-> None] \in Called
    BY DEF Called
  <2>2. /\ Write("reply", r, None)
        /\ UNCHANGED <<seen, answering, answered, replies, slot>>
        /\ pending' \subseteq pending
    BY <1>8 DEF Reply
  <2> QED
    BY <1>1, <2>1, <2>2, QuestionWritten
<1>9. ASSUME NEW q \in Questions, Dismiss(c, q) PROVE Questioned'
  <2>1. /\ UNCHANGED <<seen, answering, answered, replies, inbox, slot>>
        /\ pending' \subseteq pending
    BY <1>9 DEF Dismiss
  <2> QED
    BY <1>1, <2>1, QuestionFrame
<1> QED
  BY <1>3, <1>4, <1>5, <1>6, <1>7, <1>8, <1>9

(* An answer is given: the question leaves pending for the pipe.            *)
LEMMA QuestionAnswered ==
    ASSUME IInv, TypeOK', Questioned, NEW c \in Clients, NEW q \in Questions,
           Answer(c, q)
    PROVE  Questioned'
<1>1. TypeOK /\ Messages
  BY DEF IInv
<1>2. /\ c \notin used /\ q \in pending /\ pending' = pending \ {q}
      /\ answering' = [answering EXCEPT ![c] = q]
      /\ Write("answer", c, None)
      /\ UNCHANGED <<slot, seen, answered, replies>>
  BY DEF Answer, Submit, aside, outbox, history, questions
<1>3. ~Under(c) /\ answering[c] = None /\ slot # c
  BY <1>1, <1>2 DEF Messages, UnusedSound, Untouched
<1>4. /\ answering'[c] = q
      /\ \A d \in Clients : d # c => answering'[d] = answering[d]
  BY <1>1, <1>2 DEF TypeOK
<1>5. /\ q \in seen /\ answered[q] = 0
      /\ \A d \in Clients : answering[d] # q
  BY <1>2 DEF Questioned, PendingSound
<1>6. [kind |-> "answer", id |-> c, turn |-> None] \in Called
  BY DEF Called
<1>7. \A m \in Items(inbox') :
          m \in Items(inbox) \/ (m.kind = "answer" /\ m.id = c)
  BY <1>1, <1>2, <1>6, Written
<1>8. \A n \in Items(replies) : n.kind # "reply"
  <2>1. ASSUME NEW i \in 1..Len(replies) PROVE replies[i] \in Returned
    BY <1>1, ElementOfSeq DEF TypeOK
  <2> QED
    BY <2>1 DEF Items, Returned
<1>9. /\ \A m \in Items(inbox) : ~Bears(m, c)
      /\ \A n \in Items(replies) : n.id # c
  BY <1>3, <1>8 DEF Under, Bears
<1>10. PendingSound'
  BY <1>2, <1>4, <1>5 DEF Questioned, PendingSound
<1>11. AnswersSingle' /\ SlotAside'
  BY <1>2, <1>3, <1>4, <1>5 DEF Questioned, AnswersSingle, SlotAside
<1>12. ASSUME NEW d \in Clients, answering'[d] # None
       PROVE  /\ answering'[d] \in seen
              /\ \A m \in Items(inbox') :
                     Bears(m, d) => m.kind = "answer"
                                    /\ answered[answering'[d]] = 0
              /\ \A n \in Items(replies) :
                     n.id = d => \/ n.kind = "ok"
                                    /\ answered[answering'[d]] = 1
                                 \/ n.kind = "refused"
                                    /\ answered[answering'[d]] = 0
  <2>1. CASE d = c
    BY <1>4, <1>5, <1>7, <1>9, <2>1
  <2>2. CASE d # c
    <3>1. AnswerSound(d) /\ answering'[d] = answering[d]
      BY <1>4, <2>2 DEF Questioned, AnswersSound
    <3> QED
      BY <1>7, <1>12, <2>2, <3>1 DEF AnswerSound, Bears
  <2> QED
    BY <2>1, <2>2
<1>13. AnswersSound'
  BY <1>2, <1>12 DEF AnswersSound, AnswerSound, Items, Bears
<1> QED
  BY <1>10, <1>11, <1>13 DEF Questioned

(* The reply to an answer: refused, the question is pending again.          *)
LEMMA QuestionReplied ==
    ASSUME IInv, TypeOK', Questioned, AnswerReplied
    PROVE  /\ Questioned'
           /\ Head(replies).kind # "refused" => answered[answering[Named]] = 1
<1>1. TypeOK /\ Messages
  BY DEF IInv
<1>2. PICK kind \in {"ok", "refused"} : Replied(kind)
  BY DEF AnswerReplied
<1>3. /\ Named \in Clients /\ answering[Named] # None
      /\ answering' = [answering EXCEPT ![Named] = None]
      /\ pending' = Restored(Named)
      /\ UNCHANGED <<slot, seen, answered, inbox>>
  BY DEF AnswerReplied, IsAnswer, codex, history, questions
<1>4. /\ Items(replies) = Items(replies') \cup {Head(replies)}
      /\ \A n \in Items(replies') : n.id # Named
      /\ \A m \in Items(inbox) : ~Bears(m, Named)
      /\ Head(replies) \in Items(replies) /\ Head(replies).kind = kind
  BY <1>1, <1>2, <1>3, Consumed
<1>5. PICK q \in Questions : q = answering[Named]
  BY <1>1, <1>3 DEF TypeOK
<1>6. /\ q \in seen
      /\ \/ kind = "ok" /\ answered[q] = 1
         \/ kind = "refused" /\ answered[q] = 0
  BY <1>3, <1>4, <1>5 DEF Questioned, AnswersSound, AnswerSound, Named
<1>7. /\ answering'[Named] = None
      /\ \A d \in Clients : d # Named => answering'[d] = answering[d]
  BY <1>1, <1>3 DEF TypeOK
<1>8. \A d \in Clients : answering'[d] # q
  BY <1>3, <1>5, <1>7, CodexAssumption DEF Questioned, AnswersSingle
<1>9. pending' = IF kind = "refused" THEN pending \cup {q} ELSE pending
  BY <1>3, <1>4, <1>5 DEF Restored
<1>10. PendingSound'
  <2> SUFFICES ASSUME NEW p \in Questions
               PROVE  /\ answered[p] <= 1
                      /\ answered[p] = 1 => p \in seen
                      /\ p \in pending' =>
                             /\ p \in seen /\ answered[p] = 0
                             /\ \A c \in Clients : answering'[c] # p
    BY <1>3 DEF PendingSound
  <2>1. /\ answered[p] <= 1 /\ (answered[p] = 1 => p \in seen)
        /\ p \in pending => /\ p \in seen /\ answered[p] = 0
                            /\ \A c \in Clients : answering[c] # p
    BY DEF Questioned, PendingSound
  <2>2. CASE p = q
    BY <1>6, <1>8, <1>9, <2>1, <2>2
  <2>3. CASE p # q
    BY <1>7, <1>9, <2>1, <2>3, CodexAssumption
  <2> QED
    BY <2>2, <2>3
<1>11. AnswersSingle' /\ SlotAside'
  BY <1>3, <1>7 DEF Questioned, AnswersSingle, SlotAside
<1>12. ASSUME NEW d \in Clients, answering'[d] # None
       PROVE  /\ answering'[d] \in seen
              /\ \A m \in Items(inbox) :
                     Bears(m, d) => m.kind = "answer"
                                    /\ answered[answering'[d]] = 0
              /\ \A n \in Items(replies') :
                     n.id = d => \/ n.kind = "ok"
                                    /\ answered[answering'[d]] = 1
                                 \/ n.kind = "refused"
                                    /\ answered[answering'[d]] = 0
  <2>1. AnswerSound(d) /\ answering'[d] = answering[d]
    BY <1>7, <1>12 DEF Questioned, AnswersSound
  <2> QED
    BY <1>4, <1>12, <2>1 DEF AnswerSound
<1>13. AnswersSound'
  BY <1>3, <1>12 DEF AnswersSound, AnswerSound, Items, Bears
<1> QED
  BY <1>4, <1>5, <1>6, <1>10, <1>11, <1>13 DEF Questioned

(* Other lines, and the delivery after them.                                *)
LEMMA QuestionLine ==
    ASSUME IInv, TypeOK', Questioned,
           \/ Greeted \/ ThreadReady \/ SteerTaken \/ SteerRefused
           \/ RequestRefused \/ DeadlineRefused \/ Unremarkable
    PROVE  Questioned'
<1> USE DEF memory, aside, codex, asks, messages, questions, turnends,
            history
<1>1. TypeOK /\ Messages
  BY DEF IInv
<1>2. ASSUME NEW kind, Replied(kind)
      PROVE  Items(replies') \subseteq Items(replies)
  BY <1>1, <1>2, Consumed
<1>3. CASE Greeted
  <2>1. /\ Items(replies') \subseteq Items(replies)
        /\ UNCHANGED <<slot, pending, seen, answering, answered>>
    BY <1>2, <1>3 DEF Greeted
  <2>2. CASE inbox' = inbox
    BY <1>1, <2>1, <2>2, QuestionFrame
  <2>3. ASSUME NEW call \in {"auth", "thread"}, Write(call, None, None)
        PROVE  Questioned'
    <3>1. [kind |-> call, id |-> None, turn |-> None] \in Called
      BY DEF Called
    <3>2. \A c \in Clients : None # c
      BY CodexAssumption
    <3> QED
      BY <1>1, <2>1, <2>3, <3>1, <3>2, QuestionWritten
  <2> QED
    BY <1>3, <2>2, <2>3 DEF Greeted
<1>4. CASE ThreadReady \/ SteerRefused \/ DeadlineRefused \/ Unremarkable
  <2>1. /\ Items(replies') \subseteq Items(replies)
        /\ UNCHANGED <<slot, pending, seen, answering, answered, inbox>>
    BY <1>2, <1>4 DEF ThreadReady, SteerRefused, DeadlineRefused, Unremarkable
  <2> QED
    BY <1>1, <2>1, QuestionFrame
<1>5. CASE SteerTaken
  <2>1. /\ Items(replies') \subseteq Items(replies)
        /\ UNCHANGED <<pending, seen, answering, answered, inbox>>
        /\ slot' \in {slot, None}
    BY <1>2, <1>5 DEF SteerTaken, LogInput
  <2> QED
    BY <1>1, <2>1, QuestionFrame, CodexAssumption
<1>6. CASE RequestRefused
  <2>1. /\ Items(replies') \subseteq Items(replies)
        /\ UNCHANGED <<slot, seen, answering, answered, inbox>>
        /\ pending' \subseteq pending
    BY <1>2, <1>6 DEF RequestRefused, ClearPending
  <2> QED
    BY <1>1, <2>1, QuestionFrame
<1> QED
  BY <1>3, <1>4, <1>5, <1>6

(* Reports.  A question that was seen is not posed again.                   *)
LEMMA QuestionNotice ==
    ASSUME IInv, TypeOK', Questioned,
           \/ TurnStarted \/ TurnCompleted \/ Asked \/ Resolved \/ Wondered
    PROVE  Questioned'
<1> USE DEF Noticed, aside, codex, asks, messages, questions, turnends,
            history
<1>1. TypeOK
  BY DEF IInv
<1>2. ASSUME UNCHANGED <<slot, seen, answering, answered, inbox, replies>>,
             pending' \cap Questions \subseteq pending
      PROVE  Questioned'
  BY <1>1, <1>2, QuestionFrame
<1>3. CASE TurnStarted
  BY <1>2, <1>3 DEF TurnStarted
<1>4. CASE TurnCompleted
  <2>1. pending' \subseteq pending
    BY <1>4 DEF TurnCompleted, Remaining
  <2> QED
    BY <1>2, <1>4, <2>1 DEF TurnCompleted
<1>5. CASE Asked
  <2>1. Head(notices) \in Reported /\ Head(notices).kind = "ask"
    BY <1>1, <1>5, HeadTailProperties DEF Asked, TypeOK
  <2>2. Subject \notin Questions
    BY <2>1, CodexAssumption DEF Reported, Subject
  <2> QED
    BY <1>2, <1>5, <2>2 DEF Asked
<1>6. CASE Resolved
  BY <1>2, <1>6 DEF Resolved
<1>7. CASE Wondered
  <2>1. /\ pending' = Posed(Subject) /\ seen' = seen \cup {Subject}
        /\ UNCHANGED <<slot, answering, answered, inbox, replies>>
    BY <1>7 DEF Wondered
  <2>2. PendingSound'
    <3> SUFFICES ASSUME NEW q \in Questions
                 PROVE  /\ answered[q] <= 1
                        /\ answered[q] = 1 => q \in seen'
                        /\ q \in pending' =>
                               /\ q \in seen' /\ answered[q] = 0
                               /\ \A c \in Clients : answering[c] # q
      BY <2>1 DEF PendingSound
    <3>1. /\ answered[q] <= 1 /\ (answered[q] = 1 => q \in seen)
          /\ q \in pending => /\ q \in seen /\ answered[q] = 0
                              /\ \A c \in Clients : answering[c] # q
          /\ answered[q] \in Nat
      BY <1>1 DEF Questioned, PendingSound, TypeOK
    <3>2. CASE q \in pending
      BY <2>1, <3>1, <3>2
    <3>3. CASE q \in pending' /\ q \notin pending
      <4>1. q = Subject /\ q \notin seen
        BY <2>1, <3>3 DEF Posed
      <4>2. \A c \in Clients : answering[c] # q
        BY <4>1, CodexAssumption DEF Questioned, AnswersSound, AnswerSound
      <4>3. answered[q] = 0
        BY <3>1, <4>1
      <4> QED
        BY <2>1, <3>1, <4>1, <4>2, <4>3
    <3> QED
      BY <2>1, <3>1, <3>2, <3>3
  <2>3. AnswersSingle' /\ SlotAside'
    BY <2>1 DEF Questioned, AnswersSingle, SlotAside
  <2>4. AnswersSound'
    BY <2>1 DEF Questioned, AnswersSound, AnswerSound, Items, Bears
  <2> QED
    BY <2>2, <2>3, <2>4 DEF Questioned
<1> QED
  BY <1>3, <1>4, <1>5, <1>6, <1>7

(* A call that answers no question is read, and answered.                   *)
LEMMA QuestionCalled ==
    ASSUME IInv, TypeOK', Questioned, inbox # <<>>, inbox' = Tail(inbox),
           Wanted.kind \notin {"reply", "answer"},
           NEW k, [kind |-> k, id |-> Wanted.id] \in Returned,
           Replies(k, Wanted.id),
           UNCHANGED <<slot, pending, seen, answering, answered>>
    PROVE  Questioned'
<1> DEFINE new == [kind |-> k, id |-> Wanted.id]
<1>1. TypeOK /\ Messages
  BY DEF IInv
<1>2. /\ Items(inbox) = Items(inbox') \cup {Wanted}
      /\ Items(replies') = Items(replies) \cup {new}
  BY <1>1, ReadOnce
<1>3. new.id = Wanted.id
  OBVIOUS
<1> HIDE DEF new
<1>4. \A c \in Clients : answering[c] # None => Wanted.id # c
  BY <1>2 DEF Questioned, AnswersSound, AnswerSound, Bears
<1> QED
  BY <1>1, <1>2, <1>3, <1>4, QuestionFrame

(* Codex reads an answer: it takes it, and says so, or it does neither.     *)
LEMMA QuestionHeard ==
    ASSUME IInv, TypeOK', Questioned, HearsAnswer
    PROVE  Questioned'
<1> USE DEF memory, aside, asks, messages, turnends
<1>1. TypeOK /\ Messages
  BY DEF IInv
<1>2. /\ inbox # <<>> /\ inbox' = Tail(inbox) /\ Wanted.kind = "answer"
      /\ inbox \in Seq(Called) /\ Wanted = Head(inbox)
      /\ UNCHANGED <<slot, pending, seen, answering>>
  BY <1>1 DEF HearsAnswer, Reads, Wanted, TypeOK
<1>3. Wanted \in Called /\ Wanted.id \in Clients
  BY <1>2, ItemsTail DEF Called
<1> PICK a \in Clients : a = Wanted.id
  BY <1>3
<1>4. PICK k \in {"ok", "refused"} :
          /\ Replies(k, a)
          /\ k = "ok" =>
                 answered' = [answered EXCEPT ![answering[a]] = @ + 1]
          /\ k = "refused" => answered' = answered
  BY DEF HearsAnswer
<1> DEFINE new == [kind |-> k, id |-> a]
<1>5. new \in Returned /\ new.kind = k /\ new.id = a
  BY DEF Returned
<1>6. /\ Items(inbox) = Items(inbox') \cup {Wanted}
      /\ Items(replies') = Items(replies) \cup {new}
      /\ \A n \in Items(inbox') \cup Items(replies) : ~Bears(n, a)
      /\ \A n \in Items(replies) : n.kind # "reply"
  <2>1. Bears(Wanted, a) /\ Wanted.kind # "reply"
    BY <1>2 DEF Bears
  <2>2. Replies(k, Wanted.id) /\ [kind |-> k, id |-> Wanted.id] \in Returned
    BY <1>4, <1>5
  <2> QED
    BY <1>1, <1>2, <2>1, <2>2, ReadOnce
<1> HIDE DEF new
<1>7. \A n \in Items(replies') : n.id = a => n = new
  BY <1>5, <1>6 DEF Bears
<1>8. CASE answering[a] = None
  <2>1. answered' = answered
    BY <1>1, <1>4, <1>8, CodexAssumption DEF TypeOK
  <2> QED
    BY <1>1, <1>2, <1>5, <1>6, <1>8, <2>1, QuestionFrame
<1>9. CASE answering[a] # None
  <2> PICK q \in Questions : q = answering[a]
    BY <1>1, <1>9 DEF TypeOK
  <2>1. q \in seen /\ answered[q] = 0 /\ q \notin pending
    BY <1>2, <1>6, <1>9
    DEF Questioned, AnswersSound, AnswerSound, PendingSound, Bears
  <2>2. /\ k = "ok" => answered'[q] = 1
        /\ k = "refused" => answered'[q] = 0
        /\ \A p \in Questions : p # q => answered'[p] = answered[p]
    BY <1>1, <1>4, <2>1 DEF TypeOK
  <2>3. PendingSound'
    BY <1>2, <1>4, <2>1, <2>2 DEF Questioned, PendingSound
  <2>4. AnswersSingle' /\ SlotAside'
    BY <1>2 DEF Questioned, AnswersSingle, SlotAside
  <2>5. ASSUME NEW d \in Clients, answering[d] # None
        PROVE  /\ answering[d] \in seen
               /\ \A m \in Items(inbox') :
                      Bears(m, d) => m.kind = "answer"
                                     /\ answered'[answering[d]] = 0
               /\ \A n \in Items(replies') :
                      n.id = d => \/ n.kind = "ok"
                                     /\ answered'[answering[d]] = 1
                                  \/ n.kind = "refused"
                                     /\ answered'[answering[d]] = 0
    <3>1. CASE d = a
      BY <1>4, <1>5, <1>6, <1>7, <2>1, <2>2, <3>1
    <3>2. CASE d # a
      <4>1. AnswerSound(d) /\ answering[d] \in Questions
        BY <1>1, <2>5 DEF Questioned, AnswersSound, TypeOK
      <4>2. answering[d] # q
        BY <1>9, <2>5, <3>2 DEF Questioned, AnswersSingle
      <4>3. answered'[answering[d]] = answered[answering[d]]
        BY <2>2, <4>1, <4>2
      <4> QED
        BY <1>5, <1>6, <2>5, <3>2, <4>1, <4>3 DEF AnswerSound
    <3> QED
      BY <3>1, <3>2
  <2>6. AnswersSound'
    BY <1>2, <2>5 DEF AnswersSound, AnswerSound, Items, Bears
  <2> QED
    BY <2>3, <2>4, <2>6 DEF Questioned
<1> QED
  BY <1>8, <1>9

(* Every call Codex reads.                                                  *)
LEMMA QuestionRead ==
    ASSUME IInv, TypeOK', Questioned, Read
    PROVE  Questioned'
<1> USE DEF memory, aside, outbox, codex, asks, messages, questions,
            turnends, history
<1>1. TypeOK /\ Messages
  BY DEF IInv
<1>2. ASSUME NEW kind, Reads(kind)
      PROVE  /\ inbox # <<>> /\ inbox' = Tail(inbox)
             /\ Wanted \in Called /\ Wanted.kind = kind
             /\ Items(inbox') \subseteq Items(inbox)
  BY <1>1, <1>2, ItemsTail DEF Reads, Wanted, TypeOK
<1>3. CASE Greets
  <2>1. PICK kind \in {"initialize", "auth", "thread"},
             k \in {"initialized", "authenticated", "threaded",
                    "unauthenticated", "refused"} :
            Reads(kind) /\ Replies(k, None)
    BY <1>3 DEF Greets
  <2>2. Wanted.id = None /\ [kind |-> k, id |-> Wanted.id] \in Returned
    BY <1>2, <2>1 DEF Called, Returned
  <2>3. UNCHANGED <<slot, pending, seen, answering, answered>>
    BY <1>3 DEF Greets
  <2> QED
    BY <1>2, <2>1, <2>2, <2>3, QuestionCalled
<1>4. CASE Accepts \/ Refuses \/ Steers
  <2>1. PICK kind \in {"start", "steer"}, k \in {"ok", "refused"} :
            Reads(kind) /\ Replies(k, Wanted.id)
    BY <1>4 DEF Accepts, Refuses, Steers
  <2>2. Wanted.id \in Clients /\ [kind |-> k, id |-> Wanted.id] \in Returned
    BY <1>2, <2>1 DEF Called, Returned
  <2>3. UNCHANGED <<slot, pending, seen, answering, answered>>
    BY <1>4 DEF Accepts, Refuses, Steers
  <2> QED
    BY <1>2, <2>1, <2>2, <2>3, QuestionCalled
<1>5. CASE Interrupts
  <2>1. PICK kind \in {"interrupt", "deadline"} : Reads(kind)
    BY <1>5 DEF Interrupts
  <2>2. PICK k \in {"ok", "late", "refused"} : Replies(k, Wanted.id)
    BY <1>5 DEF Interrupts
  <2>3. [kind |-> k, id |-> Wanted.id] \in Returned
    BY <1>2, <2>1 DEF Called, Returned
  <2>4. UNCHANGED <<slot, pending, seen, answering, answered>>
    BY <1>5 DEF Interrupts
  <2> QED
    BY <1>2, <2>1, <2>2, <2>3, <2>4, QuestionCalled
<1>6. CASE HearsReply
  <2>1. /\ Items(inbox') \subseteq Items(inbox)
        /\ UNCHANGED <<slot, pending, seen, answering, answered, replies>>
    BY <1>2, <1>6 DEF HearsReply
  <2> QED
    BY <1>1, <2>1, QuestionFrame
<1> QED
  BY <1>3, <1>4, <1>5, <1>6, QuestionHeard DEF Read

(* The delivery, the deadline, the end of the reader, and Codex on its own. *)
LEMMA QuestionRest ==
    ASSUME IInv, TypeOK', Questioned,
           \/ Deliver \/ Watch \/ Finish \/ Turns \/ Finishes \/ Chatters
           \/ Dies \/ UNCHANGED vars
    PROVE  Questioned'
<1> USE DEF memory, aside, outbox, codex, asks, messages, questions,
            turnends, history
<1>1. TypeOK
  BY DEF IInv
<1>2. ASSUME UNCHANGED <<slot, seen, answering, answered, inbox, replies>>,
             pending' \subseteq pending
      PROVE  Questioned'
  BY <1>1, <1>2, QuestionFrame
<1>3. CASE Deliver /\ MayDeliver
  <2>1. slot \in Clients /\ answering[slot] = None
    BY <1>1, <1>3 DEF MayDeliver, TypeOK, Questioned, SlotAside
  <2>2. [kind |-> "start", id |-> slot, turn |-> None] \in Called
    BY <2>1 DEF Called
  <2>3. /\ Write("start", slot, None) /\ slot' \in {slot, None}
        /\ UNCHANGED <<seen, answering, answered, replies, pending>>
    BY <1>3 DEF Deliver, Start, LogInput
  <2> QED
    BY <1>1, <2>1, <2>2, <2>3, QuestionWritten, CodexAssumption
<1>4. CASE Deliver /\ ~MayDeliver
  BY <1>2, <1>4 DEF Deliver
<1>5. CASE DeadlinePasses
  <2>1. [kind |-> "deadline", id |-> None, turn |-> turn] \in Called
    BY <1>1, <1>5 DEF DeadlinePasses, Watched, Called, TypeOK
  <2>2. /\ Write("deadline", None, turn)
        /\ UNCHANGED <<slot, seen, answering, answered, replies, pending>>
    BY <1>5 DEF DeadlinePasses
  <2> QED
    BY <1>1, <2>1, <2>2, QuestionWritten, CodexAssumption
<1>6. CASE GraceEnds \/ Finish \/ Dies \/ UNCHANGED vars
  BY <1>2, <1>6 DEF GraceEnds, Finish, ClearPending, Dies, vars
<1>7. CASE Turns \/ Finishes \/ Chatters
  BY <1>2, <1>7
  DEF Turns, Finishes, Chatters, Begins, TakesUp, Completes, Repeats, Asks,
      Withdraws, Poses
<1> QED
  BY <1>3, <1>4, <1>5, <1>6, <1>7 DEF Watch

(* Where the answers are is inductive.                                      *)
LEMMA QuestionStep ==
    ASSUME IInv, TypeOK', Questioned, [Next]_vars
    PROVE  Questioned'
<1>1. CASE Command
  BY <1>1, QuestionCommand, QuestionAnswered DEF Command
<1>2. CASE Consume
  BY <1>2, QuestionReplied, QuestionLine, QuestionNotice DEF Consume
<1> QED
  BY <1>1, <1>2, QuestionRead, QuestionRest DEF Next

LEMMA QuestionInit == Init => Questioned
<1> SUFFICES ASSUME Init PROVE Questioned
  OBVIOUS
<1>1. /\ \A q \in Questions : answered[q] = 0
      /\ \A c \in Clients : answering[c] = None
      /\ pending = {} /\ slot = None
  BY DEF Init
<1> QED
  BY <1>1 DEF Questioned, PendingSound, AnswersSingle, AnswersSound,
              AnswerSound, SlotAside

LEMMA QuestionInvariant == Spec => [](IInv /\ Questioned)
<1>1. IInv /\ Questioned /\ [Next]_vars => (IInv /\ Questioned)'
  BY InvStep, QuestionStep DEF IInv
<1> QED
  BY InitSound, QuestionInit, <1>1, PTL DEF Spec

(* codex_questions.go: an answer takes the question from the pending ones   *)
(* before it is written, a repeated question is not posed again, and only   *)
(* an answer that was refused puts it back: no question is answered twice.  *)
THEOREM CodexAnswersOnce == Spec => []AnsweredOnce
<1>1. Questioned => AnsweredOnce
  BY DEF Questioned, PendingSound, AnsweredOnce
<1> QED
  BY <1>1, QuestionInvariant, PTL

-----------------------------------------------------------------------------
(* A question that was shown goes where a person sends it.                  *)

(* It does when a step lets go of no answer and closes what it takes from   *)
(* the pending ones.                                                        *)
LEMMA OpenFrame ==
    ASSUME QuestionsStayOpen, TypeOK, seen' = seen, closed \subseteq closed',
           \A q \in Questions : answered[q] = 1 => answered'[q] = 1,
           \A c \in Clients :
               answering[c] # None => answering'[c] = answering[c],
           pending \cap Questions \subseteq pending' \cup closed'
    PROVE  QuestionsStayOpen'
<1>1. seen \subseteq Questions
  BY DEF TypeOK
<1> SUFFICES ASSUME NEW q \in seen
             PROVE  \/ q \in pending' \cup closed' \/ answered'[q] = 1
                    \/ \E c \in Clients : answering'[c] = q
  BY DEF QuestionsStayOpen
<1>2. \/ q \in pending \cup closed \/ answered[q] = 1
      \/ \E c \in Clients : answering[c] = q
  BY DEF QuestionsStayOpen
<1> QED
  BY <1>1, <1>2, CodexAssumption

LEMMA OpenCommand ==
    ASSUME IInv, QuestionsStayOpen, Command
    PROVE  QuestionsStayOpen'
<1> USE DEF aside, outbox, codex, asks, messages, questions, turnends,
            history
<1>1. TypeOK /\ Messages
  BY DEF IInv
<1> PICK c \in Clients :
        \/ SendStart(c) \/ SendSteer(c) \/ SendLater(c) \/ Unqueue(c)
        \/ Interrupt(c) \/ Stop(c)
        \/ \E r \in Requests : Reply(c, r)
        \/ \E q \in Questions : Answer(c, q) \/ Dismiss(c, q)
  BY DEF Command
<1>2. CASE \/ SendStart(c) \/ SendSteer(c) \/ SendLater(c) \/ Unqueue(c)
           \/ Stop(c)
  <2>1. UNCHANGED <<seen, answering, answered, pending, closed>>
    BY <1>2 DEF SendStart, SendSteer, SendLater, Unqueue, Stop
  <2> QED
    BY <1>1, <2>1, OpenFrame
<1>3. CASE Interrupt(c)
  <2>1. /\ UNCHANGED <<seen, answering, answered>>
        /\ closed' = closed \cup (pending \cap Questions)
    BY <1>3 DEF Interrupt, ClearPending
  <2> QED
    BY <1>1, <2>1, OpenFrame
<1>4. ASSUME NEW r \in Requests, Reply(c, r) PROVE QuestionsStayOpen'
  <2>1. /\ UNCHANGED <<seen, answering, answered, closed>>
        /\ pending' = pending \ {r} /\ r \notin Questions
    BY <1>4, CodexAssumption DEF Reply
  <2> QED
    BY <1>1, <2>1, OpenFrame
<1>5. ASSUME NEW q \in Questions, Dismiss(c, q) PROVE QuestionsStayOpen'
  <2>1. /\ UNCHANGED <<seen, answering, answered>>
        /\ pending' = pending \ {q} /\ closed' = closed \cup {q}
    BY <1>5 DEF Dismiss
  <2> QED
    BY <1>1, <2>1, OpenFrame
<1>6. ASSUME NEW q \in Questions, Answer(c, q) PROVE QuestionsStayOpen'
  <2>1. /\ UNCHANGED <<seen, answered, closed>> /\ pending' = pending \ {q}
        /\ c \notin used /\ answering' = [answering EXCEPT ![c] = q]
    BY <1>6 DEF Answer, Submit
  <2>2. answering[c] = None
    BY <1>1, <2>1 DEF Messages, UnusedSound
  <2>3. /\ answering'[c] = q
        /\ \A d \in Clients : d # c => answering'[d] = answering[d]
    BY <1>1, <2>1 DEF TypeOK
  <2> QED
    BY <1>1, <2>1, <2>2, <2>3, CodexAssumption DEF QuestionsStayOpen, TypeOK
<1> QED
  BY <1>2, <1>3, <1>4, <1>5, <1>6

LEMMA OpenConsume ==
    ASSUME IInv, TypeOK', Questioned, QuestionsStayOpen, Consume
    PROVE  QuestionsStayOpen'
<1> USE DEF memory, aside, codex, asks, messages, questions, turnends,
            history
<1>1. TypeOK /\ Messages
  BY DEF IInv
<1>2. ASSUME UNCHANGED <<seen, answering, answered>>,
             closed \subseteq closed',
             pending \cap Questions \subseteq pending' \cup closed'
      PROVE  QuestionsStayOpen'
  BY <1>1, <1>2, OpenFrame
<1>3. CASE \/ Greeted \/ ThreadReady \/ SteerTaken \/ SteerRefused
           \/ DeadlineRefused \/ Unremarkable \/ TurnStarted
  BY <1>2, <1>3
  DEF Greeted, ThreadReady, SteerTaken, SteerRefused, DeadlineRefused,
      Unremarkable, TurnStarted
<1>4. CASE RequestRefused
  BY <1>2, <1>4 DEF RequestRefused, ClearPending
<1>5. CASE TurnCompleted
  <2>1. pending' = pending \cap Questions \/ pending' = pending
    BY <1>5 DEF TurnCompleted, Remaining
  <2> QED
    BY <1>2, <1>5, <2>1 DEF TurnCompleted
<1>6. CASE Asked
  BY <1>2, <1>6 DEF Asked
<1>7. CASE Resolved
  <2>1. Head(notices) \in Reported /\ Head(notices).kind = "resolved"
    BY <1>1, <1>7, HeadTailProperties DEF Resolved, Noticed, TypeOK
  <2>2. Subject \notin Questions
    BY <2>1, CodexAssumption DEF Reported, Subject
  <2> QED
    BY <1>2, <1>7, <2>2 DEF Resolved
<1>8. CASE Wondered
  <2>1. /\ pending' = Posed(Subject) /\ seen' = seen \cup {Subject}
        /\ UNCHANGED <<answering, answered, closed>>
    BY <1>8 DEF Wondered
  <2>2. CASE Subject \in seen
    <3>1. pending' = pending /\ seen' = seen
      BY <2>1, <2>2 DEF Posed
    <3> QED
      BY <1>2, <2>1, <3>1
  <2>3. CASE Subject \notin seen
    <3>1. pending' = pending \cup {Subject}
      BY <2>1, <2>3 DEF Posed
    <3> QED
      BY <2>1, <3>1 DEF QuestionsStayOpen
  <2> QED
    BY <2>2, <2>3
<1>9. CASE AnswerReplied
  <2>1. /\ Named \in Clients
        /\ answering' = [answering EXCEPT ![Named] = None]
        /\ pending' = Restored(Named) /\ UNCHANGED <<seen, answered, closed>>
    BY <1>9 DEF AnswerReplied, IsAnswer
  <2>2. \A d \in Clients : d # Named => answering'[d] = answering[d]
    BY <1>1, <2>1 DEF TypeOK
  <2>3. \/ answering[Named] \in pending'
        \/ answered[answering[Named]] = 1
    <3>1. CASE Head(replies).kind = "refused"
      BY <2>1, <3>1 DEF Restored
    <3>2. CASE Head(replies).kind # "refused"
      BY <1>9, <3>2, QuestionReplied
    <3> QED
      BY <3>1, <3>2
  <2>4. pending \subseteq pending'
    BY <2>1 DEF Restored
  <2> QED
    BY <2>1, <2>2, <2>3, <2>4 DEF QuestionsStayOpen
<1> QED
  BY <1>3, <1>4, <1>5, <1>6, <1>7, <1>8, <1>9 DEF Consume

(* QuestionsStayOpen, given where the answers are, is inductive.            *)
LEMMA OpenStep ==
    ASSUME IInv, TypeOK', Questioned, Questioned', QuestionsStayOpen,
           [Next]_vars
    PROVE  QuestionsStayOpen'
<1> USE DEF memory, aside, outbox, codex, asks, messages, questions,
            turnends, history
<1>1. TypeOK /\ Messages
  BY DEF IInv
<1>2. ASSUME UNCHANGED <<seen, answering, answered>>,
             closed \subseteq closed',
             pending \cap Questions \subseteq pending' \cup closed'
      PROVE  QuestionsStayOpen'
  BY <1>1, <1>2, OpenFrame
<1>3. CASE Deliver \/ Watch \/ Dies \/ UNCHANGED vars
  BY <1>2, <1>3 DEF Deliver, Watch, DeadlinePasses, GraceEnds, Dies, vars
<1>4. CASE Finish
  BY <1>2, <1>4 DEF Finish, ClearPending
<1>5. CASE Turns \/ Finishes \/ Chatters
  BY <1>2, <1>5
  DEF Turns, Finishes, Chatters, Begins, TakesUp, Completes, Repeats, Asks,
      Withdraws, Poses
<1>6. CASE Greets \/ Accepts \/ Refuses \/ Steers \/ Interrupts \/ HearsReply
  BY <1>2, <1>6
  DEF Greets, Accepts, Refuses, Steers, Interrupts, HearsReply
<1>7. CASE HearsAnswer
  <2>1. /\ UNCHANGED <<seen, answering, pending, closed>>
        /\ \/ answered' = [answered EXCEPT ![answering[Wanted.id]] = @ + 1]
           \/ answered' = answered
    BY <1>7 DEF HearsAnswer
  <2>2. ASSUME NEW q \in Questions, answered[q] = 1
        PROVE  answered'[q] = 1
    <3>1. answered'[q] \in {answered[q], answered[q] + 1}
      BY <1>1, <2>1 DEF TypeOK
    <3>2. answered'[q] <= 1
      BY DEF Questioned, PendingSound
    <3> QED
      BY <2>2, <3>1, <3>2
  <2> QED
    BY <1>1, <2>1, <2>2, OpenFrame
<1> QED
  BY <1>3, <1>4, <1>5, <1>6, <1>7, OpenCommand, OpenConsume DEF Next, Read

(* codex_questions.go: an async question outlives its turn.  Once shown, it *)
(* stays open until a person answers it, dismisses it or interrupts, or the *)
(* run ends: a repeat does not lose it, nor does an answer Codex refused.   *)
THEOREM CodexKeepsQuestions == Spec => []QuestionsStayOpen
<1>1. Init => QuestionsStayOpen
  BY DEF Init, QuestionsStayOpen
<1>2. IInv /\ Questioned /\ (IInv /\ Questioned)' /\ QuestionsStayOpen
          /\ [Next]_vars => QuestionsStayOpen'
  BY OpenStep DEF IInv
<1> QED
  BY <1>1, <1>2, QuestionInvariant, PTL DEF Spec
=============================================================================
