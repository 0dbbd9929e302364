--------------------------- MODULE CodexShowsProofs ---------------------------
(***************************************************************************)
(* What the supervisor shows of Codex, proved for any number of clients,    *)
(* requests and questions: the turn that runs, that it rests when Codex     *)
(* rests, and the requests Codex waits on.                                  *)
(*                                                                         *)
(* Between the two are the notices Codex has written and the supervisor has *)
(* not read.  What is shown after the first i of them, Open and Shown, does *)
(* not change when the supervisor reads one of the i, nor when Codex writes *)
(* one more; so the invariant says of every i what is shown then, and that  *)
(* after the last of them it is what Codex does.                            *)
(***************************************************************************)
EXTENDS CodexTurnProofs

-----------------------------------------------------------------------------
(* Notices, and what the supervisor shows after the first i of them.        *)

StartOf(t)   == [kind |-> "started", id |-> t]
EndOf(t)     == [kind |-> "completed", id |-> t]
AskOf(r)     == [kind |-> "ask", id |-> r]
ResolveOf(r) == [kind |-> "resolved", id |-> r]

(* A notice takes turn t from what is shown.                                *)
Stops(n, t, k) == n[k].kind = "started" \/ n[k] = EndOf(t)

(* Turn t is shown after i of the notices n, if x was before them.          *)
OpenIn(n, x, t, i) ==
    \E j \in 0..i :
        /\ IF j = 0 THEN x = t ELSE n[j] = StartOf(t)
        /\ \A k \in j + 1..i : ~Stops(n, t, k)

(* A notice takes r from what is shown.                                    *)
Clears(n, x, r, k) ==
    \/ n[k] = ResolveOf(r)
    \/ n[k].kind = "completed" /\ OpenIn(n, x, n[k].id, k - 1)

(* Request r is shown after i of them, if those in p were before them.      *)
ShownIn(n, x, p, r, i) ==
    \E j \in 0..i :
        /\ IF j = 0 THEN r \in p ELSE n[j] = AskOf(r)
        /\ \A k \in j + 1..i : ~Clears(n, x, r, k)

Open(t, i)  == OpenIn(notices, turn, t, i)
Shown(r, i) == ShownIn(notices, turn, pending, r, i)

(* The turn after one notice.                                              *)
After(x, h) ==
    IF h.kind = "started" THEN h.id ELSE IF h = EndOf(x) THEN None ELSE x

(* A notice is known by its kind and what it is about.                      *)
LEMMA Kinds ==
    ASSUME NEW e \in Reported
    PROVE  /\ e = [kind |-> e.kind, id |-> e.id]
           /\ e.kind \in {"started", "completed"} => e.id \in Clients
           /\ e.kind \in {"ask", "resolved"} => e.id \in Requests
           /\ e.kind = "started" => e = StartOf(e.id)
           /\ e.kind = "completed" => e = EndOf(e.id)
           /\ e.kind = "ask" => e = AskOf(e.id)
           /\ e.kind = "resolved" => e = ResolveOf(e.id)
BY DEF Reported, StartOf, EndOf, AskOf, ResolveOf

(* Reading a notice moves the others one place to the front.                *)
LEMMA Shift ==
    ASSUME NEW S, NEW n \in Seq(S), n # <<>>
    PROVE  /\ Tail(n) \in Seq(S) /\ Head(n) \in S /\ Head(n) = n[1]
           /\ Len(n) \in Nat \ {0} /\ Len(Tail(n)) = Len(n) - 1
           /\ \A i \in 1..Len(n) - 1 : Tail(n)[i] = n[i + 1]
           /\ \A i \in 2..Len(n) : n[i] = Tail(n)[i - 1]
<1>1. /\ Tail(n) \in Seq(S) /\ Head(n) \in S /\ Head(n) = n[1]
      /\ Len(n) \in Nat \ {0} /\ Len(Tail(n)) = Len(n) - 1
      /\ \A i \in 1..Len(Tail(n)) : Tail(n)[i] = n[i + 1]
  BY HeadTailProperties, LenProperties, EmptySeq
<1>2. ASSUME NEW i \in 2..Len(n) PROVE n[i] = Tail(n)[i - 1]
  <2>1. i - 1 \in 1..Len(Tail(n)) /\ (i - 1) + 1 = i
    BY <1>1
  <2> QED
    BY <2>1, <1>1
<1> QED
  BY <1>1, <1>2

(* Writing one leaves them where they are.                                  *)
LEMMA Extend ==
    ASSUME NEW S, NEW n \in Seq(S), NEW e \in S
    PROVE  /\ Append(n, e) \in Seq(S) /\ Len(n) \in Nat
           /\ Len(Append(n, e)) = Len(n) + 1
           /\ \A i \in 1..Len(n) : Append(n, e)[i] = n[i]
           /\ Append(n, e)[Len(n) + 1] = e
BY AppendProperties, LenProperties

-----------------------------------------------------------------------------
(* The turn shown.                                                         *)

(* Before any notice it is the one on display.                              *)
LEMMA TurnNow ==
    ASSUME NEW n, NEW x, NEW t
    PROVE  OpenIn(n, x, t, 0) <=> x = t
<1>1. 0..0 = {0} /\ 0 + 1..0 = {}
  OBVIOUS
<1> QED
  BY <1>1 DEF OpenIn

(* Each notice starts a turn, ends the one shown, or leaves it.             *)
LEMMA TurnStep ==
    ASSUME NEW n, NEW x, NEW t, NEW i \in Nat \ {0}
    PROVE  OpenIn(n, x, t, i) <=>
               \/ n[i] = StartOf(t)
               \/ OpenIn(n, x, t, i - 1) /\ ~Stops(n, t, i)
<1>1. ASSUME n[i] = StartOf(t) PROVE OpenIn(n, x, t, i)
  <2>1. i \in 0..i /\ i # 0 /\ i + 1..i = {}
    OBVIOUS
  <2> QED
    BY <2>1, <1>1 DEF OpenIn
<1>2. ASSUME OpenIn(n, x, t, i - 1), ~Stops(n, t, i)
      PROVE  OpenIn(n, x, t, i)
  <2>1. PICK j \in 0..i - 1 :
            /\ IF j = 0 THEN x = t ELSE n[j] = StartOf(t)
            /\ \A k \in j + 1..i - 1 : ~Stops(n, t, k)
    BY <1>2 DEF OpenIn
  <2>2. j \in 0..i /\ \A k \in j + 1..i : k \in j + 1..i - 1 \/ k = i
    OBVIOUS
  <2> QED
    BY <2>1, <2>2, <1>2 DEF OpenIn
<1>3. ASSUME OpenIn(n, x, t, i), n[i] # StartOf(t)
      PROVE  OpenIn(n, x, t, i - 1) /\ ~Stops(n, t, i)
  <2>1. PICK j \in 0..i :
            /\ IF j = 0 THEN x = t ELSE n[j] = StartOf(t)
            /\ \A k \in j + 1..i : ~Stops(n, t, k)
    BY <1>3 DEF OpenIn
  <2>2. j # i
    BY <2>1, <1>3
  <2>3. /\ j \in 0..i - 1 /\ i \in j + 1..i
        /\ \A k \in j + 1..i - 1 : k \in j + 1..i
    BY <2>2
  <2> QED
    BY <2>1, <2>3 DEF OpenIn
<1> QED
  BY <1>1, <1>2, <1>3

(* What is written later does not change it.                                *)
LEMMA TurnKept ==
    ASSUME NEW n \in Seq(Reported), NEW e \in Reported, NEW x, NEW t,
           NEW i \in 0..Len(n)
    PROVE  OpenIn(Append(n, e), x, t, i) <=> OpenIn(n, x, t, i)
<1>1. Len(n) \in Nat /\ \A k \in 1..Len(n) : Append(n, e)[k] = n[k]
  BY Extend
<1>2. \A j \in 0..i : (j = 0 \/ j \in 1..Len(n))
                      /\ \A k \in j + 1..i : k \in 1..Len(n)
  BY <1>1
<1>3. \A k \in 1..Len(n) : Stops(Append(n, e), t, k) <=> Stops(n, t, k)
  BY <1>1 DEF Stops
<1>4. \A j \in 0..i :
          (\A k \in j + 1..i : ~Stops(Append(n, e), t, k)) <=>
          (\A k \in j + 1..i : ~Stops(n, t, k))
  BY <1>2, <1>3
<1>5. \A j \in 0..i : (IF j = 0 THEN x = t ELSE Append(n, e)[j] = StartOf(t))
                      <=> (IF j = 0 THEN x = t ELSE n[j] = StartOf(t))
  BY <1>1, <1>2
<1> QED
  BY <1>4, <1>5 DEF OpenIn

(* What is read is on display.                                             *)
LEMMA TurnRead ==
    ASSUME NEW n \in Seq(Reported), n # <<>>, NEW x, NEW t \in Clients,
           NEW i \in 1..Len(n)
    PROVE  OpenIn(Tail(n), After(x, Head(n)), t, i - 1) <=> OpenIn(n, x, t, i)
<1> DEFINE m == Tail(n)  h == Head(n)  y == After(x, h)
<1>1. /\ h \in Reported /\ h = n[1] /\ Len(n) \in Nat \ {0}
      /\ \A k \in 1..Len(n) - 1 : m[k] = n[k + 1]
      /\ \A k \in 2..Len(n) : n[k] = m[k - 1]
  BY Shift
<1>2. t # None
  BY CodexAssumption
<1>3. y = t <=> \/ h = StartOf(t)
                \/ x = t /\ ~Stops(n, t, 1)
  BY <1>1, <1>2, Kinds DEF After, Stops, StartOf, EndOf
<1>4. \A k \in 2..Len(n) : Stops(m, t, k - 1) <=> Stops(n, t, k)
  BY <1>1 DEF Stops
<1> HIDE DEF m, h, y
<1>5. ASSUME OpenIn(n, x, t, i) PROVE OpenIn(m, y, t, i - 1)
  <2>1. PICK j \in 0..i :
            /\ IF j = 0 THEN x = t ELSE n[j] = StartOf(t)
            /\ \A k \in j + 1..i : ~Stops(n, t, k)
    BY <1>5 DEF OpenIn
  <2>2. CASE j = 0
    <3>1. y = t
      BY <2>1, <2>2, <1>1, <1>3
    <3>2. ASSUME NEW k \in 0 + 1..i - 1 PROVE ~Stops(m, t, k)
      <4>1. k + 1 \in j + 1..i /\ k + 1 \in 2..Len(n) /\ (k + 1) - 1 = k
        BY <2>2, <1>1
      <4> QED
        BY <2>1, <4>1, <1>4
    <3>3. 0 \in 0..i - 1
      OBVIOUS
    <3> QED
      BY <3>1, <3>2, <3>3 DEF OpenIn
  <2>3. CASE j # 0
    <3>1. j - 1 \in 0..i - 1 /\ (j - 1) + 1 = j
      BY <2>3
    <3>2. IF j - 1 = 0 THEN y = t ELSE m[j - 1] = StartOf(t)
      <4>1. n[j] = StartOf(t)
        BY <2>1, <2>3
      <4>2. CASE j = 1
        BY <1>1, <1>3, <4>1, <4>2
      <4>3. CASE j \in 2..Len(n)
        <5>1. n[j] = m[j - 1]
          BY <1>1, <4>3
        <5> QED
          BY <4>1, <4>3, <5>1
      <4> QED
        BY <2>1, <2>3, <4>2, <4>3, <1>1
    <3>3. ASSUME NEW k \in (j - 1) + 1..i - 1 PROVE ~Stops(m, t, k)
      <4>1. k + 1 \in j + 1..i /\ k + 1 \in 2..Len(n) /\ (k + 1) - 1 = k
        BY <2>3, <1>1
      <4> QED
        BY <2>1, <4>1, <1>4
    <3> QED
      BY <3>1, <3>2, <3>3 DEF OpenIn
  <2> QED
    BY <2>2, <2>3
<1>6. ASSUME OpenIn(m, y, t, i - 1) PROVE OpenIn(n, x, t, i)
  <2>1. PICK j \in 0..i - 1 :
            /\ IF j = 0 THEN y = t ELSE m[j] = StartOf(t)
            /\ \A k \in j + 1..i - 1 : ~Stops(m, t, k)
    BY <1>6 DEF OpenIn
  <2>2. \A k \in j + 2..i : k - 1 \in j + 1..i - 1 /\ k \in 2..Len(n)
    BY <1>1
  <2>3. \A k \in j + 2..i : ~Stops(n, t, k)
    BY <2>1, <2>2, <1>4
  <2>4. ASSUME j # 0 \/ n[1] = StartOf(t) PROVE OpenIn(n, x, t, i)
    <3>1. j + 1 \in 0..i /\ j + 1 # 0 /\ (j + 1) + 1 = j + 2
      OBVIOUS
    <3>2. n[j + 1] = StartOf(t)
      BY <2>1, <2>4, <1>1
    <3> QED
      BY <2>3, <3>1, <3>2 DEF OpenIn
  <2>5. ASSUME j = 0, n[1] # StartOf(t) PROVE OpenIn(n, x, t, i)
    <3>1. x = t /\ ~Stops(n, t, 1)
      BY <2>1, <2>5, <1>1, <1>3
    <3>2. 0 \in 0..i /\ \A k \in 0 + 1..i : k = 1 \/ k \in j + 2..i
      BY <2>5
    <3>3. \A k \in 0 + 1..i : ~Stops(n, t, k)
      BY <2>3, <3>1, <3>2
    <3> QED
      BY <3>1, <3>2, <3>3 DEF OpenIn
  <2> QED
    BY <2>4, <2>5
<1> QED
  BY <1>5, <1>6 DEF m, h, y

-----------------------------------------------------------------------------
(* The requests shown.                                                     *)

(* Before any notice they are the pending ones.                             *)
LEMMA ShownNow ==
    ASSUME NEW n, NEW x, NEW p, NEW r
    PROVE  ShownIn(n, x, p, r, 0) <=> r \in p
<1>1. 0..0 = {0} /\ 0 + 1..0 = {}
  OBVIOUS
<1> QED
  BY <1>1 DEF ShownIn

(* Each notice shows one, clears it, or leaves it.                          *)
LEMMA ShownStep ==
    ASSUME NEW n, NEW x, NEW p, NEW r, NEW i \in Nat \ {0}
    PROVE  ShownIn(n, x, p, r, i) <=>
               \/ n[i] = AskOf(r)
               \/ ShownIn(n, x, p, r, i - 1) /\ ~Clears(n, x, r, i)
<1>1. ASSUME n[i] = AskOf(r) PROVE ShownIn(n, x, p, r, i)
  <2>1. i \in 0..i /\ i # 0 /\ i + 1..i = {}
    OBVIOUS
  <2> QED
    BY <2>1, <1>1 DEF ShownIn
<1>2. ASSUME ShownIn(n, x, p, r, i - 1), ~Clears(n, x, r, i)
      PROVE  ShownIn(n, x, p, r, i)
  <2>1. PICK j \in 0..i - 1 :
            /\ IF j = 0 THEN r \in p ELSE n[j] = AskOf(r)
            /\ \A k \in j + 1..i - 1 : ~Clears(n, x, r, k)
    BY <1>2 DEF ShownIn
  <2>2. j \in 0..i /\ \A k \in j + 1..i : k \in j + 1..i - 1 \/ k = i
    OBVIOUS
  <2>3. \A k \in j + 1..i : ~Clears(n, x, r, k)
    BY <2>1, <2>2, <1>2
  <2> QED
    BY <2>1, <2>2, <2>3 DEF ShownIn
<1>3. ASSUME ShownIn(n, x, p, r, i), n[i] # AskOf(r)
      PROVE  ShownIn(n, x, p, r, i - 1) /\ ~Clears(n, x, r, i)
  <2>1. PICK j \in 0..i :
            /\ IF j = 0 THEN r \in p ELSE n[j] = AskOf(r)
            /\ \A k \in j + 1..i : ~Clears(n, x, r, k)
    BY <1>3 DEF ShownIn
  <2>2. j # i
    BY <2>1, <1>3
  <2>3. /\ j \in 0..i - 1 /\ i \in j + 1..i
        /\ \A k \in j + 1..i - 1 : k \in j + 1..i
    BY <2>2
  <2>4. \A k \in j + 1..i - 1 : ~Clears(n, x, r, k)
    BY <2>1, <2>3
  <2> QED
    BY <2>1, <2>3, <2>4 DEF ShownIn
<1> QED
  BY <1>1, <1>2, <1>3

(* What is written later does not change it.                                *)
LEMMA ShownKept ==
    ASSUME NEW n \in Seq(Reported), NEW e \in Reported, NEW x, NEW p, NEW r,
           NEW i \in 0..Len(n)
    PROVE  ShownIn(Append(n, e), x, p, r, i) <=> ShownIn(n, x, p, r, i)
<1>1. Len(n) \in Nat /\ \A k \in 1..Len(n) : Append(n, e)[k] = n[k]
  BY Extend
<1>2. \A j \in 0..i : (j = 0 \/ j \in 1..Len(n))
                      /\ \A k \in j + 1..i : k \in 1..Len(n)
                                             /\ k - 1 \in 0..Len(n)
  BY <1>1
<1>3. \A k \in 1..Len(n) : Clears(Append(n, e), x, r, k) <=> Clears(n, x, r, k)
  <2> SUFFICES ASSUME NEW k \in 1..Len(n)
               PROVE  Clears(Append(n, e), x, r, k) <=> Clears(n, x, r, k)
    OBVIOUS
  <2>1. k - 1 \in 0..Len(n) /\ Append(n, e)[k] = n[k]
    BY <1>1
  <2>2. OpenIn(Append(n, e), x, n[k].id, k - 1)
            <=> OpenIn(n, x, n[k].id, k - 1)
    BY <2>1, TurnKept
  <2> QED
    BY <2>1, <2>2 DEF Clears
<1>4. \A j \in 0..i :
          (\A k \in j + 1..i : ~Clears(Append(n, e), x, r, k)) <=>
          (\A k \in j + 1..i : ~Clears(n, x, r, k))
  BY <1>2, <1>3
<1>5. \A j \in 0..i : (IF j = 0 THEN r \in p ELSE Append(n, e)[j] = AskOf(r))
                      <=> (IF j = 0 THEN r \in p ELSE n[j] = AskOf(r))
  BY <1>1, <1>2
<1> QED
  BY <1>4, <1>5 DEF ShownIn

(* What is read is pending.                                                *)
LEMMA ShownRead ==
    ASSUME NEW n \in Seq(Reported), n # <<>>, NEW x, NEW p, NEW q, NEW r,
           r \in q <=> ShownIn(n, x, p, r, 1), NEW i \in 1..Len(n)
    PROVE  ShownIn(Tail(n), After(x, Head(n)), q, r, i - 1)
               <=> ShownIn(n, x, p, r, i)
<1> DEFINE m == Tail(n)  y == After(x, Head(n))
<1>1. /\ Len(n) \in Nat \ {0} /\ Head(n) = n[1]
      /\ \A k \in 1..Len(n) - 1 : m[k] = n[k + 1]
      /\ \A k \in 2..Len(n) : n[k] = m[k - 1]
      /\ \A k \in 1..Len(n) : n[k] \in Reported
  BY Shift, ElementOfSeq
<1>2. \A k \in 2..Len(n) : Clears(m, y, r, k - 1) <=> Clears(n, x, r, k)
  <2> SUFFICES ASSUME NEW k \in 2..Len(n)
               PROVE  Clears(m, y, r, k - 1) <=> Clears(n, x, r, k)
    OBVIOUS
  <2>1. m[k - 1] = n[k] /\ k - 1 \in 1..Len(n) /\ n[k] \in Reported
    BY <1>1
  <2>2. ASSUME n[k].kind = "completed"
        PROVE  OpenIn(m, y, n[k].id, k - 1 - 1)
                   <=> OpenIn(n, x, n[k].id, k - 1)
    <3>1. n[k].id \in Clients
      BY <2>1, <2>2, Kinds
    <3> QED
      BY <2>1, <3>1, TurnRead
  <2> QED
    BY <2>1, <2>2 DEF Clears
<1>3. r \in q <=> \/ n[1] = AskOf(r)
                  \/ r \in p /\ ~Clears(n, x, r, 1)
  <2>1. 1 \in Nat \ {0} /\ 1 - 1 = 0
    OBVIOUS
  <2> QED
    BY <2>1, ShownStep, ShownNow
<1> HIDE DEF m, y
<1>4. ASSUME ShownIn(n, x, p, r, i) PROVE ShownIn(m, y, q, r, i - 1)
  <2>1. PICK j \in 0..i :
            /\ IF j = 0 THEN r \in p ELSE n[j] = AskOf(r)
            /\ \A k \in j + 1..i : ~Clears(n, x, r, k)
    BY <1>4 DEF ShownIn
  <2>2. CASE j = 0
    <3>1. r \in q
      BY <2>1, <2>2, <1>3
    <3>2. ASSUME NEW k \in 0 + 1..i - 1 PROVE ~Clears(m, y, r, k)
      <4>1. k + 1 \in j + 1..i /\ k + 1 \in 2..Len(n) /\ (k + 1) - 1 = k
        BY <2>2, <1>1
      <4> QED
        BY <2>1, <4>1, <1>2
    <3>3. 0 \in 0..i - 1
      OBVIOUS
    <3> QED
      BY <3>1, <3>2, <3>3 DEF ShownIn
  <2>3. CASE j # 0
    <3>1. j - 1 \in 0..i - 1 /\ (j - 1) + 1 = j
      BY <2>3
    <3>2. IF j - 1 = 0 THEN r \in q ELSE m[j - 1] = AskOf(r)
      BY <2>1, <2>3, <1>1, <1>3
    <3>3. ASSUME NEW k \in (j - 1) + 1..i - 1 PROVE ~Clears(m, y, r, k)
      <4>1. k + 1 \in j + 1..i /\ k + 1 \in 2..Len(n) /\ (k + 1) - 1 = k
        BY <2>3, <1>1
      <4> QED
        BY <2>1, <4>1, <1>2
    <3> QED
      BY <3>1, <3>2, <3>3 DEF ShownIn
  <2> QED
    BY <2>2, <2>3
<1>5. ASSUME ShownIn(m, y, q, r, i - 1) PROVE ShownIn(n, x, p, r, i)
  <2>1. PICK j \in 0..i - 1 :
            /\ IF j = 0 THEN r \in q ELSE m[j] = AskOf(r)
            /\ \A k \in j + 1..i - 1 : ~Clears(m, y, r, k)
    BY <1>5 DEF ShownIn
  <2>2. \A k \in j + 2..i : k - 1 \in j + 1..i - 1 /\ k \in 2..Len(n)
    BY <1>1
  <2>3. \A k \in j + 2..i : ~Clears(n, x, r, k)
    BY <2>1, <2>2, <1>2
  <2>4. ASSUME j # 0 \/ n[1] = AskOf(r) PROVE ShownIn(n, x, p, r, i)
    <3>1. j + 1 \in 0..i /\ j + 1 # 0 /\ (j + 1) + 1 = j + 2
      OBVIOUS
    <3>2. n[j + 1] = AskOf(r)
      BY <2>1, <2>4, <1>1
    <3> QED
      BY <2>3, <3>1, <3>2 DEF ShownIn
  <2>5. ASSUME j = 0, n[1] # AskOf(r) PROVE ShownIn(n, x, p, r, i)
    <3>1. r \in p /\ ~Clears(n, x, r, 1)
      BY <2>1, <2>5, <1>3
    <3>2. 0 \in 0..i /\ \A k \in 0 + 1..i : k = 1 \/ k \in j + 2..i
      BY <2>5
    <3>3. \A k \in 0 + 1..i : ~Clears(n, x, r, k)
      BY <2>3, <3>1, <3>2
    <3> QED
      BY <3>1, <3>2, <3>3 DEF ShownIn
  <2> QED
    BY <2>4, <2>5
<1> QED
  BY <1>4, <1>5 DEF m, y

(* It depends on the pending ones only where r is one of them, and r is     *)
(* shown only if it is, or is asked in a notice.                            *)
LEMMA ShownFrom ==
    ASSUME NEW n, NEW x, NEW p, NEW q, NEW r, NEW i \in Nat
    PROVE  /\ (r \in q => r \in p) => (ShownIn(n, x, q, r, i)
                                       => ShownIn(n, x, p, r, i))
           /\ ShownIn(n, x, p, r, i) => \/ r \in p
                                        \/ \E j \in 1..i : n[j] = AskOf(r)
<1>1. \A j \in 0..i : j = 0 \/ j \in 1..i
  OBVIOUS
<1> QED
  BY <1>1 DEF ShownIn

-----------------------------------------------------------------------------
(* The invariant: what is shown after each notice.                          *)

(* Codex begins one turn at a time.                                         *)
OneRuns == \A s, t \in Running : s = t

(* After the last notice the turn shown is the one that runs.               *)
TurnSound ==
    \A t \in Clients : Open(t, Len(notices)) <=> life[t] = "running"

(* A turn starts when none is shown, and a request is made in a turn.       *)
NoticesSound ==
    \A i \in 1..Len(notices) :
        /\ notices[i].kind = "started" => \A t \in Clients : ~Open(t, i - 1)
        /\ notices[i].kind = "ask" => \E t \in Clients : Open(t, i)

(* A request Codex waits on is one of the turn that runs.                   *)
AskingSound ==
    \A r \in asking :
        /\ r \in pending => turn \in Clients /\ life[turn] = "running"
        /\ \A i \in 1..Len(notices) : notices[i] = AskOf(r) =>
               \E t \in Clients : life[t] = "running" /\ Open(t, i)

(* Requests are pending in a turn.                                         *)
BlockingSound == Blocking # {} => turn # None

(* A request is made once, and its reply is sent once.                      *)
PutSound ==
    /\ Blocking \subseteq put
    /\ \A i \in 1..Len(notices) : notices[i].kind = "ask" =>
           /\ notices[i].id \in put \ pending
           /\ \A m \in Items(inbox) : m.kind = "reply" => m.id # notices[i].id
           /\ \A j \in 1..Len(notices) : notices[j] = notices[i] => j = i
    /\ \A m \in Items(inbox) : m.kind = "reply" => m.id \in put \ pending

(* After the last notice no request is shown that Codex does not wait on.   *)
ShownSound == \A r \in Requests : Shown(r, Len(notices)) => r \in asking

Display ==
    /\ TurnSound /\ NoticesSound /\ AskingSound /\ BlockingSound /\ PutSound
    /\ ShownSound

(* A step keeps it if it leaves the notices and the turns alone, shows no   *)
(* request more, and replies to those it takes from the pending ones.       *)
LEMMA DisplayFrame ==
    ASSUME TypeOK, TypeOK', Display, UNCHANGED <<turn, notices, put>>,
           \A t \in Clients : life'[t] = "running" <=> life[t] = "running",
           pending' \cap Requests \subseteq pending,
           \A m \in Items(inbox') : m.kind = "reply" =>
               m \in Items(inbox) \/ m.id \in Blocking \ pending',
           asking' \subseteq asking,
           \A r \in asking \ asking' : ~Shown(r, Len(notices))
    PROVE  Display'
<1> USE DEF Display
<1>1. \A t, i : Open(t, i)' = Open(t, i)
  BY DEF Open
<1>2. \A r \in Requests : Shown(r, Len(notices))' => Shown(r, Len(notices))
  <2> SUFFICES ASSUME NEW r \in Requests
               PROVE  Shown(r, Len(notices))' => Shown(r, Len(notices))
    OBVIOUS
  <2>1. Len(notices) \in Nat
    BY LenProperties DEF TypeOK
  <2>2. r \in pending' => r \in pending
    OBVIOUS
  <2> QED
    BY <2>1, <2>2, ShownFrom DEF Shown
<1>3. TurnSound' /\ NoticesSound'
  BY <1>1 DEF TurnSound, NoticesSound
<1>4. asking \subseteq Requests /\ asking' \subseteq Requests
  BY DEF TypeOK
<1>5. AskingSound'
  <2>1. turn \in Clients /\ life[turn] = "running" =>
            turn' \in Clients /\ life'[turn'] = "running"
    OBVIOUS
  <2>2. ASSUME NEW r \in asking', r \in pending'
        PROVE  turn' \in Clients /\ life'[turn'] = "running"
    BY <1>4, <2>1, <2>2 DEF AskingSound
  <2>3. ASSUME NEW r \in asking', NEW i \in 1..Len(notices'),
               notices'[i] = AskOf(r)
        PROVE  \E t \in Clients : life'[t] = "running" /\ Open(t, i)'
    <3>1. PICK t \in Clients : life[t] = "running" /\ Open(t, i)
      BY <2>3 DEF AskingSound
    <3> QED
      BY <3>1, <1>1
  <2> QED
    BY <2>2, <2>3 DEF AskingSound
<1>6. BlockingSound' /\ Blocking' \subseteq Blocking
  BY DEF BlockingSound, Blocking
<1>7. PutSound'
  <2>1. Blocking' \subseteq put'
    BY <1>6 DEF PutSound
  <2>2. ASSUME NEW m \in Items(inbox'), m.kind = "reply"
        PROVE  /\ m.id \in put' \ pending'
               /\ \A i \in 1..Len(notices) :
                      notices[i].kind = "ask" => m.id # notices[i].id
    <3>1. CASE m \in Items(inbox)
      <4>1. m.id \in put
        BY <2>2, <3>1 DEF PutSound
      <4>2. m.id \in Requests
        BY <4>1 DEF TypeOK
      <4> QED
        BY <2>2, <3>1, <4>2 DEF PutSound
    <3>2. CASE m.id \in Blocking \ pending'
      BY <3>2 DEF PutSound, Blocking
    <3> QED
      BY <2>2, <3>1, <3>2
  <2>3. ASSUME NEW i \in 1..Len(notices), notices[i].kind = "ask"
        PROVE  notices[i].id \in put \ pending'
    <3>1. notices[i].id \in put \ pending
      BY <2>3 DEF PutSound
    <3>2. notices[i].id \in Requests
      BY <3>1 DEF TypeOK
    <3> QED
      BY <3>1, <3>2
  <2> QED
    BY <2>1, <2>2, <2>3 DEF PutSound
<1>8. ShownSound'
  BY <1>2 DEF ShownSound
<1> QED
  BY <1>3, <1>5, <1>6, <1>7, <1>8

(* Reading a notice keeps it, if it does to what is shown what the notice   *)
(* says.                                                                   *)
LEMMA DisplayRead ==
    ASSUME TypeOK, TypeOK', Display, notices # <<>>, notices' = Tail(notices),
           turn' = After(turn, Head(notices)),
           UNCHANGED <<inbox, life, asking, put>>,
           \A r \in Requests : r \in pending' <=> Shown(r, 1)
    PROVE  Display'
<1> USE DEF Display
<1> DEFINE n == Len(notices)  h == Head(notices)
<1>1. /\ notices \in Seq(Reported) /\ h = notices[1] /\ h \in Reported
      /\ n \in Nat \ {0} /\ Len(notices') = n - 1
      /\ \A i \in 1..n - 1 : notices'[i] = notices[i + 1]
  BY Shift DEF TypeOK
<1> HIDE DEF n, h
<1>10. /\ 1 \in 1..n /\ n \in 1..n /\ n - 1 \in Nat
       /\ \A i \in 1..n - 1 :
              i + 1 \in 1..n /\ i \in 1..n /\ (i + 1) - 1 = i
  BY <1>1
<1>2. ASSUME NEW t \in Clients, NEW i \in 1..n
      PROVE  Open(t, i - 1)' <=> Open(t, i)
  BY <1>1, TurnRead DEF Open, n
<1>3. ASSUME NEW r \in Requests, NEW i \in 1..n
      PROVE  Shown(r, i - 1)' <=> Shown(r, i)
  <2>1. r \in pending' <=> ShownIn(notices, turn, pending, r, 1)
    BY DEF Shown
  <2> QED
    BY <1>1, <2>1, ShownRead DEF Shown, n
<1>4. ASSUME NEW t \in Clients PROVE Open(t, 0)' <=> turn' = t
  BY TurnNow DEF Open
<1>5. ASSUME NEW t \in Clients PROVE Open(t, 0) <=> turn = t
  BY TurnNow DEF Open
<1>6. ASSUME NEW r \in Requests, r \in pending', h # AskOf(r)
      PROVE  r \in pending /\ turn \in Clients /\ turn' = turn
  <2>1. Shown(r, 0) /\ ~Clears(notices, turn, r, 1)
    <3>1. 1 \in Nat \ {0} /\ 1 - 1 = 0
      OBVIOUS
    <3> QED
      BY <3>1, <1>1, <1>6, <1>10, ShownStep DEF Shown
  <2>2. r \in pending
    BY <2>1, ShownNow DEF Shown
  <2>3. turn \in Clients
    BY <2>2 DEF BlockingSound, Blocking, TypeOK
  <2>4. h.kind # "started"
    BY <1>1, <1>5, <2>3 DEF NoticesSound, n
  <2>5. h # EndOf(turn)
    <3>1. OpenIn(notices, turn, turn, 1 - 1)
      BY TurnNow
    <3> QED
      BY <1>1, <2>1, <3>1 DEF Clears, EndOf
  <2> QED
    BY <2>2, <2>3, <2>4, <2>5 DEF After, h
<1>7. ASSUME NEW r \in Requests, h = AskOf(r)
      PROVE  /\ notices[1].kind = "ask" /\ notices[1].id = r
             /\ r \notin pending
  <2>1. notices[1].kind = "ask" /\ notices[1].id = r
    BY <1>1, <1>7 DEF AskOf
  <2> QED
    BY <1>10, <2>1 DEF PutSound, n
<1>8. TurnSound'
  BY <1>1, <1>2, <1>10 DEF TurnSound, n
<1>9. NoticesSound'
  <2> SUFFICES ASSUME NEW i \in 1..n - 1
               PROVE  /\ notices'[i].kind = "started" =>
                             \A t \in Clients : ~Open(t, i - 1)'
                      /\ notices'[i].kind = "ask" =>
                             \E t \in Clients : Open(t, i)'
    BY <1>1 DEF NoticesSound
  <2>1. /\ i + 1 \in 1..n /\ i \in 1..n /\ (i + 1) - 1 = i
        /\ notices'[i] = notices[i + 1]
    BY <1>1, <1>10
  <2>2. ASSUME NEW t \in Clients
        PROVE  /\ Open(t, i - 1)' <=> Open(t, i)
               /\ Open(t, i)' <=> Open(t, i + 1)
    <3>1. Open(t, (i + 1) - 1)' <=> Open(t, i + 1)
      BY <1>2, <2>1
    <3> QED
      BY <3>1, <2>1, <1>2
  <2> QED
    BY <2>1, <2>2 DEF NoticesSound, n
<1>11. AskingSound'
  <2> SUFFICES ASSUME NEW r \in asking
               PROVE  /\ r \in pending' =>
                             turn' \in Clients /\ life'[turn'] = "running"
                      /\ \A i \in 1..n - 1 : notices'[i] = AskOf(r) =>
                             \E t \in Clients :
                                 life'[t] = "running" /\ Open(t, i)'
    BY <1>1 DEF AskingSound
  <2>1. r \in Requests
    BY DEF TypeOK
  <2>2. ASSUME r \in pending', h = AskOf(r)
        PROVE  turn' \in Clients /\ life'[turn'] = "running"
    <3>1. PICK t \in Clients : life[t] = "running" /\ Open(t, 1)
      BY <1>1, <1>10, <2>2 DEF AskingSound, n
    <3>2. Open(t, 1 - 1)'
      BY <1>2, <1>10, <3>1
    <3>3. turn' = t
      BY <1>4, <3>2
    <3> QED
      BY <3>1, <3>3
  <2>3. ASSUME r \in pending', h # AskOf(r)
        PROVE  turn' \in Clients /\ life'[turn'] = "running"
    BY <1>6, <2>1, <2>3 DEF AskingSound
  <2>4. ASSUME NEW i \in 1..n - 1, notices'[i] = AskOf(r)
        PROVE  \E t \in Clients : life'[t] = "running" /\ Open(t, i)'
    <3>1. i + 1 \in 1..n /\ (i + 1) - 1 = i /\ notices[i + 1] = AskOf(r)
      BY <1>1, <1>10, <2>4
    <3>2. PICK t \in Clients : life[t] = "running" /\ Open(t, i + 1)
      BY <3>1 DEF AskingSound, n
    <3>3. Open(t, (i + 1) - 1)'
      BY <1>2, <3>1, <3>2
    <3> QED
      BY <3>1, <3>2, <3>3
  <2> QED
    BY <2>2, <2>3, <2>4
<1>12. BlockingSound'
  <2> SUFFICES ASSUME NEW r \in Requests, r \in pending'
               PROVE  turn' \in Clients
    BY CodexAssumption DEF BlockingSound, Blocking
  <2>1. CASE h = AskOf(r)
    <3>1. PICK t \in Clients : Open(t, 1)
      BY <1>1, <1>7, <1>10, <2>1 DEF NoticesSound, n
    <3>2. Open(t, 1 - 1)'
      BY <1>2, <1>10, <3>1
    <3> QED
      BY <1>4, <3>2
  <2> QED
    BY <1>6, <2>1
<1>13. PutSound'
  <2>1. ASSUME NEW r \in Requests, r \in pending'
        PROVE  r \in pending \/ h = AskOf(r)
    BY <1>6, <2>1
  <2>2. ASSUME NEW r \in Requests, h = AskOf(r)
        PROVE  /\ r \in put
               /\ \A m \in Items(inbox) : m.kind = "reply" => m.id # r
               /\ \A i \in 2..n : notices[i] # h
    <3>1. notices[1].kind = "ask" /\ notices[1].id = r
      BY <1>7, <2>2
    <3>2. \A i \in 2..n : i \in 1..n /\ i # 1
      OBVIOUS
    <3> QED
      BY <1>1, <1>10, <3>1, <3>2 DEF PutSound, n
  <2>3. Blocking' \subseteq put'
    BY <2>1, <2>2 DEF PutSound, Blocking
  <2>4. ASSUME NEW m \in Items(inbox'), m.kind = "reply"
        PROVE  m.id \in put' \ pending'
    <3>1. m \in Items(inbox)
      OBVIOUS
    <3>2. m.id \in put \ pending
      BY <2>4, <3>1 DEF PutSound
    <3>3. m.id \in Requests
      BY <3>2 DEF TypeOK
    <3> QED
      BY <2>1, <2>2, <2>4, <3>1, <3>2, <3>3
  <2>5. ASSUME NEW i \in 1..n - 1, notices'[i].kind = "ask"
        PROVE  /\ notices'[i].id \in put' \ pending'
               /\ \A m \in Items(inbox') :
                      m.kind = "reply" => m.id # notices'[i].id
               /\ \A j \in 1..n - 1 : notices'[j] = notices'[i] => j = i
    <3>1. /\ i + 1 \in 1..n /\ i + 1 \in 2..n
          /\ notices'[i] = notices[i + 1]
      BY <1>1, <1>10
    <3>2. /\ notices[i + 1].id \in put \ pending
          /\ \A m \in Items(inbox) :
                 m.kind = "reply" => m.id # notices[i + 1].id
          /\ \A j \in 1..n : notices[j] = notices[i + 1] => j = i + 1
      BY <2>5, <3>1 DEF PutSound, n
    <3>3. notices[i + 1].id \in Requests
      BY <3>2 DEF TypeOK
    <3>4. h # AskOf(notices[i + 1].id)
      <4>1. notices[i + 1] \in Reported
        BY <1>1, <3>1, ElementOfSeq DEF n
      <4>2. notices[i + 1] = AskOf(notices[i + 1].id)
        BY <4>1, <2>5, <3>1, Kinds
      <4> QED
        BY <2>2, <3>1, <3>3, <4>2
    <3>5. notices[i + 1].id \notin pending'
      BY <2>1, <3>2, <3>3, <3>4
    <3>6. ASSUME NEW j \in 1..n - 1, notices'[j] = notices'[i] PROVE j = i
      <4>1. j + 1 \in 1..n /\ notices[j + 1] = notices[i + 1]
        BY <1>1, <1>10, <3>1, <3>6
      <4>2. j + 1 = i + 1
        BY <3>2, <4>1
      <4> QED
        BY <4>2
    <3> QED
      BY <3>1, <3>2, <3>5, <3>6
  <2> QED
    BY <1>1, <2>3, <2>4, <2>5 DEF PutSound
<1>14. ShownSound'
  BY <1>1, <1>3, <1>10 DEF ShownSound, n
<1> QED
  BY <1>8, <1>9, <1>11, <1>12, <1>13, <1>14

(* Writing one keeps it, if it says what Codex does.                        *)
LEMMA DisplayWritten ==
    ASSUME TypeOK, TypeOK', Display, NEW e \in Reported,
           notices' = Append(notices, e), UNCHANGED <<turn, pending>>,
           Items(inbox') \subseteq Items(inbox), put \subseteq put',
           \A t \in Clients : life'[t] = "running" <=>
               \/ e = StartOf(t)
               \/ life[t] = "running" /\ e.kind # "started" /\ e # EndOf(t),
           e.kind = "started" => ~InTurn,
           e.kind = "ask" => e.id \in put' \ put /\ InTurn,
           \A r \in Requests : r \in asking' <=>
               \/ e = AskOf(r)
               \/ /\ r \in asking /\ e # ResolveOf(r)
                  /\ ~(e.kind = "completed" /\ life[e.id] = "running")
    PROVE  Display'
<1> USE DEF Display
<1> PICK n \in Nat : n = Len(notices)
  BY LenProperties DEF TypeOK
<1>1. /\ notices \in Seq(Reported) /\ n \in Nat /\ Len(notices') = n + 1
      /\ \A i \in 1..n : notices'[i] = notices[i]
      /\ notices'[n + 1] = e
  BY Extend DEF TypeOK
<1>2. /\ n + 1 \in Nat \ {0} /\ (n + 1) - 1 = n /\ n \in 0..n
      /\ \A i \in 1..n + 1 : i \in 1..n \/ i = n + 1
      /\ \A i \in 1..n : i \in 0..n /\ i - 1 \in 0..n /\ i # n + 1
  BY <1>1
<1>3. ASSUME NEW t \in Clients, NEW i \in 0..n
      PROVE  Open(t, i)' <=> Open(t, i)
  BY <1>1, TurnKept DEF Open
<1>4. ASSUME NEW t \in Clients
      PROVE  Open(t, n + 1)' <=> \/ e = StartOf(t)
                                 \/ Open(t, n) /\ e.kind # "started"
                                    /\ e # EndOf(t)
  <2>1. Open(t, n + 1)' <=> \/ e = StartOf(t)
                            \/ Open(t, n)' /\ ~Stops(notices', t, n + 1)
    BY <1>1, <1>2, TurnStep DEF Open
  <2> QED
    BY <2>1, <1>1, <1>2, <1>3 DEF Stops
<1>5. ASSUME NEW t \in Clients PROVE Open(t, n) <=> life[t] = "running"
  BY DEF TurnSound
<1>6. ASSUME NEW r \in Requests, Shown(r, n + 1)', e # AskOf(r)
      PROVE  /\ Shown(r, n) /\ e # ResolveOf(r)
             /\ ~(e.kind = "completed" /\ life[e.id] = "running")
  <2>1. Shown(r, n)' /\ ~Clears(notices', turn', r, n + 1)
    BY <1>1, <1>2, <1>6, ShownStep DEF Shown
  <2>2. Shown(r, n)
    BY <1>1, <1>2, <2>1, ShownKept DEF Shown
  <2>3. ASSUME e.kind = "completed", life[e.id] = "running" PROVE FALSE
    <3>1. e.id \in Clients
      BY <2>3, Kinds
    <3>2. Open(e.id, n)'
      BY <3>1, <2>3, <1>2, <1>3, <1>5
    <3> QED
      BY <2>1, <2>3, <3>2, <1>1, <1>2 DEF Clears, Open
  <2> QED
    BY <2>1, <2>2, <2>3, <1>1 DEF Clears
<1>7. ASSUME NEW t \in Clients, life[t] = "running",
             ~(e.kind = "completed" /\ life[e.id] = "running")
      PROVE  life'[t] = "running"
  BY <1>7 DEF InTurn, EndOf
<1>8. TurnSound'
  BY <1>1, <1>4, <1>5 DEF TurnSound
<1>9. NoticesSound'
  <2>1. ASSUME NEW i \in 1..n
        PROVE  /\ notices'[i].kind = "started" =>
                      \A t \in Clients : ~Open(t, i - 1)'
               /\ notices'[i].kind = "ask" => \E t \in Clients : Open(t, i)'
    <3>1. /\ notices[i].kind = "started" => \A t \in Clients : ~Open(t, i - 1)
          /\ notices[i].kind = "ask" => \E t \in Clients : Open(t, i)
      BY DEF NoticesSound
    <3>2. notices'[i] = notices[i] /\ i \in 0..n /\ i - 1 \in 0..n
      BY <1>1, <1>2
    <3>3. \A t \in Clients : /\ Open(t, i - 1)' <=> Open(t, i - 1)
                             /\ Open(t, i)' <=> Open(t, i)
      BY <1>3, <3>2
    <3> QED
      BY <3>1, <3>2, <3>3
  <2>2. e.kind = "started" => \A t \in Clients : ~Open(t, (n + 1) - 1)'
    BY <1>2, <1>3, <1>5 DEF InTurn
  <2>3. e.kind = "ask" => \E t \in Clients : Open(t, n + 1)'
    BY <1>4, <1>5 DEF InTurn, EndOf
  <2> QED
    BY <1>1, <1>2, <2>1, <2>2, <2>3 DEF NoticesSound
<1>10. ASSUME NEW r \in put PROVE e # AskOf(r)
  BY DEF AskOf
<1>11. AskingSound'
  <2> SUFFICES ASSUME NEW r \in asking'
               PROVE  /\ r \in pending' =>
                             turn' \in Clients /\ life'[turn'] = "running"
                      /\ \A i \in 1..n + 1 : notices'[i] = AskOf(r) =>
                             \E t \in Clients :
                                 life'[t] = "running" /\ Open(t, i)'
    BY <1>1 DEF AskingSound
  <2>1. r \in Requests
    BY DEF TypeOK
  <2>2. ASSUME r \in put
        PROVE  /\ r \in asking
               /\ ~(e.kind = "completed" /\ life[e.id] = "running")
    BY <1>10, <2>1, <2>2
  <2>3. ASSUME r \in pending'
        PROVE  turn' \in Clients /\ life'[turn'] = "running"
    <3>1. r \in put
      BY <2>1, <2>3 DEF PutSound, Blocking
    <3> QED
      BY <2>2, <2>3, <3>1, <1>7 DEF AskingSound
  <2>4. ASSUME NEW i \in 1..n, notices'[i] = AskOf(r)
        PROVE  \E t \in Clients : life'[t] = "running" /\ Open(t, i)'
    <3>1. notices[i] = AskOf(r)
      BY <1>1, <2>4
    <3>2. r \in put
      BY <3>1 DEF PutSound, AskOf
    <3>3. PICK t \in Clients : life[t] = "running" /\ Open(t, i)
      BY <2>2, <3>1, <3>2 DEF AskingSound
    <3> QED
      BY <1>2, <1>3, <1>7, <2>2, <3>2, <3>3
  <2>5. ASSUME e = AskOf(r)
        PROVE  \E t \in Clients : life'[t] = "running" /\ Open(t, n + 1)'
    <3>1. e.kind = "ask"
      BY <2>5 DEF AskOf
    <3>2. PICK t \in Clients : life[t] = "running"
      BY <3>1 DEF InTurn
    <3>3. life'[t] = "running"
      BY <1>7, <3>1, <3>2
    <3>4. Open(t, n + 1)'
      BY <1>4, <1>5, <3>1, <3>2 DEF EndOf
    <3> QED
      BY <3>3, <3>4
  <2> QED
    BY <1>1, <1>2, <2>3, <2>4, <2>5
<1>12. BlockingSound'
  BY DEF BlockingSound, Blocking
<1>13. PutSound'
  <2>1. Blocking' \subseteq put'
    BY DEF PutSound, Blocking
  <2>2. ASSUME NEW m \in Items(inbox'), m.kind = "reply"
        PROVE  m \in Items(inbox) /\ m.id \in put \ pending
    BY <2>2 DEF PutSound
  <2>3. ASSUME NEW i \in 1..n, notices[i].kind = "ask"
        PROVE  /\ notices[i].id \in put \ pending
               /\ \A m \in Items(inbox) : m.kind = "reply" =>
                      m.id # notices[i].id
               /\ \A j \in 1..n : notices[j] = notices[i] => j = i
    BY <2>3 DEF PutSound
  <2>4. ASSUME NEW i \in 1..n, notices[i].kind = "ask" PROVE notices[i] # e
    BY <2>3, <2>4
  <2>5. e.kind = "ask" => /\ e.id \in put' \ pending'
                          /\ \A m \in Items(inbox') :
                                 m.kind = "reply" => m.id # e.id
    <3>1. ASSUME e.kind = "ask", e.id \in pending PROVE FALSE
      <4>1. e.id \in Requests
        BY <3>1, Kinds
      <4> QED
        BY <3>1, <4>1 DEF PutSound, Blocking
    <3> QED
      BY <3>1, <2>2
  <2> QED
    BY <1>1, <1>2, <2>1, <2>2, <2>3, <2>4, <2>5 DEF PutSound
<1>14. ShownSound'
  <2> SUFFICES ASSUME NEW r \in Requests, Shown(r, n + 1)'
               PROVE  r \in asking'
    BY <1>1 DEF ShownSound
  <2>1. CASE e = AskOf(r)
    BY <2>1
  <2>2. CASE e # AskOf(r)
    BY <2>2, <1>6 DEF ShownSound
  <2> QED
    BY <2>1, <2>2
<1> QED
  BY <1>8, <1>9, <1>11, <1>12, <1>13, <1>14

-----------------------------------------------------------------------------
(* What has become of a turn a client asked for.                            *)

(* A call with a turn behind it has been read, and is not in the slot.      *)
LifeSound ==
    \A c \in Clients : life[c] # "none" =>
        /\ c \in used /\ slot # c /\ c \notin steering
        /\ \A m \in Items(inbox) : ~Bears(m, c)

(* An answer on its way answers something.                                  *)
AnswerCalls ==
    \A m \in Items(inbox) : m.kind = "answer" => answering[m.id] # None

Lives == OneRuns /\ LifeSound /\ AnswerCalls

(* A step keeps them if it begins nothing, and calls in the name of clients *)
(* no turn was begun for.                                                   *)
LEMMA LivesFrame ==
    ASSUME TypeOK, Lives, used \subseteq used', steering' \subseteq steering,
           \A c \in Clients : slot' = c => slot = c \/ life[c] = "none",
           \A c \in Clients : life'[c] # "none" => life[c] # "none",
           Running' \subseteq Running,
           \A m \in Items(inbox') :
               \/ m \in Items(inbox)
               \/ /\ m.kind = "answer" => answering'[m.id] # None
                  /\ \A c \in Clients : Bears(m, c) => life[c] = "none",
           \A m \in Items(inbox) : m.kind = "answer" =>
               answering'[m.id] = answering[m.id]
    PROVE  Lives'
<1>1. OneRuns'
  BY DEF Lives, OneRuns
<1>2. LifeSound'
  BY DEF Lives, LifeSound
<1>3. AnswerCalls'
  BY DEF Lives, AnswerCalls, Items
<1> QED
  BY <1>1, <1>2, <1>3 DEF Lives

(* The same for a step that writes one call.                                *)
LEMMA LivesWritten ==
    ASSUME TypeOK, Lives, NEW kind, NEW id, NEW t,
           [kind |-> kind, id |-> id, turn |-> t] \in Called,
           Write(kind, id, t),
           kind # "reply" /\ id \in Clients => life[id] = "none",
           kind = "answer" => answering'[id] # None,
           used \subseteq used', steering' \subseteq steering, life' = life,
           \A c \in Clients : slot' = c => slot = c \/ life[c] = "none",
           \A m \in Items(inbox) : m.kind = "answer" =>
               answering'[m.id] = answering[m.id]
    PROVE  Lives'
<1>1. \A m \in Items(inbox') :
          m \in Items(inbox) \/ (m.kind = kind /\ m.id = id)
  BY Written
<1>2. \A m \in Items(inbox') :
          \/ m \in Items(inbox)
          \/ /\ m.kind = "answer" => answering'[m.id] # None
             /\ \A c \in Clients : Bears(m, c) => life[c] = "none"
  BY <1>1 DEF Bears
<1>3. Running' \subseteq Running
  BY DEF Running
<1> QED
  BY <1>2, <1>3, LivesFrame

(* Commands.                                                               *)
LEMMA LivesCommand ==
    ASSUME IInv, Questioned, Lives, NEW c \in Clients,
           \/ SendStart(c) \/ SendSteer(c) \/ SendLater(c) \/ Unqueue(c)
           \/ Interrupt(c) \/ Stop(c)
           \/ \E r \in Requests : Reply(c, r)
           \/ \E q \in Questions : Answer(c, q) \/ Dismiss(c, q)
    PROVE  Lives'
<1> USE DEF aside, outbox, codex, asks, messages, questions, turnends, history
<1>1. TypeOK /\ Messages
  BY DEF IInv
<1>2. /\ c \notin used /\ used' = used \cup {c} /\ life[c] = "none"
      /\ ~Under(c) /\ pc = "free"
  BY <1>1
  DEF SendStart, SendSteer, SendLater, Unqueue, Interrupt, Stop, Reply,
      Answer, Dismiss, Submit, Receipt, Lives, LifeSound, Messages,
      UnusedSound, Untouched
<1>3. ASSUME UNCHANGED <<inbox, answering, life, steering>>,
             slot' \in {slot, None, c}
      PROVE  Lives'
  <2>1. Running' = Running
    BY <1>3 DEF Running
  <2> QED
    BY <1>1, <1>2, <1>3, <2>1, CodexAssumption, LivesFrame
<1>4. CASE SendStart(c)
  <2>1. /\ Write("start", c, None) /\ slot' \in {slot, None}
        /\ UNCHANGED <<steering, answering, life>>
    BY <1>4 DEF SendStart, Start, LogInput
  <2>2. [kind |-> "start", id |-> c, turn |-> None] \in Called
    BY DEF Called
  <2> QED
    BY <1>1, <1>2, <2>1, <2>2, LivesWritten, CodexAssumption
<1>5. CASE SendSteer(c)
  <2>1. /\ Write("steer", c, turn) /\ slot' = c /\ turn \in Clients
        /\ steering' = steering \cup {c} /\ UNCHANGED <<answering, life>>
    BY <1>1, <1>5 DEF SendSteer, HoldSteered, TypeOK
  <2>2. [kind |-> "steer", id |-> c, turn |-> turn] \in Called
    BY <2>1 DEF Called
  <2>3. \A m \in Items(inbox') :
            m \in Items(inbox) \/ (m.kind = "steer" /\ m.id = c)
    BY <1>1, <2>1, <2>2, Written
  <2>4. OneRuns'
    BY <2>1 DEF Lives, OneRuns, Running
  <2>5. LifeSound'
    BY <1>2, <2>1, <2>3 DEF Lives, LifeSound, Bears
  <2>6. AnswerCalls'
    BY <2>1, <2>3 DEF Lives, AnswerCalls, Items
  <2> QED
    BY <2>4, <2>5, <2>6 DEF Lives
<1>6. CASE SendLater(c) \/ Unqueue(c) \/ Stop(c)
  BY <1>3, <1>6 DEF SendLater, Unqueue, Stop, DropQueued
<1>7. CASE Interrupt(c)
  <2>1. /\ Write("interrupt", c, turn) /\ turn \in Clients
        /\ slot' \in {slot, None} /\ UNCHANGED <<steering, answering, life>>
    BY <1>1, <1>7 DEF Interrupt, DropQueued, TypeOK
  <2>2. [kind |-> "interrupt", id |-> c, turn |-> turn] \in Called
    BY <2>1 DEF Called
  <2> QED
    BY <1>1, <1>2, <2>1, <2>2, LivesWritten, CodexAssumption
<1>8. ASSUME NEW r \in Requests, Reply(c, r) PROVE Lives'
  <2>1. /\ Write("reply", r, None)
        /\ UNCHANGED <<slot, steering, answering, life>>
    BY <1>8 DEF Reply
  <2>2. [kind |-> "reply", id |-> r, turn |-> None] \in Called
    BY DEF Called
  <2> QED
    BY <1>1, <1>2, <2>1, <2>2, LivesWritten
<1>9. ASSUME NEW q \in Questions, Answer(c, q) PROVE Lives'
  <2>1. /\ Write("answer", c, None)
        /\ answering' = [answering EXCEPT ![c] = q]
        /\ UNCHANGED <<slot, steering, life>>
    BY <1>9 DEF Answer
  <2>2. [kind |-> "answer", id |-> c, turn |-> None] \in Called
    BY DEF Called
  <2>3. answering'[c] # None
    BY <1>1, <2>1, CodexAssumption DEF TypeOK
  <2>4. \A m \in Items(inbox) : m.kind = "answer" => m.id # c
    BY <1>2 DEF Under, Bears
  <2>5. \A m \in Items(inbox) : m.kind = "answer" =>
            answering'[m.id] = answering[m.id]
    BY <1>1, <2>1, <2>4 DEF TypeOK
  <2> QED
    BY <1>1, <1>2, <2>1, <2>2, <2>3, <2>5, LivesWritten
<1>10. ASSUME NEW q \in Questions, Dismiss(c, q) PROVE Lives'
  BY <1>3, <1>10 DEF Dismiss
<1> QED
  BY <1>4, <1>5, <1>6, <1>7, <1>8, <1>9, <1>10

(* Lines from Codex.                                                       *)
LEMMA LivesConsume ==
    ASSUME IInv, Questioned, Lives, Consume
    PROVE  Lives'
<1> USE DEF aside, outbox, codex, asks, messages, questions, turnends,
            history, memory
<1>1. TypeOK /\ Messages
  BY DEF IInv
<1>2. ASSUME UNCHANGED <<inbox, answering, life, used>>,
             steering' \subseteq steering, slot' \in {slot, None}
      PROVE  Lives'
  <2>1. Running' = Running
    BY <1>2 DEF Running
  <2> QED
    BY <1>1, <1>2, <2>1, CodexAssumption, LivesFrame
<1>3. CASE Greeted
  <2>1. /\ inbox' = inbox \/ Write("auth", None, None)
                         \/ Write("thread", None, None)
        /\ UNCHANGED <<answering, life, used, steering, slot>>
    BY <1>3 DEF Greeted
  <2>2. /\ [kind |-> "auth", id |-> None, turn |-> None] \in Called
        /\ [kind |-> "thread", id |-> None, turn |-> None] \in Called
    BY DEF Called
  <2>3. None \notin Clients
    BY CodexAssumption
  <2>4. CASE Write("auth", None, None)
    BY <1>1, <2>1, <2>2, <2>3, <2>4, LivesWritten
  <2>5. CASE Write("thread", None, None)
    BY <1>1, <2>1, <2>2, <2>3, <2>5, LivesWritten
  <2> QED
    BY <1>2, <2>1, <2>4, <2>5
<1>4. CASE AnswerReplied
  <2>1. PICK kind \in {"ok", "refused"} : Replied(kind)
    BY <1>4 DEF AnswerReplied
  <2>2. Named \in Clients /\ answering' = [answering EXCEPT ![Named] = None]
        /\ UNCHANGED <<inbox, life, used, steering, slot>>
    BY <1>4 DEF AnswerReplied, IsAnswer
  <2>3. \A m \in Items(inbox) : ~Bears(m, Named)
    BY <1>1, <2>1, <2>2, Consumed
  <2>4. \A m \in Items(inbox) : m.kind = "answer" => m.id # Named
    BY <2>3 DEF Bears
  <2>5. \A m \in Items(inbox) : m.kind = "answer" =>
            answering'[m.id] = answering[m.id]
    BY <1>1, <2>2, <2>4 DEF TypeOK
  <2>6. Running' = Running
    BY <2>2 DEF Running
  <2>7. Items(inbox') = Items(inbox)
    BY <2>2
  <2> QED
    BY <1>1, <2>2, <2>5, <2>6, <2>7, LivesFrame
<1>5. CASE ThreadReady \/ SteerTaken \/ SteerRefused \/ RequestRefused
           \/ DeadlineRefused \/ Unremarkable
  BY <1>2, <1>5
  DEF ThreadReady, SteerTaken, SteerRefused, RequestRefused, DeadlineRefused,
      Unremarkable, Answered, LogInput
<1>6. CASE TurnStarted \/ TurnCompleted \/ Asked \/ Resolved \/ Wondered
  BY <1>2, <1>6
  DEF TurnStarted, TurnCompleted, Asked, Resolved, Wondered
<1> QED
  BY <1>3, <1>4, <1>5, <1>6 DEF Consume

(* What is read is the first call, and no call behind it bears its id.      *)
LEMMA Reading ==
    ASSUME IInv, NEW kind, Reads(kind)
    PROVE  /\ inbox # <<>> /\ inbox' = Tail(inbox) /\ alive
           /\ Wanted \in Called /\ Wanted.kind = kind
           /\ Wanted \in Items(inbox)
           /\ Items(inbox) = Items(inbox') \cup {Wanted}
           /\ kind # "reply" /\ Wanted.id \in Clients =>
                  /\ \A m \in Items(inbox') : ~Bears(m, Wanted.id)
                  /\ \A n \in Items(replies) : n.id # Wanted.id
                  /\ Wanted.id \in used
           /\ kind \in {"start", "answer"} =>
                  /\ Wanted.id \in Clients /\ slot # Wanted.id
                  /\ Wanted.id \notin steering
<1>1. TypeOK /\ Messages
  BY DEF IInv
<1>2. /\ inbox \in Seq(Called) /\ inbox # <<>> /\ inbox' = Tail(inbox)
      /\ alive
      /\ Wanted = Head(inbox) /\ Wanted.kind = kind
  BY <1>1 DEF Reads, Wanted, TypeOK
<1>3. Wanted \in Called /\ Items(inbox) = Items(inbox') \cup {Wanted}
  BY <1>2, ItemsTail
<1>4. ASSUME kind # "reply", Wanted.id \in Clients
      PROVE  /\ \A m \in Items(inbox') : ~Bears(m, Wanted.id)
             /\ \A n \in Items(replies) : n.id # Wanted.id
             /\ Wanted.id \in used
             /\ Wanted.id \in steering => kind = "steer"
             /\ slot # Wanted.id \/ kind = "steer"
  <2>1. Bears(Wanted, Wanted.id) /\ Under(Wanted.id)
    BY <1>2, <1>3, <1>4 DEF Bears, Under
  <2>2. \A m \in Items(inbox') : ~Bears(m, Wanted.id)
    BY <1>1, <1>2, <1>4, <2>1, SingleTail DEF Messages, Once
  <2>3. \A n \in Items(replies) : ~Bears(n, Wanted.id)
    BY <1>1, <1>3, <1>4, <2>1 DEF Messages, Once
  <2>4. \A n \in Items(replies) : n.kind # "reply"
    <3>1. ASSUME NEW i \in 1..Len(replies) PROVE replies[i] \in Returned
      BY <1>1, ElementOfSeq DEF TypeOK
    <3> QED
      BY <3>1 DEF Items, Returned
  <2>5. Wanted.id \in used
    BY <1>1, <1>4, <2>1 DEF Messages, UnusedSound, Untouched
  <2>6. Wanted.id \in steering => kind = "steer"
    BY <1>1, <1>2, <1>3, <2>1 DEF Messages, SteerSound
  <2>7. slot = Wanted.id => Wanted.id \in steering
    BY <1>1, <1>4, <2>1 DEF Messages, SlotSound, Untouched
  <2> QED
    BY <2>2, <2>3, <2>4, <2>5, <2>6, <2>7 DEF Bears
<1>5. kind \in {"start", "answer"} => Wanted.id \in Clients
  BY <1>2, <1>3 DEF Called
<1> QED
  BY <1>2, <1>3, <1>4, <1>5

(* A call that Codex reads.                                                *)
LEMMA LivesRead ==
    ASSUME IInv, Lives, Read
    PROVE  Lives'
<1> USE DEF aside, outbox, codex, asks, messages, questions, turnends,
            history, memory
<1>1. TypeOK /\ Messages
  BY DEF IInv
<1>2. ASSUME NEW kind, Reads(kind),
             UNCHANGED <<used, steering, slot, answering>>,
             \A c \in Clients : life'[c] # "none" => life[c] # "none",
             Running' \subseteq Running
      PROVE  Lives'
  <2>1. Items(inbox') \subseteq Items(inbox)
    BY <1>2, Reading
  <2> QED
    BY <1>1, <1>2, <2>1, LivesFrame
<1>3. ASSUME NEW kind \in {"start", "answer"}, Reads(kind),
             UNCHANGED <<used, steering, slot, answering>>,
             \A c \in Clients : c # Wanted.id => life'[c] = life[c],
             life'[Wanted.id] \in {"starting", "running"} => Running = {}
      PROVE  Lives'
  <2>1. /\ Wanted.id \in Clients /\ Wanted.id \in used /\ slot # Wanted.id
        /\ Wanted.id \notin steering /\ Items(inbox') \subseteq Items(inbox)
        /\ \A m \in Items(inbox') : ~Bears(m, Wanted.id)
    BY <1>3, Reading
  <2>2. OneRuns'
    BY <1>3, <2>1 DEF Lives, OneRuns, Running
  <2>3. LifeSound'
    BY <1>3, <2>1 DEF Lives, LifeSound
  <2>4. AnswerCalls'
    BY <1>3, <2>1 DEF Lives, AnswerCalls
  <2> QED
    BY <2>2, <2>3, <2>4 DEF Lives
<1>4. CASE Greets
  <2>1. PICK kind \in {"initialize", "auth", "thread"} : Reads(kind)
    BY <1>4 DEF Greets
  <2>2. UNCHANGED <<used, steering, slot, answering, life>>
    BY <1>4 DEF Greets
  <2> QED
    BY <1>2, <2>1, <2>2 DEF Running
<1>5. CASE Accepts
  <2>1. /\ Reads("start") /\ UNCHANGED <<used, steering, slot, answering>>
        /\ life' = [life EXCEPT ![Wanted.id] =
                       IF Running = {} THEN "starting" ELSE "joined"]
    BY <1>5 DEF Accepts
  <2>2. Wanted.id \in Clients
    BY <2>1, Reading
  <2>3. /\ \A c \in Clients : c # Wanted.id => life'[c] = life[c]
        /\ life'[Wanted.id] \in {"starting", "running"} => Running = {}
    BY <1>1, <2>1, <2>2 DEF TypeOK
  <2> QED
    BY <1>3, <2>1, <2>3
<1>6. CASE Refuses
  <2>1. /\ Reads("start") /\ UNCHANGED <<used, steering, slot, answering>>
        /\ life' = [life EXCEPT ![Wanted.id] = "refused"]
    BY <1>6 DEF Refuses
  <2>2. Wanted.id \in Clients
    BY <2>1, Reading
  <2>3. /\ \A c \in Clients : c # Wanted.id => life'[c] = life[c]
        /\ life'[Wanted.id] = "refused"
    BY <1>1, <2>1, <2>2 DEF TypeOK
  <2> QED
    BY <1>3, <2>1, <2>3
<1>7. CASE Steers
  BY <1>2, <1>7 DEF Steers, Running
<1>8. CASE Interrupts
  <2>1. PICK kind \in {"interrupt", "deadline"} : Reads(kind)
    BY <1>8 DEF Interrupts
  <2>2. Wanted.turn \in Clients
    BY <2>1, Reading DEF Called
  <2>3. UNCHANGED <<used, steering, slot, answering>>
    BY <1>8 DEF Interrupts
  <2>4. life' \in {life, [life EXCEPT ![Wanted.turn] = "ended"]}
    BY <1>8 DEF Interrupts
  <2>5. life' # life => life[Wanted.turn] = "running"
    BY <1>8 DEF Interrupts
  <2>6. /\ \A c \in Clients : life'[c] # "none" => life[c] # "none"
        /\ Running' \subseteq Running
    BY <1>1, <2>2, <2>4, <2>5 DEF TypeOK, Running
  <2> QED
    BY <1>2, <2>1, <2>3, <2>6
<1>9. CASE HearsReply
  BY <1>2, <1>9 DEF HearsReply, Running
<1>10. CASE HearsAnswer
  <2>1. /\ Reads("answer") /\ UNCHANGED <<used, steering, slot, answering>>
        /\ life' \in {life, [life EXCEPT ![Wanted.id] = "held"]}
    BY <1>10 DEF HearsAnswer
  <2>2. Wanted.id \in Clients
    BY <2>1, Reading
  <2>3. CASE life' = life
    BY <1>2, <2>1, <2>3 DEF Running
  <2>4. CASE life' = [life EXCEPT ![Wanted.id] = "held"]
    <3>1. /\ \A c \in Clients : c # Wanted.id => life'[c] = life[c]
          /\ life'[Wanted.id] = "held"
      BY <1>1, <2>2, <2>4 DEF TypeOK
    <3> QED
      BY <1>3, <2>1, <3>1
  <2> QED
    BY <2>1, <2>3, <2>4
<1> QED
  BY <1>4, <1>5, <1>6, <1>7, <1>8, <1>9, <1>10 DEF Read

(* The delivery, the deadline, the end of the reader, and Codex on its own. *)
LEMMA LivesRest ==
    ASSUME IInv, Lives,
           \/ Deliver \/ Watch \/ Finish \/ Turns \/ Finishes \/ Chatters
           \/ Dies \/ UNCHANGED vars
    PROVE  Lives'
<1> USE DEF aside, outbox, codex, asks, messages, questions, turnends,
            history, memory
<1>1. TypeOK
  BY DEF IInv
<1>2. ASSUME UNCHANGED <<inbox, used, steering, slot, answering>>,
             \A c \in Clients : life'[c] # "none" => life[c] # "none",
             Running' \subseteq Running
      PROVE  Lives'
  <2>1. Items(inbox') = Items(inbox)
    BY <1>2
  <2> QED
    BY <1>1, <1>2, <2>1, LivesFrame
<1>3. CASE Deliver /\ MayDeliver
  <2>1. /\ slot \in Clients /\ Write("start", slot, None)
        /\ slot' \in {slot, None}
        /\ UNCHANGED <<used, steering, answering, life>>
    BY <1>1, <1>3 DEF Deliver, MayDeliver, Start, LogInput, TypeOK
  <2>2. [kind |-> "start", id |-> slot, turn |-> None] \in Called
    BY <2>1 DEF Called
  <2>3. life[slot] = "none"
    BY <2>1 DEF Lives, LifeSound
  <2> QED
    BY <1>1, <2>1, <2>2, <2>3, LivesWritten, CodexAssumption
<1>4. CASE Deliver /\ ~MayDeliver
  BY <1>2, <1>4 DEF Deliver, Running
<1>5. CASE DeadlinePasses
  <2>1. [kind |-> "deadline", id |-> None, turn |-> turn] \in Called
    BY <1>1, <1>5 DEF DeadlinePasses, Watched, Called, TypeOK
  <2>2. /\ Write("deadline", None, turn)
        /\ UNCHANGED <<used, steering, slot, answering, life>>
    BY <1>5 DEF DeadlinePasses
  <2> QED
    BY <1>1, <2>1, <2>2, LivesWritten, CodexAssumption
<1>6. CASE GraceEnds \/ Finish \/ Dies \/ UNCHANGED vars
  BY <1>2, <1>6 DEF GraceEnds, Finish, ClearPending, Dies, vars, Running
<1>7. ASSUME NEW t \in Clients, Begins(t) PROVE Lives'
  <2>1. /\ UNCHANGED <<inbox, used, steering, slot, answering>>
        /\ life[t] = "starting" /\ life' = [life EXCEPT ![t] = "running"]
    BY <1>7 DEF Begins
  <2>2. /\ \A c \in Clients : life'[c] # "none" => life[c] # "none"
        /\ Running' \subseteq Running
    BY <1>1, <2>1 DEF TypeOK, Running
  <2> QED
    BY <1>2, <2>1, <2>2
<1>8. ASSUME NEW t \in Clients, TakesUp(t) PROVE Lives'
  <2>1. /\ UNCHANGED <<inbox, used, steering, slot, answering>> /\ Running = {}
        /\ life[t] = "held" /\ life' = [life EXCEPT ![t] = "starting"]
    BY <1>8 DEF TakesUp
  <2>2. /\ \A c \in Clients : life'[c] # "none" => life[c] # "none"
        /\ Running' \subseteq {t}
    BY <1>1, <2>1 DEF TypeOK, Running
  <2>3. OneRuns'
    BY <2>2 DEF OneRuns
  <2>4. LifeSound' /\ AnswerCalls'
    BY <2>1, <2>2 DEF Lives, LifeSound, AnswerCalls, Items
  <2> QED
    BY <2>3, <2>4 DEF Lives
<1>9. ASSUME NEW t \in Clients, Completes(t) \/ Repeats(t) PROVE Lives'
  <2>1. /\ UNCHANGED <<inbox, used, steering, slot, answering>>
        /\ life[t] \in {"running", "ended"}
        /\ \/ life' = [life EXCEPT ![t] = "ended"]
           \/ life' = [life EXCEPT ![t] = "repeated"]
    BY <1>9 DEF Completes, Repeats
  <2>2. /\ \A c \in Clients : life'[c] # "none" => life[c] # "none"
        /\ Running' \subseteq Running
    BY <1>1, <2>1 DEF TypeOK, Running
  <2> QED
    BY <1>2, <2>1, <2>2
<1>10. ASSUME UNCHANGED <<inbox, memory, life>> PROVE Lives'
  BY <1>2, <1>10 DEF Running
<1>11. CASE Chatters
  BY <1>9, <1>10, <1>11 DEF Chatters, Asks, Withdraws, Poses
<1> QED
  BY <1>3, <1>4, <1>5, <1>6, <1>7, <1>8, <1>9, <1>11
  DEF Watch, Turns, Finishes

(* Every step keeps them.                                                  *)
LEMMA LivesStep ==
    ASSUME IInv, Questioned, Lives, [Next]_vars
    PROVE  Lives'
<1>1. CASE Command
  BY <1>1, LivesCommand DEF Command
<1> QED
  BY <1>1, LivesConsume, LivesRead, LivesRest DEF Next

-----------------------------------------------------------------------------
(* The handshake.  While it lasts, one line is under way and no turn, no     *)
(* request and no message is.                                               *)

HandCall(m)  == m.kind \in {"initialize", "auth", "thread"}
HandReply(n) ==
    \/ n.kind \in {"initialized", "authenticated", "unauthenticated",
                   "threaded"}
    \/ n.kind = "refused" /\ n.id = None
Hands ==
    \/ \E m \in Items(inbox) : HandCall(m)
    \/ \E n \in Items(replies) : HandReply(n)

Sole(s) == s # <<>> /\ Tail(s) = <<>>

Greeting ==
    Hands => /\ \/ Sole(inbox) /\ replies = <<>>
                \/ inbox = <<>> /\ Sole(replies)
             /\ notices = <<>> /\ turn = None /\ pending = {} /\ asking = {}
             /\ state \notin {"idle", "working", "waiting_input"}
             /\ \A c \in Clients : life[c] = "none"

(* A pipe with one line in it.                                              *)
LEMMA SoleLine ==
    ASSUME NEW S
    PROVE  /\ Items(<<>>) = {}
           /\ \A e \in S : Sole(Append(<<>>, e))
           /\ \A s \in Seq(S) : Sole(s) => Items(s) = {Head(s)}
<1>1. Items(<<>>) = {}
  BY DEF Items
<1>2. ASSUME NEW e \in S PROVE Sole(Append(<<>>, e))
  <2>1. /\ <<>> \in Seq(S) /\ Len(<<>>) = 0
        /\ Append(<<>>, e) \in Seq(S) /\ Len(Append(<<>>, e)) = 1
    BY EmptySeq, AppendProperties
  <2>2. Append(<<>>, e) # <<>>
    BY <2>1
  <2>3. Tail(Append(<<>>, e)) \in Seq(S) /\ Len(Tail(Append(<<>>, e))) = 0
    BY <2>1, <2>2, HeadTailProperties
  <2>4. Tail(Append(<<>>, e)) = <<>>
    BY <2>3, EmptySeq
  <2> QED
    BY <2>2, <2>4 DEF Sole
<1>3. ASSUME NEW s \in Seq(S), Sole(s) PROVE Items(s) = {Head(s)}
  <2>1. s # <<>> /\ Tail(s) = <<>>
    BY <1>3 DEF Sole
  <2>2. Items(s) = Items(Tail(s)) \cup {Head(s)}
    BY <2>1, ItemsTail
  <2> QED
    BY <1>1, <2>1, <2>2
<1> QED
  BY <1>1, <1>2, <1>3

(* It is over when a turn, a request or a notice is seen, and stays over     *)
(* while nothing of it is written.                                          *)
LEMMA NoHands ==
    ASSUME ~Hands,
           \A m \in Items(inbox') : m \in Items(inbox) \/ ~HandCall(m),
           \A n \in Items(replies') : n \in Items(replies) \/ ~HandReply(n)
    PROVE  Greeting'
<1>1. ~Hands'
  BY DEF Hands
<1> QED
  BY <1>1 DEF Greeting

(* Once it is over, a call of another kind does not bring it back.          *)
LEMMA NotWritten ==
    ASSUME TypeOK, ~Hands, NEW kind, NEW id, NEW t,
           [kind |-> kind, id |-> id, turn |-> t] \in Called,
           Write(kind, id, t), kind \notin {"initialize", "auth", "thread"},
           replies' = replies
    PROVE  Greeting'
<1>1. \A m \in Items(inbox') :
          m \in Items(inbox) \/ (m.kind = kind /\ m.id = id)
  BY Written
<1> QED
  BY <1>1, NoHands DEF HandCall

(* Nothing that matters to it changes.                                      *)
LEMMA StillHands ==
    ASSUME Greeting,
           UNCHANGED <<inbox, replies, notices, turn, asking, life>>,
           pending' \subseteq pending,
           state' = state \/ state' \notin {"idle", "working", "waiting_input"}
    PROVE  Greeting'
<1>1. Hands' = Hands
  BY DEF Hands
<1> QED
  BY <1>1 DEF Greeting

(* Commands.                                                               *)
LEMMA GreetingCommand ==
    ASSUME TypeOK, Greeting, NEW c \in Clients,
           \/ SendStart(c) \/ SendSteer(c) \/ SendLater(c) \/ Unqueue(c)
           \/ Interrupt(c) \/ Stop(c)
           \/ \E r \in Requests : Reply(c, r)
           \/ \E q \in Questions : Answer(c, q) \/ Dismiss(c, q)
    PROVE  Greeting'
<1> USE DEF aside, outbox, codex, asks, messages, questions, turnends, history
<1>1. CASE SendStart(c)
  <2>1. [kind |-> "start", id |-> c, turn |-> None] \in Called
    BY DEF Called
  <2>2. ~Hands /\ Write("start", c, None) /\ replies' = replies
    BY <1>1 DEF SendStart, Start, Greeting
  <2> QED
    BY <2>1, <2>2, NotWritten
<1>2. CASE SendSteer(c)
  <2>1. ~Hands /\ Write("steer", c, turn) /\ replies' = replies
        /\ turn \in Clients
    BY <1>2 DEF SendSteer, Greeting, TypeOK
  <2>2. [kind |-> "steer", id |-> c, turn |-> turn] \in Called
    BY <2>1 DEF Called
  <2> QED
    BY <2>1, <2>2, NotWritten
<1>3. CASE SendLater(c) \/ Unqueue(c) \/ Stop(c)
  BY <1>3, StillHands DEF SendLater, Unqueue, Stop
<1>4. CASE Interrupt(c)
  <2>1. ~Hands /\ Write("interrupt", c, turn) /\ replies' = replies
        /\ turn \in Clients
    BY <1>4 DEF Interrupt, Greeting, TypeOK
  <2>2. [kind |-> "interrupt", id |-> c, turn |-> turn] \in Called
    BY <2>1 DEF Called
  <2> QED
    BY <2>1, <2>2, NotWritten
<1>5. ASSUME NEW r \in Requests, Reply(c, r) PROVE Greeting'
  <2>1. ~Hands /\ Write("reply", r, None) /\ replies' = replies
    BY <1>5 DEF Reply, Greeting, Blocking
  <2>2. [kind |-> "reply", id |-> r, turn |-> None] \in Called
    BY DEF Called
  <2> QED
    BY <2>1, <2>2, NotWritten
<1>6. ASSUME NEW q \in Questions, Answer(c, q) PROVE Greeting'
  <2>1. ~Hands /\ Write("answer", c, None) /\ replies' = replies
    BY <1>6 DEF Answer, Greeting
  <2>2. [kind |-> "answer", id |-> c, turn |-> None] \in Called
    BY DEF Called
  <2> QED
    BY <2>1, <2>2, NotWritten
<1>7. ASSUME NEW q \in Questions, Dismiss(c, q) PROVE Greeting'
  BY <1>7, StillHands DEF Dismiss
<1> QED
  BY <1>1, <1>2, <1>3, <1>4, <1>5, <1>6, <1>7

(* Lines from Codex.                                                       *)
LEMMA GreetingConsume ==
    ASSUME TypeOK, TypeOK', Greeting, Consume
    PROVE  Greeting'
<1> USE DEF aside, outbox, codex, asks, messages, questions, turnends,
            history, memory
<1>1. ASSUME NEW kind, Replied(kind)
      PROVE  /\ Head(replies) \in Items(replies) /\ Head(replies).kind = kind
             /\ Items(replies') \subseteq Items(replies) /\ notices' = notices
             /\ Hands => inbox = <<>> /\ replies' = <<>>
  <2>1. /\ replies # <<>> /\ replies' = Tail(replies) /\ notices' = notices
        /\ Head(replies).kind = kind /\ replies \in Seq(Returned)
    BY <1>1 DEF Replied, TypeOK
  <2>2. Items(replies) = Items(replies') \cup {Head(replies)}
    BY <2>1, ItemsTail
  <2>3. Hands => inbox = <<>> /\ Sole(replies)
    BY <2>1 DEF Greeting
  <2> QED
    BY <2>1, <2>2, <2>3 DEF Sole
<1>2. ASSUME NEW kind, Replied(kind), inbox' = inbox PROVE Greeting'
  <2>1. CASE Hands
    <3>1. ~Hands'
      BY <1>1, <1>2, <2>1, SoleLine DEF Hands
    <3> QED
      BY <3>1 DEF Greeting
  <2>2. CASE ~Hands
    BY <1>1, <1>2, <2>2, NoHands
  <2> QED
    BY <2>1, <2>2
<1>3. CASE Greeted
  <2>1. PICK kind \in {"initialized", "authenticated", "unauthenticated"} :
            Replied(kind)
    BY <1>3 DEF Greeted
  <2>2. /\ \/ inbox' = inbox
           \/ Write("auth", None, None) \/ Write("thread", None, None)
        /\ state' \in {state, "failed"}
        /\ UNCHANGED <<turn, pending, life, asking>>
    BY <1>3 DEF Greeted, Live, Fail
  <2>3. Hands
    BY <1>1, <2>1 DEF Hands, HandReply
  <2>4. CASE inbox' = inbox
    BY <1>2, <2>1, <2>4
  <2>5. CASE inbox' # inbox
    <3>1. PICK m \in Called : inbox' = Append(<<>>, m)
      <4>1. /\ [kind |-> "auth", id |-> None, turn |-> None] \in Called
            /\ [kind |-> "thread", id |-> None, turn |-> None] \in Called
        BY DEF Called
      <4>2. inbox = <<>>
        BY <1>1, <2>1, <2>3
      <4> QED
        BY <2>2, <2>5, <4>1, <4>2 DEF Write
    <3>2. Sole(inbox') /\ replies' = <<>> /\ notices' = notices
      BY <1>1, <2>1, <2>3, <3>1, SoleLine
    <3> QED
      BY <2>2, <2>3, <3>2 DEF Greeting
  <2> QED
    BY <2>4, <2>5
<1>4. CASE ThreadReady \/ SteerTaken \/ SteerRefused \/ AnswerReplied
           \/ RequestRefused \/ DeadlineRefused \/ Unremarkable
  <2>1. PICK kind \in {"threaded", "ok", "refused", "late"} : Replied(kind)
    BY <1>4 DEF ThreadReady, SteerTaken, SteerRefused, AnswerReplied,
                RequestRefused, DeadlineRefused, Unremarkable
  <2>2. inbox' = inbox
    BY <1>4 DEF ThreadReady, SteerTaken, SteerRefused, AnswerReplied,
                RequestRefused, DeadlineRefused, Unremarkable
  <2> QED
    BY <1>2, <2>1, <2>2
<1>5. CASE TurnStarted \/ TurnCompleted \/ Asked \/ Resolved \/ Wondered
  <2>1. notices # <<>> /\ UNCHANGED <<inbox, replies>>
    BY <1>5 DEF TurnStarted, TurnCompleted, Asked, Resolved, Wondered, Noticed
  <2>2. ~Hands
    BY <2>1 DEF Greeting
  <2>3. Items(inbox') = Items(inbox) /\ Items(replies') = Items(replies)
    BY <2>1
  <2> QED
    BY <2>2, <2>3, NoHands
<1> QED
  BY <1>3, <1>4, <1>5 DEF Consume

(* Calls that Codex reads.                                                 *)
LEMMA GreetingRead ==
    ASSUME IInv, TypeOK', Greeting, Read
    PROVE  Greeting'
<1> USE DEF aside, outbox, codex, asks, messages, questions, turnends,
            history, memory
<1>1. TypeOK
  BY DEF IInv
<1>2. ASSUME NEW kind, Reads(kind), Hands
      PROVE  /\ kind \in {"initialize", "auth", "thread"}
             /\ inbox' = <<>> /\ replies = <<>>
  <2>1. Sole(inbox) /\ replies = <<>> /\ inbox' = <<>>
    BY <1>2, Reading DEF Greeting, Sole
  <2>2. Items(inbox) = {Wanted} /\ Wanted.kind = kind
    BY <1>1, <1>2, <2>1, SoleLine, Reading DEF Wanted, TypeOK
  <2>3. Items(replies) = {}
    BY <2>1, SoleLine
  <2> QED
    BY <1>2, <2>1, <2>2, <2>3 DEF Hands, HandCall
<1>3. CASE Greets
  <2>1. PICK kind \in {"initialize", "auth", "thread"},
             k \in {"initialized", "authenticated", "threaded",
                    "unauthenticated", "refused"} :
            Reads(kind) /\ Replies(k, None)
    BY <1>3 DEF Greets
  <2>2. UNCHANGED <<notices, turn, pending, asking, state, life>>
    BY <1>3 DEF Greets
  <2>3. Hands
    <3>1. Wanted \in Items(inbox) /\ Wanted.kind = kind
      BY <2>1, Reading
    <3> QED
      BY <2>1, <3>1 DEF Hands, HandCall
  <2>4. [kind |-> k, id |-> None] \in Returned
    BY <2>1 DEF Returned
  <2>5. inbox' = <<>> /\ Sole(replies')
    BY <1>2, <2>1, <2>3, <2>4, SoleLine DEF Replies
  <2> QED
    BY <2>2, <2>3, <2>5 DEF Greeting
<1>4. ASSUME NEW kind, kind \notin {"initialize", "auth", "thread"},
             Reads(kind),
             \/ replies' = replies
             \/ \E k \in {"ok", "late", "refused"} :
                    /\ Replies(k, Wanted.id)
                    /\ [kind |-> k, id |-> Wanted.id] \in Returned
                    /\ k = "refused" => Wanted.id \in Clients
      PROVE  Greeting'
  <2>1. ~Hands
    BY <1>2, <1>4
  <2>2. Items(inbox') \subseteq Items(inbox)
    BY <1>4, Reading
  <2>3. CASE replies' = replies
    <3>1. Items(replies') = Items(replies)
      BY <2>3
    <3> QED
      BY <2>1, <2>2, <3>1, NoHands
  <2>4. CASE replies' # replies
    <3>1. PICK k \in {"ok", "late", "refused"} :
              /\ Replies(k, Wanted.id)
              /\ [kind |-> k, id |-> Wanted.id] \in Returned
              /\ k = "refused" => Wanted.id \in Clients
      BY <1>4, <2>4
    <3> DEFINE new == [kind |-> k, id |-> Wanted.id]
    <3>2. new.kind = k /\ new.id = Wanted.id
      OBVIOUS
    <3>3. replies' = Append(replies, new) /\ new \in Returned
      BY <3>1 DEF Replies
    <3> HIDE DEF new
    <3>4. ~HandReply(new)
      BY <3>1, <3>2, CodexAssumption DEF HandReply
    <3>5. Items(replies') = Items(replies) \cup {new}
      BY <1>1, <3>3, ItemsAppend DEF TypeOK
    <3> QED
      BY <2>1, <2>2, <3>4, <3>5, NoHands
  <2> QED
    BY <2>3, <2>4
<1>5. CASE Accepts \/ Refuses \/ Steers \/ HearsAnswer
  <2>1. PICK kind \in {"start", "steer", "answer"}, k \in {"ok", "refused"} :
            Reads(kind) /\ Replies(k, Wanted.id)
    BY <1>5 DEF Accepts, Refuses, Steers, HearsAnswer
  <2>2. Wanted.id \in Clients
    BY <2>1, Reading DEF Called
  <2>3. [kind |-> k, id |-> Wanted.id] \in Returned
    BY <2>1, <2>2 DEF Returned
  <2> QED
    BY <1>4, <2>1, <2>2, <2>3
<1>6. CASE Interrupts
  <2>1. PICK kind \in {"interrupt", "deadline"} : Reads(kind)
    BY <1>6 DEF Interrupts
  <2>2. /\ Wanted.kind = kind /\ Wanted.id \in Clients \cup {None}
        /\ kind = "interrupt" => Wanted.id \in Clients
    BY <2>1, Reading DEF Called
  <2>3. PICK k \in {"ok", "late", "refused"} :
            Replies(k, Wanted.id) /\ (k = "refused" => kind # "deadline")
    BY <1>6, <2>2 DEF Interrupts
  <2>4. [kind |-> k, id |-> Wanted.id] \in Returned
    BY <2>2 DEF Returned
  <2> QED
    BY <1>4, <2>1, <2>2, <2>3, <2>4
<1>7. CASE HearsReply
  BY <1>4, <1>7 DEF HearsReply
<1> QED
  BY <1>3, <1>5, <1>6, <1>7 DEF Read

(* The delivery, the deadline, the end of the reader, and Codex on its own. *)
LEMMA GreetingRest ==
    ASSUME IInv, TypeOK', Greeting,
           \/ Deliver \/ Watch \/ Finish \/ Turns \/ Finishes \/ Chatters
           \/ Dies \/ UNCHANGED vars
    PROVE  Greeting'
<1> USE DEF aside, outbox, codex, asks, messages, questions, turnends,
            history, memory
<1>1. TypeOK
  BY DEF IInv
<1>2. CASE Deliver /\ MayDeliver
  <2>1. /\ slot \in Clients /\ Write("start", slot, None) /\ ~Hands
        /\ replies' = replies
    BY <1>1, <1>2 DEF Deliver, MayDeliver, Start, Greeting, TypeOK
  <2>2. [kind |-> "start", id |-> slot, turn |-> None] \in Called
    BY <2>1 DEF Called
  <2> QED
    BY <1>1, <2>1, <2>2, NotWritten
<1>3. CASE Deliver /\ ~MayDeliver
  BY <1>3, StillHands DEF Deliver
<1>4. CASE DeadlinePasses
  <2>1. [kind |-> "deadline", id |-> None, turn |-> turn] \in Called
    BY <1>1, <1>4 DEF DeadlinePasses, Watched, Called, TypeOK
  <2>2. /\ Write("deadline", None, turn) /\ ~Hands /\ replies' = replies
    BY <1>4 DEF DeadlinePasses, Watched, Greeting
  <2> QED
    BY <1>1, <2>1, <2>2, NotWritten
<1>5. CASE GraceEnds \/ Finish \/ Dies \/ UNCHANGED vars
  BY <1>5, StillHands
  DEF GraceEnds, Finish, ClearPending, Endings, Dies, vars
<1>6. ASSUME ~Hands, UNCHANGED <<inbox, replies>> PROVE Greeting'
  BY <1>6, NoHands
<1>7. CASE Turns \/ Finishes \/ Chatters
  <2>1. ~Hands
    BY <1>7 DEF Turns, Finishes, Chatters, Begins, TakesUp, Completes, Repeats,
                Asks, Withdraws, Poses, InTurn, Greeting
  <2>2. UNCHANGED <<inbox, replies>>
    BY <1>7 DEF Turns, Finishes, Chatters, Begins, TakesUp, Completes, Repeats,
                Asks, Withdraws, Poses, Says
  <2> QED
    BY <1>6, <2>1, <2>2
<1> QED
  BY <1>2, <1>3, <1>4, <1>5, <1>7 DEF Watch

(* Every step keeps it.                                                    *)
LEMMA GreetingStep ==
    ASSUME IInv, TypeOK', Greeting, [Next]_vars
    PROVE  Greeting'
<1>1. TypeOK
  BY DEF IInv
<1>2. CASE Command
  BY <1>1, <1>2, GreetingCommand DEF Command
<1> QED
  BY <1>1, <1>2, GreetingConsume, GreetingRead, GreetingRest DEF Next

-----------------------------------------------------------------------------
(* What is shown after each notice, step by step.                           *)

(* A step that writes one call, and shows no request more.                  *)
LEMMA DisplayCalled ==
    ASSUME TypeOK, TypeOK', Display, NEW kind, NEW id, NEW t,
           [kind |-> kind, id |-> id, turn |-> t] \in Called,
           Write(kind, id, t), kind = "reply" => id \in Blocking \ pending',
           UNCHANGED <<turn, notices, put, life, asking>>,
           pending' \cap Requests \subseteq pending
    PROVE  Display'
<1>1. \A m \in Items(inbox') :
          m \in Items(inbox) \/ (m.kind = kind /\ m.id = id)
  BY Written
<1>2. \A m \in Items(inbox') : m.kind = "reply" =>
          m \in Items(inbox) \/ m.id \in Blocking \ pending'
  BY <1>1
<1> QED
  BY <1>2, DisplayFrame

(* A step that writes none.                                                 *)
LEMMA DisplayQuiet ==
    ASSUME TypeOK, TypeOK', Display,
           UNCHANGED <<turn, notices, put, life, asking, inbox>>,
           pending' \cap Requests \subseteq pending
    PROVE  Display'
<1>1. Items(inbox') = Items(inbox)
  OBVIOUS
<1> QED
  BY <1>1, DisplayFrame

(* Commands.                                                               *)
LEMMA DisplayCommand ==
    ASSUME TypeOK, TypeOK', Display, NEW c \in Clients,
           \/ SendStart(c) \/ SendSteer(c) \/ SendLater(c) \/ Unqueue(c)
           \/ Interrupt(c) \/ Stop(c)
           \/ \E r \in Requests : Reply(c, r)
           \/ \E q \in Questions : Answer(c, q) \/ Dismiss(c, q)
    PROVE  Display'
<1> USE DEF aside, outbox, codex, asks, messages, questions, turnends, history
<1>1. CASE SendStart(c)
  <2>1. [kind |-> "start", id |-> c, turn |-> None] \in Called
    BY DEF Called
  <2>2. /\ Write("start", c, None)
        /\ UNCHANGED <<turn, notices, put, life, asking, pending>>
    BY <1>1 DEF SendStart, Start
  <2> QED
    BY <2>1, <2>2, DisplayCalled
<1>2. CASE SendSteer(c)
  <2>1. /\ Write("steer", c, turn) /\ turn \in Clients
        /\ UNCHANGED <<turn, notices, put, life, asking, pending>>
    BY <1>2 DEF SendSteer, TypeOK
  <2>2. [kind |-> "steer", id |-> c, turn |-> turn] \in Called
    BY <2>1 DEF Called
  <2> QED
    BY <2>1, <2>2, DisplayCalled
<1>3. CASE SendLater(c) \/ Unqueue(c) \/ Stop(c)
  BY <1>3, DisplayQuiet DEF SendLater, Unqueue, Stop
<1>4. CASE Interrupt(c)
  <2>1. /\ Write("interrupt", c, turn) /\ turn \in Clients
        /\ UNCHANGED <<turn, notices, put, life, asking>> /\ pending' = {}
    BY <1>4 DEF Interrupt, ClearPending, TypeOK
  <2>2. [kind |-> "interrupt", id |-> c, turn |-> turn] \in Called
    BY <2>1 DEF Called
  <2> QED
    BY <2>1, <2>2, DisplayCalled
<1>5. ASSUME NEW r \in Requests, Reply(c, r) PROVE Display'
  <2>1. /\ Write("reply", r, None) /\ pending' = pending \ {r}
        /\ r \in Blocking \ pending'
        /\ UNCHANGED <<turn, notices, put, life, asking>>
    BY <1>5 DEF Reply
  <2>2. [kind |-> "reply", id |-> r, turn |-> None] \in Called
    BY DEF Called
  <2> QED
    BY <2>1, <2>2, DisplayCalled
<1>6. ASSUME NEW q \in Questions, Answer(c, q) PROVE Display'
  <2>1. /\ Write("answer", c, None) /\ pending' = pending \ {q}
        /\ UNCHANGED <<turn, notices, put, life, asking>>
    BY <1>6 DEF Answer
  <2>2. [kind |-> "answer", id |-> c, turn |-> None] \in Called
    BY DEF Called
  <2> QED
    BY <2>1, <2>2, DisplayCalled
<1>7. ASSUME NEW q \in Questions, Dismiss(c, q) PROVE Display'
  BY <1>7, DisplayQuiet DEF Dismiss
<1> QED
  BY <1>1, <1>2, <1>3, <1>4, <1>5, <1>6, <1>7

(* Answers from Codex.                                                     *)
LEMMA DisplayReplied ==
    ASSUME TypeOK, TypeOK', Display,
           \/ Greeted \/ ThreadReady \/ SteerTaken \/ SteerRefused
           \/ AnswerReplied \/ RequestRefused \/ DeadlineRefused
           \/ Unremarkable
    PROVE  Display'
<1> USE DEF aside, outbox, codex, asks, messages, questions, turnends,
            history, memory
<1>1. CASE Greeted
  <2>1. /\ \/ inbox' = inbox
           \/ Write("auth", None, None) \/ Write("thread", None, None)
        /\ UNCHANGED <<turn, notices, put, life, asking, pending>>
    BY <1>1 DEF Greeted, Replied
  <2>2. /\ [kind |-> "auth", id |-> None, turn |-> None] \in Called
        /\ [kind |-> "thread", id |-> None, turn |-> None] \in Called
    BY DEF Called
  <2>3. CASE inbox' = inbox
    BY <2>1, <2>3, DisplayQuiet
  <2>4. CASE Write("auth", None, None)
    BY <2>1, <2>2, <2>4, DisplayCalled
  <2>5. CASE Write("thread", None, None)
    BY <2>1, <2>2, <2>5, DisplayCalled
  <2> QED
    BY <2>1, <2>3, <2>4, <2>5
<1>2. CASE AnswerReplied
  <2>1. answering[Named] \in Questions
    BY <1>2 DEF AnswerReplied, IsAnswer, TypeOK
  <2>2. /\ UNCHANGED <<turn, notices, put, life, asking, inbox>>
        /\ pending' \subseteq pending \cup {answering[Named]}
    BY <1>2 DEF AnswerReplied, Restored, Replied
  <2> QED
    BY <2>1, <2>2, CodexAssumption, DisplayQuiet
<1>3. CASE RequestRefused
  <2>1. /\ UNCHANGED <<turn, notices, put, life, asking, inbox>>
        /\ pending' \subseteq pending
    BY <1>3 DEF RequestRefused, ClearPending, Replied
  <2> QED
    BY <2>1, DisplayQuiet
<1>4. CASE ThreadReady \/ SteerTaken \/ SteerRefused \/ DeadlineRefused
           \/ Unremarkable
  <2>1. UNCHANGED <<turn, notices, put, life, asking, inbox, pending>>
    BY <1>4 DEF ThreadReady, SteerTaken, SteerRefused, DeadlineRefused,
                Unremarkable, Replied
  <2> QED
    BY <2>1, DisplayQuiet
<1> QED
  BY <1>1, <1>2, <1>3, <1>4

(* What one notice does to the requests shown.                              *)
LEMMA ShownOne ==
    ASSUME NEW r, notices # <<>>, notices \in Seq(Reported)
    PROVE  /\ Head(notices) = notices[1]
           /\ Shown(r, 1) <=>
                  \/ Head(notices) = AskOf(r)
                  \/ /\ r \in pending /\ Head(notices) # ResolveOf(r)
                     /\ ~(/\ Head(notices).kind = "completed"
                          /\ turn = Head(notices).id)
<1>1. Head(notices) = notices[1]
  BY Shift
<1>2. 1 \in Nat \ {0} /\ 1 - 1 = 0
  OBVIOUS
<1>3. Shown(r, 1) <=> \/ notices[1] = AskOf(r)
                      \/ r \in pending /\ ~Clears(notices, turn, r, 1)
  BY <1>2, ShownStep, ShownNow DEF Shown
<1>4. OpenIn(notices, turn, notices[1].id, 1 - 1) <=> turn = notices[1].id
  BY <1>2, TurnNow
<1> QED
  BY <1>1, <1>3, <1>4 DEF Clears

(* The handlers do to the turn and the requests what their notices say.     *)
LEMMA NoticeRead ==
    ASSUME TypeOK,
           TurnStarted \/ TurnCompleted \/ Asked \/ Resolved \/ Wondered
    PROVE  /\ notices # <<>> /\ notices' = Tail(notices)
           /\ UNCHANGED <<inbox, replies, alive, misled, life, asking, put>>
           /\ turn' = After(turn, Head(notices))
           /\ \A r \in Requests : r \in pending' <=> Shown(r, 1)
<1> USE DEF aside, outbox, codex, asks, messages, questions, turnends,
            history, memory
<1> DEFINE h == Head(notices)
<1>1. /\ notices # <<>> /\ notices' = Tail(notices)
      /\ UNCHANGED <<inbox, replies, alive, misled, life, asking, put>>
      /\ notices \in Seq(Reported)
  BY DEF TurnStarted, TurnCompleted, Asked, Resolved, Wondered, Noticed, TypeOK
<1>2. h \in Reported /\ Subject = h.id
  BY <1>1, Shift DEF Subject
<1>3. ASSUME NEW r \in Requests
      PROVE  Shown(r, 1) <=>
                  \/ h = AskOf(r)
                  \/ /\ r \in pending /\ h # ResolveOf(r)
                     /\ ~(h.kind = "completed" /\ turn = h.id)
  BY <1>1, ShownOne
<1> SUFFICES /\ turn' = After(turn, h)
             /\ \A r \in Requests : r \in pending' <=>
                    \/ h = AskOf(r)
                    \/ /\ r \in pending /\ h # ResolveOf(r)
                       /\ ~(h.kind = "completed" /\ turn = h.id)
  BY <1>1, <1>3
<1> HIDE DEF h
<1>4. CASE TurnStarted
  <2>1. h.kind = "started" /\ turn' = h.id /\ pending' = pending
    BY <1>2, <1>4 DEF TurnStarted, Noticed, h
  <2> QED
    BY <2>1 DEF After, AskOf, ResolveOf
<1>5. CASE TurnCompleted
  <2>1. h.kind = "completed"
    BY <1>5 DEF TurnCompleted, Noticed, h
  <2>2. h = EndOf(h.id) /\ h.id \in Clients
    BY <1>2, <2>1, Kinds
  <2>3. CASE Current(h.id)
    <3>1. /\ pending' = pending \cap Questions /\ turn' = None /\ turn = h.id
      BY <1>2, <1>5, <2>3 DEF TurnCompleted, Current, Remaining
    <3> QED
      BY <2>1, <2>2, <3>1, CodexAssumption DEF After, AskOf
  <2>4. CASE ~Current(h.id)
    <3>1. UNCHANGED <<pending, turn>> /\ turn # h.id
      BY <1>2, <1>5, <2>2, <2>4, CodexAssumption DEF TurnCompleted, Current
    <3>2. h # EndOf(turn)
      BY <3>1 DEF EndOf
    <3> QED
      BY <2>1, <3>1, <3>2 DEF After, AskOf, ResolveOf
  <2> QED
    BY <2>3, <2>4
<1>6. CASE Asked
  <2>1. /\ h.kind = "ask" /\ turn' = turn /\ pending' = pending \cup {h.id}
    BY <1>2, <1>6 DEF Asked, Noticed, h
  <2>2. h = AskOf(h.id)
    BY <1>2, <2>1, Kinds
  <2>3. \A r \in Requests : h = AskOf(r) <=> r = h.id
    BY <2>2 DEF AskOf
  <2> QED
    BY <2>1, <2>3 DEF After, EndOf, ResolveOf
<1>7. CASE Resolved
  <2>1. /\ h.kind = "resolved" /\ turn' = turn /\ pending' = pending \ {h.id}
    BY <1>2, <1>7 DEF Resolved, Noticed, h
  <2>2. h = ResolveOf(h.id)
    BY <1>2, <2>1, Kinds
  <2>3. \A r \in Requests : h = ResolveOf(r) <=> r = h.id
    BY <2>2 DEF ResolveOf
  <2> QED
    BY <2>1, <2>3 DEF After, EndOf, AskOf
<1>8. CASE Wondered
  <2>1. h.kind = "question" /\ turn' = turn
        /\ pending' \in {pending, pending \cup {h.id}}
    BY <1>2, <1>8 DEF Wondered, Posed, Noticed, h
  <2>2. h.id \in Questions
    BY <1>2, <2>1 DEF Reported
  <2>3. \A r \in Requests : r \in pending' <=> r \in pending
    BY <2>1, <2>2, CodexAssumption
  <2> QED
    BY <2>1, <2>3 DEF After, EndOf, AskOf, ResolveOf
<1> QED
  BY <1>4, <1>5, <1>6, <1>7, <1>8

(* Notices from Codex.                                                     *)
LEMMA DisplayNoticed ==
    ASSUME TypeOK, TypeOK', Display,
           TurnStarted \/ TurnCompleted \/ Asked \/ Resolved \/ Wondered
    PROVE  Display'
BY NoticeRead, DisplayRead

(* Calls that Codex reads.                                                 *)
LEMMA DisplayHeard ==
    ASSUME IInv, TypeOK', Lives, Display, Read
    PROVE  Display'
<1> USE DEF aside, outbox, codex, asks, messages, questions, turnends,
            history, memory
<1>1. TypeOK
  BY DEF IInv
<1>2. ASSUME NEW kind, Reads(kind), UNCHANGED <<turn, notices, put, pending>>,
             \A t \in Clients : life'[t] = "running" <=> life[t] = "running",
             asking' \subseteq asking,
             \A r \in asking \ asking' : ~Shown(r, Len(notices))
      PROVE  Display'
  <2>1. \A m \in Items(inbox') : m \in Items(inbox)
    BY <1>2, Reading
  <2> QED
    BY <1>1, <1>2, <2>1, DisplayFrame
<1>3. CASE Greets \/ Steers
  <2>1. PICK kind : Reads(kind)
    BY <1>3 DEF Greets, Steers
  <2>2. UNCHANGED <<turn, notices, put, pending, life, asking>>
    BY <1>3 DEF Greets, Steers
  <2> QED
    BY <1>2, <2>1, <2>2
<1>4. CASE Accepts \/ Refuses \/ HearsAnswer
  <2>1. PICK kind \in {"start", "answer"} : Reads(kind)
    BY <1>4 DEF Accepts, Refuses, HearsAnswer
  <2>2. UNCHANGED <<turn, notices, put, pending, asking>>
    BY <1>4 DEF Accepts, Refuses, HearsAnswer
  <2>3. /\ Wanted.id \in Clients /\ Wanted \in Items(inbox)
        /\ Bears(Wanted, Wanted.id)
    BY <2>1, Reading DEF Bears
  <2>4. life[Wanted.id] = "none"
    BY <2>3 DEF Lives, LifeSound
  <2>5. PICK x \in {"none", "starting", "joined", "refused", "held"} :
            life' = [life EXCEPT ![Wanted.id] = x]
    <3>1. life = [life EXCEPT ![Wanted.id] = "none"]
      BY <1>1, <2>3, <2>4 DEF TypeOK
    <3> QED
      BY <1>4, <3>1 DEF Accepts, Refuses, HearsAnswer
  <2>6. \A t \in Clients : life'[t] = "running" <=> life[t] = "running"
    BY <1>1, <2>3, <2>4, <2>5 DEF TypeOK
  <2> QED
    BY <1>2, <2>1, <2>2, <2>6
<1>5. CASE Interrupts
  <2>1. PICK kind \in {"interrupt", "deadline"} : Reads(kind)
    BY <1>5 DEF Interrupts
  <2>2. PICK t \in Clients : t = Wanted.turn
    BY <2>1, Reading DEF Called
  <2>3. UNCHANGED <<turn, put, pending>>
    BY <1>5 DEF Interrupts
  <2>4. CASE life[t] = "running"
    <3>1. /\ life' = [life EXCEPT ![t] = "ended"] /\ asking' = {}
          /\ notices' = Append(notices, EndOf(t))
      BY <1>5, <2>2, <2>4 DEF Interrupts, Says, EndOf
    <3>2. /\ EndOf(t) \in Reported /\ EndOf(t).kind = "completed"
          /\ EndOf(t).id = t
      BY DEF EndOf, Reported
    <3>3. \A u \in Clients : life'[u] = "running" <=>
              \/ EndOf(t) = StartOf(u)
              \/ life[u] = "running" /\ EndOf(t).kind # "started"
                 /\ EndOf(t) # EndOf(u)
      BY <1>1, <3>1 DEF TypeOK, EndOf, StartOf
    <3>4. Items(inbox') \subseteq Items(inbox)
      BY <2>1, Reading
    <3>5. \A r \in Requests : EndOf(t) # AskOf(r)
      BY DEF EndOf, AskOf
    <3> DEFINE e == EndOf(t)
    <3>6. /\ e \in Reported /\ e.kind = "completed" /\ e.id = t
          /\ notices' = Append(notices, e)
          /\ \A u \in Clients : life'[u] = "running" <=>
                 \/ e = StartOf(u)
                 \/ life[u] = "running" /\ e.kind # "started" /\ e # EndOf(u)
          /\ \A r \in Requests : e # AskOf(r)
      BY <3>1, <3>2, <3>3, <3>5
    <3> HIDE DEF e
    <3>7. \A r \in Requests : r \in asking' <=>
               \/ e = AskOf(r)
               \/ /\ r \in asking /\ e # ResolveOf(r)
                  /\ ~(e.kind = "completed" /\ life[e.id] = "running")
      BY <2>4, <3>1, <3>6
    <3> QED
      BY <1>1, <2>3, <3>4, <3>6, <3>7, DisplayWritten
  <2>5. CASE life[t] # "running"
    <3>1. UNCHANGED <<notices, life, asking>>
      BY <1>5, <2>2, <2>5 DEF Interrupts
    <3> QED
      BY <1>2, <2>1, <2>3, <3>1
  <2> QED
    BY <2>4, <2>5
<1>6. CASE HearsReply
  <2>1. /\ Reads("reply") /\ asking' = asking \ {Wanted.id}
        /\ UNCHANGED <<turn, notices, put, pending, life>>
    BY <1>6 DEF HearsReply
  <2>2. Wanted \in Items(inbox) /\ Wanted.kind = "reply"
    BY <2>1, Reading
  <2>3. ~Shown(Wanted.id, Len(notices))
    <3>1. Len(notices) \in Nat
      BY <1>1, LenProperties DEF TypeOK
    <3>2. Wanted.id \notin pending
      BY <2>2 DEF Display, PutSound
    <3>3. \A j \in 1..Len(notices) : notices[j] # AskOf(Wanted.id)
      BY <2>2 DEF Display, PutSound, AskOf
    <3> QED
      BY <3>1, <3>2, <3>3, ShownFrom DEF Shown
  <2> QED
    BY <1>2, <2>1, <2>3
<1> QED
  BY <1>3, <1>4, <1>5, <1>6 DEF Read

(* A notice of Codex' own accord, that starts no turn and asks nothing.     *)
LEMMA DisplaySaid ==
    ASSUME TypeOK, TypeOK', Display, NEW e \in Reported,
           notices' = Append(notices, e),
           UNCHANGED <<turn, pending, inbox, put>>,
           e.kind \in {"completed", "resolved", "question"},
           \A t \in Clients : life'[t] = "running" <=>
               life[t] = "running" /\ e # EndOf(t),
           \A r \in Requests : r \in asking' <=>
               /\ r \in asking /\ e # ResolveOf(r)
               /\ ~(e.kind = "completed" /\ life[e.id] = "running")
    PROVE  Display'
<1>1. /\ \A t : e # StartOf(t)
      /\ \A r : e # AskOf(r)
      /\ Items(inbox') = Items(inbox)
  BY DEF StartOf, AskOf
<1> QED
  BY <1>1, DisplayWritten

(* The delivery, the deadline, the end of the reader, and Codex on its own. *)
LEMMA DisplayRest ==
    ASSUME IInv, TypeOK', Lives, Display,
           \/ Deliver \/ Watch \/ Finish \/ Turns \/ Finishes \/ Chatters
           \/ Dies \/ UNCHANGED vars
    PROVE  Display'
<1> USE DEF aside, outbox, codex, asks, messages, questions, turnends,
            history, memory
<1>1. TypeOK
  BY DEF IInv
<1>2. CASE Deliver /\ MayDeliver
  <2>1. /\ slot \in Clients /\ Write("start", slot, None)
        /\ UNCHANGED <<turn, notices, put, life, asking, pending>>
    BY <1>1, <1>2 DEF Deliver, MayDeliver, Start, TypeOK
  <2>2. [kind |-> "start", id |-> slot, turn |-> None] \in Called
    BY <2>1 DEF Called
  <2> QED
    BY <1>1, <2>1, <2>2, DisplayCalled
<1>3. CASE Deliver /\ ~MayDeliver
  BY <1>1, <1>3, DisplayQuiet DEF Deliver
<1>4. CASE DeadlinePasses
  <2>1. [kind |-> "deadline", id |-> None, turn |-> turn] \in Called
    BY <1>1, <1>4 DEF DeadlinePasses, Watched, Called, TypeOK
  <2>2. /\ Write("deadline", None, turn)
        /\ UNCHANGED <<turn, notices, put, life, asking, pending>>
    BY <1>4 DEF DeadlinePasses
  <2> QED
    BY <1>1, <2>1, <2>2, DisplayCalled
<1>5. CASE GraceEnds \/ Finish \/ Dies \/ UNCHANGED vars
  BY <1>1, <1>5, DisplayQuiet DEF GraceEnds, Finish, ClearPending, Dies, vars
<1>6. ASSUME NEW t \in Clients, Begins(t) PROVE Display'
  <2> DEFINE e == StartOf(t)
  <2>1. /\ e \in Reported /\ e.kind = "started" /\ \A r : e # AskOf(r)
        /\ \A r : e # ResolveOf(r)
        /\ \A u \in Clients : e = StartOf(u) <=> u = t
    BY DEF Reported, StartOf, AskOf, ResolveOf
  <2>2. /\ notices' = Append(notices, e) /\ life[t] = "starting"
        /\ life' = [life EXCEPT ![t] = "running"]
        /\ UNCHANGED <<turn, pending, inbox, put, asking>>
    BY <1>6 DEF Begins, Says, StartOf
  <2> HIDE DEF e
  <2>3. \A u \in Clients : life[u] # "running"
    BY <2>2 DEF Lives, OneRuns, Running
  <2>4. \A u \in Clients : life'[u] = "running" <=>
            \/ e = StartOf(u)
            \/ life[u] = "running" /\ e.kind # "started" /\ e # EndOf(u)
    <3>1. \A u \in Clients : life'[u] = "running" <=> u = t
      BY <1>1, <2>2, <2>3 DEF TypeOK
    <3> QED
      BY <2>1, <2>3, <3>1
  <2>5. ~InTurn
    BY <2>3 DEF InTurn
  <2>6. \A r \in Requests : r \in asking' <=>
               \/ e = AskOf(r)
               \/ /\ r \in asking /\ e # ResolveOf(r)
                  /\ ~(e.kind = "completed" /\ life[e.id] = "running")
    BY <2>1, <2>2
  <2>7. Items(inbox') = Items(inbox)
    BY <2>2
  <2> QED
    BY <1>1, <2>1, <2>2, <2>4, <2>5, <2>6, <2>7, DisplayWritten
<1>7. ASSUME NEW t \in Clients, TakesUp(t) PROVE Display'
  <2>1. /\ life[t] = "held" /\ life' = [life EXCEPT ![t] = "starting"]
        /\ UNCHANGED <<turn, pending, inbox, put, asking, notices>>
    BY <1>7 DEF TakesUp
  <2>2. \A u \in Clients : life'[u] = "running" <=> life[u] = "running"
    BY <1>1, <2>1 DEF TypeOK
  <2>3. Items(inbox') = Items(inbox)
    BY <2>1
  <2> QED
    BY <1>1, <2>1, <2>2, <2>3, DisplayFrame
<1>8. ASSUME NEW t \in Clients, Completes(t) \/ Repeats(t) PROVE Display'
  <2> DEFINE e == EndOf(t)
  <2>1. /\ e \in Reported /\ e.kind = "completed" /\ e.id = t
        /\ \A r : e # ResolveOf(r)
        /\ \A u \in Clients : e = EndOf(u) <=> u = t
    BY DEF Reported, EndOf, ResolveOf
  <2>2. /\ notices' = Append(notices, e)
        /\ UNCHANGED <<turn, pending, inbox, put>>
    BY <1>8 DEF Completes, Repeats, Says, EndOf
  <2> HIDE DEF e
  <2>3. PICK x \in {"ended", "repeated"} : life' = [life EXCEPT ![t] = x]
    BY <1>8 DEF Completes, Repeats
  <2>4. \A u \in Clients : life'[u] = "running" <=>
            life[u] = "running" /\ e # EndOf(u)
    BY <1>1, <2>1, <2>3 DEF TypeOK
  <2>5. \A r \in Requests : r \in asking' <=>
               /\ r \in asking /\ e # ResolveOf(r)
               /\ ~(e.kind = "completed" /\ life[e.id] = "running")
    <3>1. CASE Completes(t)
      BY <2>1, <3>1 DEF Completes
    <3>2. CASE Repeats(t)
      BY <2>1, <3>2 DEF Repeats
    <3> QED
      BY <1>8, <3>1, <3>2
  <2> QED
    BY <1>1, <2>1, <2>2, <2>4, <2>5, DisplaySaid
<1>9. ASSUME NEW r \in Requests, Asks(r) PROVE Display'
  <2> DEFINE e == AskOf(r)
  <2>1. /\ e \in Reported /\ e.kind = "ask" /\ e.id = r
        /\ \A u : e # EndOf(u) /\ e # StartOf(u) /\ e # ResolveOf(u)
        /\ \A u : e = AskOf(u) <=> u = r
    BY DEF Reported, EndOf, ResolveOf, StartOf, AskOf
  <2>2. /\ notices' = Append(notices, e) /\ InTurn
        /\ asking' = asking \cup {r} /\ put' = put \cup {r} /\ r \notin put
        /\ UNCHANGED <<turn, pending, inbox, life>>
    BY <1>9 DEF Asks, Says, AskOf
  <2> HIDE DEF e
  <2>3. \A u \in Requests : u \in asking' <=>
               \/ e = AskOf(u)
               \/ /\ u \in asking /\ e # ResolveOf(u)
                  /\ ~(e.kind = "completed" /\ life[e.id] = "running")
    BY <2>1, <2>2
  <2>4. Items(inbox') = Items(inbox)
    BY <2>2
  <2>5. \A u \in Clients : life'[u] = "running" <=>
            \/ e = StartOf(u)
            \/ life[u] = "running" /\ e.kind # "started" /\ e # EndOf(u)
    BY <2>1, <2>2
  <2> QED
    BY <1>1, <2>1, <2>2, <2>3, <2>4, <2>5, DisplayWritten
<1>10. ASSUME NEW r \in Requests, Withdraws(r) PROVE Display'
  <2> DEFINE e == ResolveOf(r)
  <2>1. /\ e \in Reported /\ e.kind = "resolved" /\ \A u : e # EndOf(u)
        /\ \A u : e = ResolveOf(u) <=> u = r
    BY DEF Reported, EndOf, ResolveOf
  <2>2. /\ notices' = Append(notices, e) /\ asking' = asking \ {r}
        /\ UNCHANGED <<turn, pending, inbox, life, put>>
    BY <1>10 DEF Withdraws, Says, ResolveOf
  <2> HIDE DEF e
  <2> QED
    BY <1>1, <2>1, <2>2, DisplaySaid
<1>11. ASSUME NEW q \in Questions, Poses(q) PROVE Display'
  <2> DEFINE e == [kind |-> "question", id |-> q]
  <2>1. /\ e \in Reported /\ e.kind = "question"
        /\ \A u : e # EndOf(u) /\ e # ResolveOf(u)
    BY DEF Reported, EndOf, ResolveOf
  <2>2. /\ notices' = Append(notices, e)
        /\ UNCHANGED <<turn, pending, inbox, life, put, asking>>
    BY <1>11 DEF Poses, Says
  <2> HIDE DEF e
  <2> QED
    BY <1>1, <2>1, <2>2, DisplaySaid
<1> QED
  BY <1>2, <1>3, <1>4, <1>5, <1>6, <1>7, <1>8, <1>9, <1>10, <1>11
  DEF Watch, Turns, Finishes, Chatters

(* Every step keeps it.                                                    *)
LEMMA DisplayStep ==
    ASSUME IInv, TypeOK', Lives, Display, [Next]_vars
    PROVE  Display'
<1>1. TypeOK
  BY DEF IInv
<1>2. CASE Command
  BY <1>1, <1>2, DisplayCommand DEF Command
<1>3. CASE Consume
  BY <1>1, <1>3, DisplayReplied, DisplayNoticed DEF Consume
<1> QED
  BY <1>2, <1>3, DisplayHeard, DisplayRest DEF Next

-----------------------------------------------------------------------------
(* What Codex waits on is shown, or no longer for long.                     *)

(* The reply to r, or the interrupt of the turn that runs, is on its way.   *)
Due(r) ==
    \E m \in Items(inbox) :
        \/ m.kind = "reply" /\ m.id = r
        \/ m.kind = "interrupt" /\ life[m.turn] = "running"

(* After the last notice every request Codex waits on is shown, unless it   *)
(* is due to be answered, or the session was misled.                        *)
Owed ==
    ~misled /\ alive =>
        \A r \in asking : Shown(r, Len(notices)) \/ Due(r)

(* A step keeps it if it takes from the pending ones only what is due.      *)
LEMMA OwedFrame ==
    ASSUME TypeOK, TypeOK', Owed, UNCHANGED <<notices, turn>>,
           misled => misled', alive' => alive, asking' \subseteq asking,
           \A r \in asking' : Due(r) => Due(r)',
           ~misled' /\ alive' =>
               \A r \in asking' : r \in pending => r \in pending' \/ Due(r)'
    PROVE  Owed'
<1> SUFFICES ASSUME ~misled', alive', NEW r \in asking', ~Due(r)'
             PROVE  Shown(r, Len(notices))'
  BY DEF Owed
<1>1. Shown(r, Len(notices)) /\ (r \in pending => r \in pending')
  BY DEF Owed
<1>2. Len(notices) \in Nat
  BY LenProperties DEF TypeOK
<1>3. ShownIn(notices, turn, pending, r, Len(notices)) =>
          ShownIn(notices, turn, pending', r, Len(notices))
  BY <1>1, <1>2, ShownFrom
<1> QED
  BY <1>1, <1>3 DEF Shown

(* What is due stays so while calls are only written.                       *)
LEMMA DueKept ==
    ASSUME NEW r, Items(inbox) \subseteq Items(inbox'), life' = life, Due(r)
    PROVE  Due(r)'
BY DEF Due

(* A step that writes one call.                                             *)
LEMMA OwedCalled ==
    ASSUME TypeOK, TypeOK', Owed, NEW kind, NEW id, NEW t,
           [kind |-> kind, id |-> id, turn |-> t] \in Called,
           Write(kind, id, t),
           UNCHANGED <<turn, notices, life, asking, alive, misled>>,
           \A r \in asking : r \in pending =>
               \/ r \in pending'
               \/ kind = "reply" /\ id = r
               \/ kind = "interrupt" /\ life[t] = "running"
    PROVE  Owed'
<1>1. /\ Items(inbox) \subseteq Items(inbox')
      /\ alive => [kind |-> kind, id |-> id, turn |-> t] \in Items(inbox')
  BY Written
<1>2. ASSUME NEW r \in asking, Due(r) PROVE Due(r)'
  BY <1>1, <1>2, DueKept
<1>3. ASSUME alive', NEW r \in asking, r \in pending
      PROVE  r \in pending' \/ Due(r)'
  <2> DEFINE m == [kind |-> kind, id |-> id, turn |-> t]
  <2>1. m.kind = kind /\ m.id = id /\ m.turn = t /\ m \in Items(inbox')
    BY <1>1, <1>3
  <2> HIDE DEF m
  <2> QED
    BY <1>3, <2>1 DEF Due
<1> QED
  BY <1>2, <1>3, OwedFrame

(* A step that writes none.                                                 *)
LEMMA OwedQuiet ==
    ASSUME TypeOK, TypeOK', Owed,
           UNCHANGED <<turn, notices, life, asking, inbox>>,
           misled => misled', alive' => alive,
           ~misled' /\ alive' => Blocking \subseteq pending'
    PROVE  Owed'
<1>1. Items(inbox) \subseteq Items(inbox')
  OBVIOUS
<1>2. ASSUME NEW r \in asking, Due(r) PROVE Due(r)'
  BY <1>1, <1>2, DueKept
<1>3. asking \subseteq Requests
  BY DEF TypeOK
<1> QED
  BY <1>2, <1>3, OwedFrame DEF Blocking

(* Commands.                                                               *)
LEMMA OwedCommand ==
    ASSUME TypeOK, TypeOK', Display, Owed, NEW c \in Clients,
           \/ SendStart(c) \/ SendSteer(c) \/ SendLater(c) \/ Unqueue(c)
           \/ Interrupt(c) \/ Stop(c)
           \/ \E r \in Requests : Reply(c, r)
           \/ \E q \in Questions : Answer(c, q) \/ Dismiss(c, q)
    PROVE  Owed'
<1> USE DEF aside, outbox, codex, asks, messages, questions, turnends, history
<1>0. asking \subseteq Requests
  BY DEF TypeOK
<1>1. CASE SendStart(c)
  <2>1. [kind |-> "start", id |-> c, turn |-> None] \in Called
    BY DEF Called
  <2>2. /\ Write("start", c, None)
        /\ UNCHANGED <<turn, notices, life, asking, alive, misled, pending>>
    BY <1>1 DEF SendStart, Start
  <2> QED
    BY <2>1, <2>2, OwedCalled
<1>2. CASE SendSteer(c)
  <2>1. /\ Write("steer", c, turn) /\ turn \in Clients
        /\ UNCHANGED <<turn, notices, life, asking, alive, misled, pending>>
    BY <1>2 DEF SendSteer, TypeOK
  <2>2. [kind |-> "steer", id |-> c, turn |-> turn] \in Called
    BY <2>1 DEF Called
  <2> QED
    BY <2>1, <2>2, OwedCalled
<1>3. CASE SendLater(c) \/ Unqueue(c) \/ Stop(c)
  BY <1>3, OwedQuiet DEF SendLater, Unqueue, Stop, Blocking
<1>4. CASE Interrupt(c)
  <2>1. /\ Write("interrupt", c, turn) /\ turn \in Clients
        /\ UNCHANGED <<turn, notices, life, asking, alive, misled>>
    BY <1>4 DEF Interrupt, ClearPending, TypeOK
  <2>2. [kind |-> "interrupt", id |-> c, turn |-> turn] \in Called
    BY <2>1 DEF Called
  <2>3. \A r \in asking : r \in pending => life[turn] = "running"
    BY DEF Display, AskingSound
  <2> QED
    BY <2>1, <2>2, <2>3, OwedCalled
<1>5. ASSUME NEW r \in Requests, Reply(c, r) PROVE Owed'
  <2>1. /\ Write("reply", r, None) /\ pending' = pending \ {r}
        /\ UNCHANGED <<turn, notices, life, asking, alive, misled>>
    BY <1>5 DEF Reply
  <2>2. [kind |-> "reply", id |-> r, turn |-> None] \in Called
    BY DEF Called
  <2> QED
    BY <2>1, <2>2, OwedCalled
<1>6. ASSUME NEW q \in Questions, Answer(c, q) PROVE Owed'
  <2>1. /\ Write("answer", c, None) /\ pending' = pending \ {q}
        /\ UNCHANGED <<turn, notices, life, asking, alive, misled>>
    BY <1>6 DEF Answer
  <2>2. [kind |-> "answer", id |-> c, turn |-> None] \in Called
    BY DEF Called
  <2>3. \A r \in asking : r \in pending => r \in pending'
    BY <1>0, <2>1, CodexAssumption
  <2> QED
    BY <2>1, <2>2, <2>3, OwedCalled
<1>7. ASSUME NEW q \in Questions, Dismiss(c, q) PROVE Owed'
  BY <1>7, OwedQuiet, CodexAssumption DEF Dismiss, Blocking
<1> QED
  BY <1>1, <1>2, <1>3, <1>4, <1>5, <1>6, <1>7

(* Answers from Codex.  A refusal clears the pending ones: either no turn is *)
(* shown and there are none, or the session is misled.                      *)
LEMMA OwedReplied ==
    ASSUME TypeOK, TypeOK', Display, Owed,
           \/ Greeted \/ ThreadReady \/ SteerTaken \/ SteerRefused
           \/ AnswerReplied \/ RequestRefused \/ DeadlineRefused
           \/ Unremarkable
    PROVE  Owed'
<1> USE DEF aside, outbox, codex, asks, messages, questions, turnends,
            history, memory
<1>1. CASE Greeted
  <2>1. /\ \/ inbox' = inbox
           \/ Write("auth", None, None) \/ Write("thread", None, None)
        /\ UNCHANGED <<turn, notices, life, asking, pending, misled>>
        /\ alive' => alive
        /\ inbox' # inbox => alive' = alive
    BY <1>1 DEF Greeted, Replied, Live, Fail
  <2>2. /\ [kind |-> "auth", id |-> None, turn |-> None] \in Called
        /\ [kind |-> "thread", id |-> None, turn |-> None] \in Called
    BY DEF Called
  <2>3. CASE inbox' = inbox
    BY <2>1, <2>3, OwedQuiet DEF Blocking
  <2>4. CASE inbox' # inbox /\ Write("auth", None, None)
    BY <2>1, <2>2, <2>4, OwedCalled
  <2>5. CASE inbox' # inbox /\ Write("thread", None, None)
    BY <2>1, <2>2, <2>5, OwedCalled
  <2> QED
    BY <2>1, <2>3, <2>4, <2>5
<1>2. CASE AnswerReplied
  <2>1. /\ UNCHANGED <<turn, notices, life, asking, inbox, alive, misled>>
        /\ pending \subseteq pending'
    BY <1>2 DEF AnswerReplied, Restored, Replied
  <2> QED
    BY <2>1, OwedQuiet DEF Blocking
<1>3. CASE RequestRefused
  <2>1. /\ UNCHANGED <<turn, notices, life, asking, inbox>>
        /\ \/ alive' = FALSE /\ misled' = misled
           \/ alive' = alive /\ misled' = (misled \/ turn # None
                                                \/ ~AskedForATurn)
    BY <1>3 DEF RequestRefused, Fail, Replied
  <2>2. ~misled' /\ alive' => Blocking = {}
    BY <2>1 DEF Display, BlockingSound
  <2>3. (misled => misled') /\ (alive' => alive)
    <3>1. CASE alive' = FALSE /\ misled' = misled
      BY <3>1
    <3>2. CASE /\ alive' = alive
               /\ misled' = (misled \/ turn # None \/ ~AskedForATurn)
      BY <3>2
    <3> QED
      BY <2>1, <3>1, <3>2
  <2> QED
    BY <2>1, <2>2, <2>3, OwedQuiet
<1>4. CASE ThreadReady \/ SteerTaken \/ SteerRefused \/ DeadlineRefused
           \/ Unremarkable
  <2>1. /\ UNCHANGED <<turn, notices, life, asking, inbox, pending, misled>>
        /\ alive' => alive
    BY <1>4 DEF ThreadReady, SteerTaken, SteerRefused, DeadlineRefused,
                Unremarkable, Replied, Fail
  <2> QED
    BY <2>1, OwedQuiet DEF Blocking
<1> QED
  BY <1>1, <1>2, <1>3, <1>4

(* Notices from Codex.                                                     *)
LEMMA OwedNoticed ==
    ASSUME TypeOK, TypeOK', Owed,
           TurnStarted \/ TurnCompleted \/ Asked \/ Resolved \/ Wondered
    PROVE  Owed'
<1>1. /\ notices # <<>> /\ notices' = Tail(notices)
      /\ UNCHANGED <<inbox, alive, misled, life, asking>>
      /\ turn' = After(turn, Head(notices))
      /\ \A r \in Requests : r \in pending' <=> Shown(r, 1)
  BY NoticeRead
<1>2. ASSUME NEW r \in Requests, Shown(r, Len(notices))
      PROVE  Shown(r, Len(notices))'
  <2>1. /\ notices \in Seq(Reported) /\ Len(notices) \in 1..Len(notices)
        /\ Len(notices') = Len(notices) - 1
    BY <1>1, Shift DEF TypeOK
  <2>2. r \in pending' <=> ShownIn(notices, turn, pending, r, 1)
    BY <1>1 DEF Shown
  <2> QED
    BY <1>1, <1>2, <2>1, <2>2, ShownRead DEF Shown
<1>3. ASSUME NEW r, Due(r) PROVE Due(r)'
  BY <1>1, <1>3 DEF Due, Items
<1> QED
  BY <1>1, <1>2, <1>3 DEF Owed, TypeOK

(* A step in which Codex reads a call keeps it, if the call was not what    *)
(* was due to a request Codex still waits on.                               *)
LEMMA OwedRead ==
    ASSUME IInv, TypeOK', Owed, NEW kind, Reads(kind),
           UNCHANGED <<notices, turn, pending, alive, misled>>,
           asking' \subseteq asking,
           \A t \in Clients : life[t] = "running" => life'[t] = "running",
           kind = "reply" => Wanted.id \notin asking',
           kind = "interrupt" => life[Wanted.turn] # "running"
    PROVE  Owed'
<1>1. TypeOK
  BY DEF IInv
<1>2. /\ Items(inbox) = Items(inbox') \cup {Wanted} /\ Wanted.kind = kind
      /\ inbox \in Seq(Called)
  BY <1>1, Reading DEF TypeOK
<1>3. Items(inbox) \subseteq Called
  BY <1>2, ElementOfSeq DEF Items
<1>4. ASSUME NEW r \in asking', Due(r) PROVE Due(r)'
  <2>1. PICK m \in Items(inbox) :
            \/ m.kind = "reply" /\ m.id = r
            \/ m.kind = "interrupt" /\ life[m.turn] = "running"
    BY <1>4 DEF Due
  <2>2. m \in Items(inbox')
    BY <2>1, <1>2, <1>4
  <2>3. m.kind = "interrupt" => m.turn \in Clients
    BY <1>3 DEF Called
  <2> QED
    BY <2>1, <2>2, <2>3 DEF Due
<1> QED
  BY <1>1, <1>4, OwedFrame

(* Calls that Codex reads.                                                 *)
LEMMA OwedHeard ==
    ASSUME IInv, TypeOK', Lives, Owed, Read
    PROVE  Owed'
<1> USE DEF aside, outbox, codex, asks, messages, questions, turnends,
            history, memory
<1>1. TypeOK
  BY DEF IInv
<1>2. CASE Greets \/ Steers
  <2>1. PICK kind \in {"initialize", "auth", "thread", "steer"} : Reads(kind)
    BY <1>2 DEF Greets, Steers
  <2>2. UNCHANGED <<turn, notices, pending, life, asking, alive, misled>>
    BY <1>2 DEF Greets, Steers
  <2> QED
    BY <2>1, <2>2, OwedRead
<1>3. CASE Accepts \/ Refuses \/ HearsAnswer
  <2>1. PICK kind \in {"start", "answer"} : Reads(kind)
    BY <1>3 DEF Accepts, Refuses, HearsAnswer
  <2>2. UNCHANGED <<turn, notices, pending, asking, alive, misled>>
    BY <1>3 DEF Accepts, Refuses, HearsAnswer
  <2>3. /\ Wanted.id \in Clients /\ Wanted \in Items(inbox)
        /\ Bears(Wanted, Wanted.id)
    BY <2>1, Reading DEF Bears
  <2>4. life[Wanted.id] = "none"
    BY <2>3 DEF Lives, LifeSound
  <2>5. \A t \in Clients : t # Wanted.id => life'[t] = life[t]
    BY <1>1, <1>3 DEF Accepts, Refuses, HearsAnswer, TypeOK
  <2> QED
    BY <2>1, <2>2, <2>4, <2>5, OwedRead
<1>4. CASE Interrupts
  <2>1. PICK kind \in {"interrupt", "deadline"} : Reads(kind)
    BY <1>4 DEF Interrupts
  <2>2. UNCHANGED <<turn, pending, alive, misled>>
    BY <1>4 DEF Interrupts
  <2>3. CASE life[Wanted.turn] = "running"
    <3>1. asking' = {}
      BY <1>4, <2>3 DEF Interrupts
    <3> QED
      BY <3>1 DEF Owed
  <2>4. CASE life[Wanted.turn] # "running"
    <3>1. UNCHANGED <<notices, life, asking>>
      BY <1>4, <2>4 DEF Interrupts
    <3> QED
      BY <2>1, <2>2, <2>4, <3>1, OwedRead
  <2> QED
    BY <2>3, <2>4
<1>5. CASE HearsReply
  BY <1>5, OwedRead DEF HearsReply
<1> QED
  BY <1>2, <1>3, <1>4, <1>5 DEF Read

(* A notice of Codex' own accord.                                          *)
LEMMA OwedSaid ==
    ASSUME TypeOK, TypeOK', TurnSound, Owed, NEW e \in Reported,
           notices' = Append(notices, e),
           UNCHANGED <<turn, pending, inbox, alive, misled>>,
           \A t : life[t] = "running" => life'[t] = "running",
           \A r \in asking' :
               \/ e = AskOf(r)
               \/ /\ r \in asking /\ e # ResolveOf(r)
                  /\ e.kind = "completed" => life[e.id] # "running"
    PROVE  Owed'
<1> PICK n \in Nat : n = Len(notices)
  BY LenProperties DEF TypeOK
<1>0. /\ notices \in Seq(Reported) /\ Len(notices') = n + 1
      /\ notices'[n + 1] = e
  BY Extend DEF TypeOK
<1>1. /\ notices \in Seq(Reported) /\ Len(notices') = n + 1
      /\ notices'[n + 1] = e
      /\ n + 1 \in Nat \ {0} /\ (n + 1) - 1 = n /\ n \in 0..Len(notices)
  BY <1>0
<1>2. ASSUME NEW r
      PROVE  Shown(r, n + 1)' <=>
                 \/ e = AskOf(r)
                 \/ Shown(r, n) /\ ~Clears(notices', turn, r, n + 1)
  <2>1. ShownIn(notices', turn', pending', r, n + 1) <=>
            \/ notices'[n + 1] = AskOf(r)
            \/ /\ ShownIn(notices', turn', pending', r, (n + 1) - 1)
               /\ ~Clears(notices', turn', r, n + 1)
    BY <1>1, ShownStep
  <2>2. ShownIn(notices', turn', pending', r, n)
            <=> ShownIn(notices, turn, pending, r, n)
    BY <1>1, ShownKept
  <2>3. notices'[n + 1] = e /\ (n + 1) - 1 = n /\ turn' = turn
    BY <1>1
  <2>4. /\ Shown(r, n + 1)' <=> ShownIn(notices', turn', pending', r, n + 1)
        /\ Shown(r, n) <=> ShownIn(notices, turn, pending, r, n)
    BY DEF Shown
  <2> QED
    BY <2>1, <2>2, <2>3, <2>4
<1>3. ASSUME e.kind = "completed"
      PROVE  OpenIn(notices', turn, e.id, n) <=> life[e.id] = "running"
  <2>1. e.id \in Clients
    BY <1>3, Kinds
  <2>2. OpenIn(notices', turn, e.id, n) <=> OpenIn(notices, turn, e.id, n)
    BY <1>1, <2>1, TurnKept
  <2> QED
    BY <2>1, <2>2 DEF TurnSound, Open
<1>4. ASSUME NEW r, e # ResolveOf(r),
             e.kind = "completed" => life[e.id] # "running"
      PROVE  ~Clears(notices', turn, r, n + 1)
  BY <1>1, <1>3, <1>4 DEF Clears
<1>5. ASSUME NEW r, Due(r) PROVE Due(r)'
  BY <1>5 DEF Due, Items
<1> SUFFICES ASSUME ~misled, alive, NEW r \in asking', ~Due(r)'
             PROVE  Shown(r, n + 1)'
  BY <1>1 DEF Owed
<1>6. CASE e = AskOf(r)
  BY <1>2, <1>6
<1>7. CASE e # AskOf(r)
  <2>1. Shown(r, n)
    BY <1>5, <1>7 DEF Owed
  <2> QED
    BY <1>2, <1>4, <1>7, <2>1
<1> QED
  BY <1>6, <1>7

(* The delivery, the deadline, the end of the reader, and Codex on its own. *)
LEMMA OwedRest ==
    ASSUME IInv, TypeOK', Lives, Display, Owed,
           \/ Deliver \/ Watch \/ Finish \/ Turns \/ Finishes \/ Chatters
           \/ Dies \/ UNCHANGED vars
    PROVE  Owed'
<1> USE DEF aside, outbox, codex, asks, messages, questions, turnends,
            history, memory
<1>1. TypeOK /\ TurnSound
  BY DEF IInv, Display
<1>2. CASE Deliver /\ MayDeliver
  <2>1. /\ slot \in Clients /\ Write("start", slot, None)
        /\ UNCHANGED <<turn, notices, life, asking, pending, alive, misled>>
    BY <1>1, <1>2 DEF Deliver, MayDeliver, Start, TypeOK
  <2>2. [kind |-> "start", id |-> slot, turn |-> None] \in Called
    BY <2>1 DEF Called
  <2> QED
    BY <1>1, <2>1, <2>2, OwedCalled
<1>3. CASE Deliver /\ ~MayDeliver
  BY <1>1, <1>3, OwedQuiet DEF Deliver, Blocking
<1>4. CASE DeadlinePasses
  <2>1. [kind |-> "deadline", id |-> None, turn |-> turn] \in Called
    BY <1>1, <1>4 DEF DeadlinePasses, Watched, Called, TypeOK
  <2>2. /\ Write("deadline", None, turn)
        /\ UNCHANGED <<turn, notices, life, asking, pending, alive, misled>>
    BY <1>4 DEF DeadlinePasses
  <2> QED
    BY <1>1, <2>1, <2>2, OwedCalled
<1>5. CASE GraceEnds \/ Finish \/ Dies
  <2>1. ~alive'
    BY <1>5 DEF GraceEnds, Finish, Dies
  <2> QED
    BY <2>1 DEF Owed
<1>6. CASE UNCHANGED vars
  BY <1>1, <1>6, OwedQuiet DEF vars, Blocking
<1>7. ASSUME NEW t \in Clients, TakesUp(t) PROVE Owed'
  <2>1. /\ life[t] = "held" /\ life' = [life EXCEPT ![t] = "starting"]
        /\ UNCHANGED <<turn, pending, inbox, asking, notices, alive, misled>>
    BY <1>7 DEF TakesUp
  <2>2. \A u : life[u] = "running" => life'[u] = "running"
    BY <1>1, <2>1 DEF TypeOK
  <2>3. ASSUME NEW r, Due(r) PROVE Due(r)'
    BY <2>1, <2>2, <2>3 DEF Due, Items
  <2> QED
    BY <1>1, <2>1, <2>3, OwedFrame
<1>8. ASSUME NEW t \in Clients, Begins(t) PROVE Owed'
  <2> DEFINE e == StartOf(t)
  <2>1. /\ e \in Reported /\ e.kind = "started" /\ \A r : e # ResolveOf(r)
    BY DEF Reported, StartOf, ResolveOf
  <2>2. /\ notices' = Append(notices, e) /\ life[t] = "starting"
        /\ life' = [life EXCEPT ![t] = "running"]
        /\ UNCHANGED <<turn, pending, inbox, asking, alive, misled>>
    BY <1>8 DEF Begins, Says, StartOf
  <2> HIDE DEF e
  <2>3. \A u : life[u] = "running" => life'[u] = "running"
    BY <1>1, <2>2 DEF TypeOK
  <2> QED
    BY <1>1, <2>1, <2>2, <2>3, OwedSaid
<1>9. ASSUME NEW t \in Clients, Completes(t) PROVE Owed'
  BY <1>9 DEF Completes, Owed
<1>10. ASSUME NEW t \in Clients, Repeats(t) PROVE Owed'
  <2> DEFINE e == EndOf(t)
  <2>1. e \in Reported /\ e.id = t /\ \A r : e # ResolveOf(r)
    BY DEF Reported, EndOf, ResolveOf
  <2>2. /\ notices' = Append(notices, e) /\ life[t] = "ended"
        /\ life' = [life EXCEPT ![t] = "repeated"]
        /\ UNCHANGED <<turn, pending, inbox, asking, alive, misled>>
    BY <1>10 DEF Repeats, Says, EndOf
  <2> HIDE DEF e
  <2>3. \A u : life[u] = "running" => life'[u] = "running"
    BY <1>1, <2>2 DEF TypeOK
  <2> QED
    BY <1>1, <2>1, <2>2, <2>3, OwedSaid
<1>11. ASSUME NEW r \in Requests, Asks(r) PROVE Owed'
  <2> DEFINE e == AskOf(r)
  <2>1. e \in Reported /\ e.kind = "ask" /\ \A u : e # ResolveOf(u)
    BY DEF Reported, AskOf, ResolveOf
  <2>2. /\ notices' = Append(notices, e) /\ asking' = asking \cup {r}
        /\ UNCHANGED <<turn, pending, inbox, life, alive, misled>>
    BY <1>11 DEF Asks, Says, AskOf
  <2>3. \A u \in asking' : u \in asking \/ e = AskOf(u)
    BY <2>2
  <2> HIDE DEF e
  <2> QED
    BY <1>1, <2>1, <2>2, <2>3, OwedSaid
<1>12. ASSUME NEW r \in Requests, Withdraws(r) PROVE Owed'
  <2> DEFINE e == ResolveOf(r)
  <2>1. /\ e \in Reported /\ e.kind = "resolved"
        /\ \A u : e = ResolveOf(u) => u = r
    BY DEF Reported, ResolveOf
  <2>2. /\ notices' = Append(notices, e) /\ asking' = asking \ {r}
        /\ UNCHANGED <<turn, pending, inbox, life, alive, misled>>
    BY <1>12 DEF Withdraws, Says, ResolveOf
  <2> HIDE DEF e
  <2> QED
    BY <1>1, <2>1, <2>2, OwedSaid
<1>13. ASSUME NEW q \in Questions, Poses(q) PROVE Owed'
  <2> DEFINE e == [kind |-> "question", id |-> q]
  <2>1. e \in Reported /\ e.kind = "question" /\ \A u : e # ResolveOf(u)
    BY DEF Reported, ResolveOf
  <2>2. /\ notices' = Append(notices, e)
        /\ UNCHANGED <<turn, pending, inbox, life, asking, alive, misled>>
    BY <1>13 DEF Poses, Says
  <2> HIDE DEF e
  <2> QED
    BY <1>1, <2>1, <2>2, OwedSaid
<1> QED
  BY <1>2, <1>3, <1>4, <1>5, <1>6, <1>7, <1>8, <1>9, <1>10, <1>11, <1>12,
     <1>13
  DEF Watch, Turns, Finishes, Chatters

(* Every step keeps what is owed.                                          *)
LEMMA OwedStep ==
    ASSUME IInv, TypeOK', Lives, Display, Owed, [Next]_vars
    PROVE  Owed'
<1>1. TypeOK
  BY DEF IInv
<1>2. CASE Command
  BY <1>1, <1>2, OwedCommand DEF Command
<1>3. CASE Consume
  BY <1>1, <1>3, OwedReplied, OwedNoticed DEF Consume
<1> QED
  BY <1>2, <1>3, OwedHeard, OwedRest DEF Next

-----------------------------------------------------------------------------
(* The state the session shows.                                            *)

(* The states of an ending are shown when it has begun.                     *)
StateSound ==
    /\ state = "stopping" => stopping
    /\ state \in {"stopped", "interrupted"} => pc = "over"
    /\ pc = "over" \/ state = "failed" => ~alive

(* No turn is shown at rest.                                               *)
Rests == state = "idle" /\ ~misled => turn = None

(* The session waits for input exactly when a request is pending.           *)
Waits ==
    /\ state = "waiting_input" => Blocking # {}
    /\ ~misled /\ ~stopping /\ alive /\ Blocking # {} =>
           state = "waiting_input"

Standing == StateSound /\ Rests /\ Waits

(* A step keeps it if it leaves the state, the turn and what is pending.    *)
LEMMA StandingFrame ==
    ASSUME Standing, UNCHANGED <<state, turn, Blocking, stopping>>,
           misled => misled', alive' => alive,
           pc' = "over" <=> pc = "over"
    PROVE  Standing'
BY DEF Standing, StateSound, Rests, Waits

(* The first notice not read starts a turn when none is shown, and asks     *)
(* when one is.                                                            *)
LEMMA HeadNotice ==
    ASSUME TypeOK, NoticesSound, notices # <<>>
    PROVE  /\ Head(notices).kind = "started" => turn = None
           /\ Head(notices).kind = "ask" => turn # None
<1>1. /\ Head(notices) = notices[1] /\ 1 \in 1..Len(notices)
      /\ 1 \in Nat \ {0} /\ 1 - 1 = 0
  BY Shift DEF TypeOK
<1>2. \A t : Open(t, 0) <=> turn = t
  BY TurnNow DEF Open
<1>3. ASSUME notices[1].kind = "started" PROVE turn = None
  <2>1. \A t \in Clients : ~Open(t, 0)
    BY <1>1, <1>3 DEF NoticesSound
  <2> QED
    BY <1>2, <2>1 DEF TypeOK
<1>4. ASSUME notices[1].kind = "ask" PROVE turn # None
  <2>1. PICK t \in Clients : Open(t, 1)
    BY <1>1, <1>4 DEF NoticesSound
  <2>2. OpenIn(notices, turn, t, 1) <=>
            \/ notices[1] = StartOf(t)
            \/ OpenIn(notices, turn, t, 1 - 1) /\ ~Stops(notices, t, 1)
    BY <1>1, TurnStep
  <2>3. notices[1] # StartOf(t)
    BY <1>4 DEF StartOf
  <2>4. Open(t, 0)
    BY <1>1, <2>1, <2>2, <2>3 DEF Open
  <2> QED
    BY <1>2, <2>4, CodexAssumption
<1> QED
  BY <1>1, <1>3, <1>4

(* Commands.                                                               *)
LEMMA StandingCommand ==
    ASSUME TypeOK, BlockingSound, Standing, NEW c \in Clients,
           \/ SendStart(c) \/ SendSteer(c) \/ SendLater(c) \/ Unqueue(c)
           \/ Interrupt(c) \/ Stop(c)
           \/ \E r \in Requests : Reply(c, r)
           \/ \E q \in Questions : Answer(c, q) \/ Dismiss(c, q)
    PROVE  Standing'
<1> USE DEF aside, outbox, codex, asks, messages, questions, turnends, history
<1>1. pc = "free" /\ UNCHANGED <<pc, alive, misled>>
  BY DEF SendStart, SendSteer, SendLater, Unqueue, Interrupt, Stop, Reply,
         Answer, Dismiss, Submit
<1>2. ASSUME state \in {"idle", "working"}, state' = "working",
             Blocking' \subseteq Blocking, stopping' = stopping
      PROVE  Standing'
  BY <1>1, <1>2 DEF Standing, StateSound, Rests, Waits
<1>3. CASE SendStart(c)
  BY <1>2, <1>3 DEF SendStart, Start, Blocking
<1>4. CASE SendSteer(c) \/ SendLater(c) \/ Unqueue(c)
  BY <1>1, <1>4, StandingFrame DEF SendSteer, SendLater, Unqueue, Blocking
<1>5. CASE Interrupt(c)
  BY <1>1, <1>5 DEF Interrupt, ClearPending, Standing, StateSound, Rests,
                    Waits, Blocking
<1>6. CASE Stop(c)
  BY <1>1, <1>6 DEF Stop, Standing, StateSound, Rests, Waits
<1>7. ASSUME NEW r \in Requests, Reply(c, r) PROVE Standing'
  <2>1. /\ r \in Blocking /\ Blocking' = Blocking \ {r}
        /\ state' = IF Blocking = {r} THEN "working" ELSE state
        /\ UNCHANGED <<turn, stopping>>
    BY <1>7 DEF Reply, AfterReply, Blocking
  <2> QED
    BY <1>1, <2>1 DEF Standing, StateSound, Rests, Waits
<1>8. ASSUME NEW q \in Questions, Answer(c, q) PROVE Standing'
  BY <1>2, <1>8 DEF Answer, Blocking
<1>9. ASSUME NEW q \in Questions, Dismiss(c, q) PROVE Standing'
  <2>1. Blocking' = Blocking
    BY <1>9, CodexAssumption DEF Dismiss, Blocking
  <2> QED
    BY <1>1, <1>9, <2>1, StandingFrame DEF Dismiss
<1> QED
  BY <1>3, <1>4, <1>5, <1>6, <1>7, <1>8, <1>9

(* Lines from Codex.                                                       *)
LEMMA StandingConsume ==
    ASSUME TypeOK, Display, Greeting, Standing, Consume
    PROVE  Standing'
<1> USE DEF aside, outbox, codex, asks, messages, questions, turnends,
            history, memory
<1>1. pc = "free" /\ pc' # "over" /\ stopping' = stopping
  BY DEF Consume, Greeted, ThreadReady, SteerTaken, SteerRefused,
         AnswerReplied, RequestRefused, DeadlineRefused, Unremarkable,
         TurnStarted, TurnCompleted, Asked, Resolved, Wondered, Replied,
         Noticed
<1>2. ASSUME UNCHANGED <<state, turn, alive, misled>>, Blocking' = Blocking
      PROVE  Standing'
  BY <1>1, <1>2, StandingFrame
<1>3. ASSUME Fail PROVE Standing'
  BY <1>1, <1>3 DEF Fail, Standing, StateSound, Rests, Waits
<1>4. ASSUME state' = "idle", alive' = alive, Blocking' = {},
             ~misled' => turn' = None
      PROVE  Standing'
  BY <1>1, <1>4 DEF Standing, StateSound, Rests, Waits
<1>5. CASE Greeted
  BY <1>2, <1>3, <1>5 DEF Greeted, Live, Blocking
<1>6. CASE ThreadReady
  <2>1. Hands
    <3>1. replies \in Seq(Returned) /\ replies # <<>>
          /\ Head(replies).kind = "threaded"
      BY <1>6 DEF ThreadReady, Replied, TypeOK
    <3>2. Head(replies) \in Items(replies)
      BY <3>1, ItemsTail
    <3> QED
      BY <3>1, <3>2 DEF Hands, HandReply
  <2>2. turn' = None /\ Blocking' = {}
    BY <1>6, <2>1 DEF ThreadReady, Greeting, Blocking
  <2> QED
    BY <1>3, <1>4, <1>6, <2>2 DEF ThreadReady
<1>7. CASE SteerTaken \/ SteerRefused \/ Unremarkable
  BY <1>2, <1>7 DEF SteerTaken, SteerRefused, Unremarkable, Blocking
<1>8. CASE AnswerReplied
  <2>1. answering[Named] \in Questions
    BY <1>8 DEF AnswerReplied, IsAnswer, TypeOK
  <2>2. /\ Blocking' = Blocking
        /\ UNCHANGED <<turn, alive, misled>>
        /\ state' # state => state' = "idle" /\ turn = None
    <3>1. /\ pending' \in {pending, pending \cup {answering[Named]}}
          /\ UNCHANGED <<turn, alive, misled>>
          /\ state' # state => state' = "idle" /\ turn = None
      BY <1>8 DEF AnswerReplied, Restored
    <3>2. Blocking' = Blocking
      BY <2>1, <3>1, CodexAssumption DEF Blocking
    <3> QED
      BY <3>1, <3>2
  <2>3. turn = None => Blocking = {}
    BY DEF Display, BlockingSound
  <2> QED
    BY <1>2, <1>4, <2>2, <2>3
<1>9. CASE RequestRefused
  <2>1. CASE state = "starting"
    BY <1>3, <1>9, <2>1 DEF RequestRefused
  <2>2. CASE state # "starting"
    <3>1. /\ state' = "idle" /\ alive' = alive /\ Blocking' = {}
          /\ misled' = (misled \/ turn # None \/ ~AskedForATurn)
          /\ turn' = turn
      BY <1>9, <2>2 DEF RequestRefused, ClearPending, Blocking
    <3>2. ~misled' => turn' = None
      BY <3>1
    <3> QED
      BY <1>4, <3>1, <3>2
  <2> QED
    BY <2>1, <2>2
<1>10. CASE DeadlineRefused
  BY <1>3, <1>10 DEF DeadlineRefused
<1>11. CASE TurnStarted
  <2>1. turn = None
    BY <1>11, HeadNotice DEF TurnStarted, Noticed, Display
  <2>2. state' = "working" /\ Blocking' = {} /\ UNCHANGED <<alive, misled>>
    BY <1>11, <2>1 DEF TurnStarted, Display, BlockingSound, Blocking
  <2> QED
    BY <1>1, <2>2 DEF Standing, StateSound, Rests, Waits
<1>12. CASE TurnCompleted
  <2>1. CASE Current(Subject)
    <3>1. /\ state' = "idle" /\ turn' = None
          /\ pending' = pending \cap Questions
          /\ UNCHANGED <<alive, misled>>
      BY <1>12, <2>1 DEF TurnCompleted, Remaining
    <3>2. Blocking' = {}
      BY <3>1, CodexAssumption DEF Blocking
    <3> QED
      BY <1>4, <3>1, <3>2
  <2>2. CASE ~Current(Subject)
    BY <1>2, <1>12, <2>2 DEF TurnCompleted, Blocking
  <2> QED
    BY <2>1, <2>2
<1>13. CASE Asked
  <2>1. /\ notices \in Seq(Reported) /\ notices # <<>>
        /\ Head(notices).kind = "ask" /\ state' = "waiting_input"
        /\ pending' = pending \cup {Head(notices).id}
        /\ UNCHANGED <<turn, alive, misled>>
    BY <1>13 DEF Asked, Noticed, Subject, TypeOK
  <2>2. Head(notices) \in Reported
    BY <2>1, Shift
  <2>3. Head(notices).id \in Requests
    BY <2>1, <2>2, Kinds
  <2>4. Blocking' # {}
    BY <2>1, <2>3 DEF Blocking
  <2> QED
    BY <1>1, <2>1, <2>4 DEF Standing, StateSound, Rests, Waits
<1>14. CASE Resolved
  <2>1. /\ Blocking' = Blocking \ {Subject}
        /\ state' = IF Subject \in pending /\ Blocking \subseteq {Subject}
                       /\ state = "waiting_input"
                    THEN IF turn # None THEN "working" ELSE "idle"
                    ELSE state
        /\ UNCHANGED <<turn, alive, misled>>
    BY <1>14 DEF Resolved, Blocking
  <2>2. Blocking \subseteq pending
    BY DEF Blocking
  <2>3. StateSound' /\ Rests'
    BY <1>1, <2>1 DEF Standing, StateSound, Rests
  <2>4. state' = "waiting_input" => Blocking' # {}
    BY <2>1, <2>2 DEF Standing, Waits
  <2>5. ~misled' /\ ~stopping' /\ alive' /\ Blocking' # {} =>
            state' = "waiting_input"
    BY <1>1, <2>1 DEF Standing, Waits
  <2> QED
    BY <2>3, <2>4, <2>5 DEF Standing, Waits
<1>15. CASE Wondered
  <2>1. /\ notices \in Seq(Reported) /\ notices # <<>>
        /\ Head(notices).kind = "question"
        /\ pending' \in {pending, pending \cup {Head(notices).id}}
        /\ UNCHANGED <<state, turn, alive, misled>>
    BY <1>15 DEF Wondered, Posed, Noticed, Subject, TypeOK
  <2>2. Head(notices) \in Reported
    BY <2>1, Shift
  <2>3. Head(notices).id \in Questions
    BY <2>1, <2>2 DEF Reported
  <2>4. Blocking' = Blocking
    BY <2>1, <2>3, CodexAssumption DEF Blocking
  <2> QED
    BY <1>2, <2>1, <2>4
<1> QED
  BY <1>5, <1>6, <1>7, <1>8, <1>9, <1>10, <1>11, <1>12, <1>13, <1>14, <1>15
  DEF Consume

(* Every step keeps it.                                                    *)
LEMMA StandingStep ==
    ASSUME IInv, Display, Greeting, Standing, [Next]_vars
    PROVE  Standing'
<1> USE DEF aside, outbox, codex, asks, messages, questions, turnends,
            history, memory
<1>1. TypeOK /\ BlockingSound
  BY DEF IInv, Display
<1>2. CASE Command
  BY <1>1, <1>2, StandingCommand DEF Command
<1>3. CASE Consume
  BY <1>1, <1>3, StandingConsume
<1>4. ASSUME UNCHANGED <<state, turn, pending, stopping, misled, pc>>,
             alive' => alive
      PROVE  Standing'
  BY <1>4, StandingFrame DEF Blocking
<1>5. CASE Deliver
  <2>1. CASE MayDeliver
    BY <1>5, <2>1 DEF Deliver, MayDeliver, Start, Blocking, Standing,
                      StateSound, Rests, Waits
  <2>2. CASE ~MayDeliver
    <3>1. UNCHANGED <<state, turn, Blocking, stopping, misled, alive>>
          /\ pc' # "over" /\ pc # "over"
      BY <1>5, <2>2 DEF Deliver, Blocking
    <3> QED
      BY <3>1, StandingFrame
  <2> QED
    BY <2>1, <2>2
<1>6. CASE Watch
  <2>1. CASE DeadlinePasses /\ alive
    BY <1>4, <2>1 DEF DeadlinePasses
  <2>2. CASE GraceEnds
    BY <2>2 DEF GraceEnds, Blocking, Standing, StateSound, Rests, Waits
  <2>3. CASE DeadlinePasses /\ ~alive
    BY <2>3 DEF DeadlinePasses, Blocking, Standing, StateSound, Rests, Waits
  <2> QED
    BY <1>6, <2>1, <2>2, <2>3 DEF Watch
<1>7. CASE Finish
  <2>1. state' \in {"stopped", "failed", "interrupted"}
    BY <1>7 DEF Finish, Endings
  <2>2. pc' = "over" /\ ~alive'
    BY <1>7 DEF Finish
  <2> QED
    BY <2>1, <2>2 DEF Standing, StateSound, Rests, Waits
<1>8. CASE Read \/ Turns \/ Finishes \/ Chatters
  BY <1>4, <1>8
  DEF Read, Turns, Finishes, Chatters, Greets, Accepts, Refuses, Steers,
      Interrupts, HearsReply, HearsAnswer, Begins, TakesUp, Completes, Repeats,
      Asks, Withdraws, Poses
<1>9. CASE Dies \/ UNCHANGED vars
  BY <1>4, <1>9 DEF Dies, vars
<1> QED
  BY <1>2, <1>3, <1>5, <1>6, <1>7, <1>8, <1>9 DEF Next

-----------------------------------------------------------------------------
(* Something always comes to end what is shown as work.                     *)

(* The refusal of a turn, or of an answer.                                  *)
NoTurn(n) ==
    /\ n.kind = "refused" /\ n.id \in Clients
    /\ life[n.id] = "refused" \/ answering[n.id] # None

(* A turn is shown, was reported, or is about to be; or a call for one, or  *)
(* its refusal, is on its way.                                             *)
Coming ==
    \/ turn # None
    \/ \E m \in Items(notices) : m.kind = "started"
    \/ \E c \in Clients : life[c] \in {"starting", "held"}
    \/ \E m \in Items(inbox) : m.kind \in {"start", "answer"}
    \/ \E n \in Items(replies) : NoTurn(n)

Working ==
    ~misled /\ ~stopping /\ alive /\ state \in {"working", "waiting_input"} =>
        Coming

(* A step keeps it if it takes none of these away.                          *)
LEMMA WorkingFrame ==
    ASSUME Working,
           misled => misled', stopping => stopping', alive' => alive,
           state' \in {"working", "waiting_input"} =>
               state \in {"working", "waiting_input"},
           turn # None => turn' # None,
           \A m \in Items(notices) : m.kind = "started" =>
               m \in Items(notices'),
           \A c \in Clients : life[c] \in {"starting", "held", "refused"} =>
               life'[c] = life[c],
           \A m \in Items(inbox) : m.kind \in {"start", "answer"} =>
               m \in Items(inbox'),
           \A n \in Items(replies) : NoTurn(n) =>
               n \in Items(replies') /\ answering'[n.id] = answering[n.id]
    PROVE  Working'
<1> SUFFICES ASSUME Coming PROVE Coming'
  BY DEF Working
<1>1. CASE turn # None
  BY <1>1 DEF Coming
<1>2. CASE \E m \in Items(notices) : m.kind = "started"
  BY <1>2 DEF Coming
<1>3. CASE \E c \in Clients : life[c] \in {"starting", "held"}
  BY <1>3 DEF Coming
<1>4. CASE \E m \in Items(inbox) : m.kind \in {"start", "answer"}
  BY <1>4 DEF Coming
<1>5. ASSUME NEW n \in Items(replies), NoTurn(n) PROVE Coming'
  <2>1. NoTurn(n)' /\ n \in Items(replies')
    BY <1>5 DEF NoTurn
  <2> QED
    BY <2>1 DEF Coming
<1> QED
  BY <1>1, <1>2, <1>3, <1>4, <1>5 DEF Coming

(* A step that calls for a turn.                                           *)
LEMMA WorkingStarted ==
    ASSUME TypeOK, NEW kind \in {"start", "answer"}, NEW id \in Clients,
           Write(kind, id, None), alive' => alive
    PROVE  Working'
<1> DEFINE m == [kind |-> kind, id |-> id, turn |-> None]
<1>1. m \in Called /\ m.kind \in {"start", "answer"}
  BY DEF Called
<1>2. alive => m \in Items(inbox')
  BY <1>1, Written
<1> HIDE DEF m
<1>3. alive => Coming'
  BY <1>1, <1>2 DEF Coming
<1> QED
  BY <1>3 DEF Working

(* Commands.                                                               *)
LEMMA WorkingCommand ==
    ASSUME TypeOK, BlockingSound, Working, NEW c \in Clients,
           \/ SendStart(c) \/ SendSteer(c) \/ SendLater(c) \/ Unqueue(c)
           \/ Interrupt(c) \/ Stop(c)
           \/ \E r \in Requests : Reply(c, r)
           \/ \E q \in Questions : Answer(c, q) \/ Dismiss(c, q)
    PROVE  Working'
<1> USE DEF aside, outbox, codex, asks, messages, questions, turnends, history
<1>1. ASSUME UNCHANGED <<state, turn, notices, life, inbox, replies, answering,
                         misled, stopping, alive>>
      PROVE  Working'
  BY <1>1 DEF Working, Coming, NoTurn, Items
<1>2. ASSUME turn' # None PROVE Working'
  BY <1>2 DEF Working, Coming
<1>3. CASE SendStart(c)
  BY <1>3, WorkingStarted DEF SendStart, Start
<1>4. CASE SendSteer(c) \/ Interrupt(c)
  BY <1>2, <1>4 DEF SendSteer, Interrupt
<1>5. CASE SendLater(c) \/ Unqueue(c)
  BY <1>1, <1>5 DEF SendLater, Unqueue
<1>6. CASE Stop(c)
  BY <1>6 DEF Stop, Working
<1>7. ASSUME NEW r \in Requests, Reply(c, r) PROVE Working'
  <2>1. turn # None /\ turn' = turn
    BY <1>7 DEF Reply, BlockingSound
  <2> QED
    BY <1>2, <2>1
<1>8. ASSUME NEW q \in Questions, Answer(c, q) PROVE Working'
  BY <1>8, WorkingStarted DEF Answer
<1>9. ASSUME NEW q \in Questions, Dismiss(c, q) PROVE Working'
  BY <1>1, <1>9 DEF Dismiss
<1> QED
  BY <1>3, <1>4, <1>5, <1>6, <1>7, <1>8, <1>9

(* Answers from Codex.                                                     *)
LEMMA WorkingReplied ==
    ASSUME IInv, Lives, Working,
           \/ Greeted \/ ThreadReady \/ SteerTaken \/ SteerRefused
           \/ AnswerReplied \/ RequestRefused \/ DeadlineRefused
           \/ Unremarkable
    PROVE  Working'
<1> USE DEF aside, outbox, codex, asks, messages, questions, turnends,
            history, memory
<1>1. TypeOK /\ Messages
  BY DEF IInv
<1>2. ASSUME NEW kind, Replied(kind),
             kind = "refused" => ~NoTurn(Head(replies)),
             UNCHANGED <<state, turn, life, misled, stopping, alive>>,
             Items(inbox) \subseteq Items(inbox'),
             \A n \in Items(replies') : n.id \in Clients =>
                 answering'[n.id] = answering[n.id]
      PROVE  Working'
  <2>1. /\ Items(replies) = Items(replies') \cup {Head(replies)}
        /\ Head(replies).kind = kind /\ notices' = notices
    BY <1>1, <1>2, Consumed DEF Replied
  <2>2. \A n \in Items(replies) : NoTurn(n) =>
            n \in Items(replies') /\ answering'[n.id] = answering[n.id]
    BY <1>2, <2>1 DEF NoTurn
  <2>3. Items(notices') = Items(notices)
    BY <2>1
  <2> QED
    BY <1>2, <2>2, <2>3, WorkingFrame
<1>3. ASSUME Fail \/ state' = "idle" PROVE Working'
  BY <1>3 DEF Fail, Working
<1>4. CASE Greeted
  <2>1. PICK kind \in {"initialized", "authenticated", "unauthenticated"} :
            Replied(kind)
    BY <1>4 DEF Greeted
  <2>2. /\ \/ inbox' = inbox
           \/ Write("auth", None, None) \/ Write("thread", None, None)
        /\ Live \/ Fail
        /\ UNCHANGED <<turn, life, misled, stopping, answering>>
    BY <1>4 DEF Greeted
  <2>3. Items(inbox) \subseteq Items(inbox')
    <3>1. /\ [kind |-> "auth", id |-> None, turn |-> None] \in Called
          /\ [kind |-> "thread", id |-> None, turn |-> None] \in Called
      BY DEF Called
    <3>2. CASE inbox' = inbox
      BY <3>2
    <3>3. CASE Write("auth", None, None)
      BY <1>1, <3>1, <3>3, Written
    <3>4. CASE Write("thread", None, None)
      BY <1>1, <3>1, <3>4, Written
    <3> QED
      BY <2>2, <3>2, <3>3, <3>4
  <2> QED
    BY <1>2, <1>3, <2>1, <2>2, <2>3 DEF Live
<1>5. CASE ThreadReady \/ RequestRefused \/ DeadlineRefused
  BY <1>3, <1>5 DEF ThreadReady, RequestRefused, DeadlineRefused
<1>6. CASE SteerTaken \/ Unremarkable
  <2>1. /\ Replied("ok")
        /\ UNCHANGED <<state, turn, life, misled, stopping, alive, inbox,
                       answering>>
    BY <1>6 DEF SteerTaken, Unremarkable
  <2> QED
    BY <1>2, <2>1
<1>7. CASE SteerRefused
  <2>1. /\ Replied("refused") /\ Named \in steering
        /\ UNCHANGED <<state, turn, life, misled, stopping, alive, inbox,
                       answering>>
    BY <1>7 DEF SteerRefused
  <2>2. Named \in Clients => life[Named] = "none"
    BY <2>1 DEF Lives, LifeSound
  <2>3. answering[Named] = None
    BY <1>1, <2>1 DEF Messages, SteerSound
  <2>4. ~NoTurn(Head(replies))
    BY <2>2, <2>3 DEF NoTurn, Named
  <2> QED
    BY <1>2, <2>1, <2>4
<1>8. CASE AnswerReplied
  <2>1. /\ Named \in Clients /\ answering' = [answering EXCEPT ![Named] = None]
        /\ UNCHANGED <<turn, life, misled, stopping, alive, inbox>>
    BY <1>8 DEF AnswerReplied, IsAnswer
  <2>2. CASE turn # None
    BY <2>1, <2>2 DEF Working, Coming
  <2>3. CASE turn = None /\ Head(replies).kind = "refused"
    BY <1>3, <1>8, <2>3 DEF AnswerReplied
  <2>4. CASE turn = None /\ Head(replies).kind # "refused"
    <3>1. Replied("ok") /\ state' = state
      BY <1>8, <2>4 DEF AnswerReplied, Replied
    <3>2. \A n \in Items(replies') : n.id # Named
      BY <1>1, <2>1, <3>1, Consumed
    <3>3. \A n \in Items(replies') : n.id \in Clients =>
              answering'[n.id] = answering[n.id]
      BY <1>1, <2>1, <3>2 DEF TypeOK
    <3> QED
      BY <1>2, <2>1, <3>1, <3>3
  <2> QED
    BY <2>2, <2>3, <2>4
<1> QED
  BY <1>4, <1>5, <1>6, <1>7, <1>8

(* Notices from Codex.                                                     *)
LEMMA WorkingNoticed ==
    ASSUME TypeOK, NoticesSound, Working,
           TurnStarted \/ TurnCompleted \/ Asked \/ Resolved \/ Wondered
    PROVE  Working'
<1> USE DEF aside, outbox, codex, asks, messages, questions, turnends,
            history, memory
<1>1. /\ notices \in Seq(Reported) /\ notices # <<>>
      /\ notices' = Tail(notices)
      /\ UNCHANGED <<life, inbox, replies, answering, misled, stopping, alive>>
  BY DEF TurnStarted, TurnCompleted, Asked, Resolved, Wondered, Noticed, TypeOK
<1>2. ASSUME Head(notices).kind # "started", UNCHANGED <<state, turn>>
      PROVE  Working'
  <2>1. Items(notices) = Items(notices') \cup {Head(notices)}
    BY <1>1, ItemsTail
  <2>2. Items(inbox') = Items(inbox) /\ Items(replies') = Items(replies)
    BY <1>1
  <2>3. \A m \in Items(notices) : m.kind = "started" => m \in Items(notices')
    BY <1>2, <2>1
  <2> QED
    BY <1>1, <1>2, <2>2, <2>3, WorkingFrame
<1>3. ASSUME turn' # None \/ state' = "idle" PROVE Working'
  BY <1>3 DEF Working, Coming
<1>4. CASE TurnStarted
  <2>1. Head(notices) \in Reported /\ Head(notices).kind = "started"
        /\ turn' = Head(notices).id
    BY <1>1, <1>4, Shift DEF TurnStarted, Noticed, Subject
  <2>2. turn' \in Clients
    BY <2>1, Kinds
  <2> QED
    BY <1>3, <2>2, CodexAssumption
<1>5. CASE TurnCompleted
  BY <1>2, <1>3, <1>5 DEF TurnCompleted, Noticed
<1>6. CASE Asked
  <2>1. Head(notices).kind = "ask" /\ turn' = turn
    BY <1>6 DEF Asked, Noticed
  <2> QED
    BY <1>1, <1>3, <2>1, HeadNotice
<1>7. CASE Resolved
  <2>1. /\ Head(notices).kind = "resolved" /\ turn' = turn
        /\ state' \in {state, IF turn # None THEN "working" ELSE "idle"}
    BY <1>7 DEF Resolved, Noticed
  <2> QED
    BY <1>2, <1>3, <2>1
<1>8. CASE Wondered
  BY <1>2, <1>8 DEF Wondered, Noticed
<1> QED
  BY <1>4, <1>5, <1>6, <1>7, <1>8

(* What is in a pipe stays there when something is written behind it.       *)
LEMMA Grown ==
    ASSUME NEW S, NEW s \in Seq(S), NEW e
    PROVE  Items(s) \subseteq Items(Append(s, e)) /\ e \in Items(Append(s, e))
<1>1. /\ Len(s) \in Nat /\ Len(Append(s, e)) = Len(s) + 1
      /\ \A i \in 1..Len(s) : Append(s, e)[i] = s[i]
      /\ Append(s, e)[Len(s) + 1] = e
  OBVIOUS
<1>2. Len(s) + 1 \in 1..Len(s) + 1
      /\ \A i \in 1..Len(s) : i \in 1..Len(s) + 1
  BY <1>1
<1> QED
  BY <1>1, <1>2 DEF Items

(* A turn that runs is shown, or its start was reported.                    *)
LEMMA RunningComes ==
    ASSUME TypeOK, TurnSound, NEW t \in Clients, life[t] = "running"
    PROVE  turn # None \/ \E m \in Items(notices) : m.kind = "started"
<1>1. OpenIn(notices, turn, t, Len(notices))
  BY DEF TurnSound, Open
<1>2. PICK j \in 0..Len(notices) :
          IF j = 0 THEN turn = t ELSE notices[j] = StartOf(t)
  BY <1>1 DEF OpenIn
<1>3. CASE j = 0
  BY <1>2, <1>3, CodexAssumption
<1>4. CASE j # 0
  <2>1. j \in 1..Len(notices)
    BY <1>4
  <2>2. notices[j] \in Items(notices) /\ notices[j].kind = "started"
    BY <1>2, <1>4, <2>1 DEF Items, StartOf
  <2> QED
    BY <2>2
<1> QED
  BY <1>3, <1>4

(* Calls that Codex reads.                                                 *)
LEMMA WorkingHeard ==
    ASSUME IInv, Lives, TurnSound, Working, Read
    PROVE  Working'
<1> USE DEF aside, outbox, codex, asks, messages, questions, turnends,
            history, memory
<1>1. TypeOK
  BY DEF IInv
<1>2. UNCHANGED <<state, turn, misled, stopping, alive, answering>>
  BY DEF Read, Greets, Accepts, Refuses, Steers, Interrupts, HearsReply,
         HearsAnswer
<1>3. ASSUME NEW k, NEW id, Replies(k, id)
      PROVE  /\ Items(replies) \subseteq Items(replies')
             /\ [kind |-> k, id |-> id] \in Items(replies')
  BY <1>1, <1>3, Grown DEF Replies, TypeOK
<1>4. ASSUME NEW kind, Reads(kind), kind \notin {"start", "answer"},
             Items(replies) \subseteq Items(replies'),
             Items(notices) \subseteq Items(notices'),
             \A c \in Clients : life[c] \in {"starting", "held", "refused"} =>
                 life'[c] = life[c]
      PROVE  Working'
  <2>1. Items(inbox) = Items(inbox') \cup {Wanted} /\ Wanted.kind = kind
    BY <1>4, Reading
  <2>2. \A m \in Items(inbox) : m.kind \in {"start", "answer"} =>
            m \in Items(inbox')
    BY <1>4, <2>1
  <2> QED
    BY <1>2, <1>4, <2>2, WorkingFrame
<1>5. ASSUME Coming' PROVE Working'
  BY <1>5 DEF Working
<1>6. ASSUME NEW id \in Clients, Replies("refused", id),
             life'[id] = "refused" \/ answering'[id] # None
      PROVE  Working'
  <2> DEFINE n == [kind |-> "refused", id |-> id]
  <2>1. n \in Items(replies') /\ n.kind = "refused" /\ n.id = id
    BY <1>3, <1>6
  <2> HIDE DEF n
  <2>2. NoTurn(n)'
    BY <1>6, <2>1 DEF NoTurn
  <2> QED
    BY <1>5, <2>1, <2>2 DEF Coming
<1>7. CASE Greets
  <2>1. PICK kind \in {"initialize", "auth", "thread"},
             k \in {"initialized", "authenticated", "threaded",
                    "unauthenticated", "refused"} :
            Reads(kind) /\ Replies(k, None)
    BY <1>7 DEF Greets
  <2>2. UNCHANGED <<notices, life>>
    BY <1>7 DEF Greets
  <2> QED
    BY <1>3, <1>4, <2>1, <2>2
<1>8. CASE Accepts
  <2>1. /\ Reads("start") /\ UNCHANGED <<turn, notices>>
        /\ life' = [life EXCEPT ![Wanted.id] =
                       IF Running = {} THEN "starting" ELSE "joined"]
    BY <1>8 DEF Accepts
  <2>2. /\ Wanted.id \in Clients /\ Wanted \in Items(inbox)
        /\ Bears(Wanted, Wanted.id)
    BY <2>1, Reading DEF Bears
  <2>3. life[Wanted.id] = "none"
    BY <2>2 DEF Lives, LifeSound
  <2>4. CASE Running = {}
    <3>1. life'[Wanted.id] = "starting"
      BY <1>1, <2>1, <2>2, <2>4 DEF TypeOK
    <3> QED
      BY <1>5, <2>2, <3>1 DEF Coming
  <2>5. CASE Running # {}
    <3>1. PICK t \in Clients : life[t] \in {"starting", "running"}
      BY <2>5 DEF Running
    <3>2. life'[t] = life[t]
      BY <1>1, <2>1, <2>3, <3>1 DEF TypeOK
    <3>3. CASE life[t] = "starting"
      BY <1>5, <3>2, <3>3 DEF Coming
    <3>4. CASE life[t] = "running"
      <4>1. turn # None \/ \E m \in Items(notices) : m.kind = "started"
        BY <1>1, <3>4, RunningComes
      <4>2. turn' = turn /\ Items(notices') = Items(notices)
        BY <2>1
      <4> QED
        BY <1>5, <4>1, <4>2 DEF Coming
    <3> QED
      BY <3>1, <3>3, <3>4
  <2> QED
    BY <2>4, <2>5
<1>9. CASE Refuses
  <2>1. /\ Reads("start") /\ Replies("refused", Wanted.id)
        /\ life' = [life EXCEPT ![Wanted.id] = "refused"]
    BY <1>9 DEF Refuses
  <2>2. Wanted.id \in Clients
    BY <2>1, Reading
  <2>3. life'[Wanted.id] = "refused"
    BY <1>1, <2>1, <2>2 DEF TypeOK
  <2> QED
    BY <1>6, <2>1, <2>2, <2>3
<1>10. CASE Steers
  <2>1. PICK k : Reads("steer") /\ Replies(k, Wanted.id)
    BY <1>10 DEF Steers
  <2>2. UNCHANGED <<notices, life>>
    BY <1>10 DEF Steers
  <2> QED
    BY <1>3, <1>4, <2>1, <2>2
<1>11. CASE Interrupts
  <2>1. PICK kind \in {"interrupt", "deadline"} : Reads(kind)
    BY <1>11 DEF Interrupts
  <2>2. PICK k : Replies(k, Wanted.id)
    BY <1>11 DEF Interrupts
  <2>3. CASE life[Wanted.turn] = "running"
    <3>1. /\ life' = [life EXCEPT ![Wanted.turn] = "ended"]
          /\ Says("completed", Wanted.turn)
      BY <1>11, <2>3 DEF Interrupts
    <3>2. Items(notices) \subseteq Items(notices')
      BY <1>1, <3>1, Grown DEF Says, TypeOK
    <3>3. \A c \in Clients : life[c] \in {"starting", "held", "refused"} =>
              life'[c] = life[c]
      BY <1>1, <2>3, <3>1 DEF TypeOK
    <3> QED
      BY <1>3, <1>4, <2>1, <2>2, <3>2, <3>3
  <2>4. CASE life[Wanted.turn] # "running"
    <3>1. UNCHANGED <<notices, life>>
      BY <1>11, <2>4 DEF Interrupts
    <3> QED
      BY <1>3, <1>4, <2>1, <2>2, <3>1
  <2> QED
    BY <2>3, <2>4
<1>12. CASE HearsReply
  <2>1. Reads("reply") /\ UNCHANGED <<notices, replies, life>>
    BY <1>12 DEF HearsReply
  <2> QED
    BY <1>4, <2>1
<1>13. CASE HearsAnswer
  <2>1. Reads("answer")
    BY <1>13 DEF HearsAnswer
  <2>2. Wanted.id \in Clients /\ Wanted \in Items(inbox)
        /\ Wanted.kind = "answer"
    BY <2>1, Reading
  <2>3. CASE life' = [life EXCEPT ![Wanted.id] = "held"]
    <3>1. life'[Wanted.id] = "held"
      BY <1>1, <2>2, <2>3 DEF TypeOK
    <3> QED
      BY <1>5, <2>2, <3>1 DEF Coming
  <2>4. CASE Replies("refused", Wanted.id)
    <3>1. answering'[Wanted.id] # None
      BY <1>2, <2>2 DEF Lives, AnswerCalls
    <3> QED
      BY <1>6, <2>2, <2>4, <3>1
  <2> QED
    BY <1>13, <2>3, <2>4 DEF HearsAnswer
<1> QED
  BY <1>7, <1>8, <1>9, <1>10, <1>11, <1>12, <1>13 DEF Read

(* The delivery, the deadline, the end of the reader, and Codex on its own. *)
LEMMA WorkingRest ==
    ASSUME IInv, Working,
           \/ Deliver \/ Watch \/ Finish \/ Turns \/ Finishes \/ Chatters
           \/ Dies \/ UNCHANGED vars
    PROVE  Working'
<1> USE DEF aside, outbox, codex, asks, messages, questions, turnends,
            history, memory
<1>1. TypeOK
  BY DEF IInv
<1>2. ASSUME UNCHANGED <<state, turn, replies, inbox, answering, misled,
                         stopping, alive>>,
             Items(notices) \subseteq Items(notices'),
             \A c \in Clients : life[c] \in {"starting", "held", "refused"} =>
                 life'[c] = life[c]
      PROVE  Working'
  <2>1. Items(inbox') = Items(inbox) /\ Items(replies') = Items(replies)
    BY <1>2
  <2> QED
    BY <1>2, <2>1, WorkingFrame
<1>3. ASSUME NEW k, NEW id, Says(k, id)
      PROVE  /\ Items(notices) \subseteq Items(notices')
             /\ [kind |-> k, id |-> id] \in Items(notices')
  BY <1>1, <1>3, Grown DEF Says, TypeOK
<1>4. CASE Deliver /\ MayDeliver
  <2>1. slot \in Clients /\ Write("start", slot, None) /\ alive' = alive
    BY <1>1, <1>4 DEF Deliver, MayDeliver, Start, TypeOK
  <2> QED
    BY <1>1, <2>1, WorkingStarted
<1>5. CASE Deliver /\ ~MayDeliver
  BY <1>2, <1>5 DEF Deliver
<1>6. CASE DeadlinePasses
  BY <1>6 DEF DeadlinePasses, Watched, Working, Coming
<1>7. CASE GraceEnds \/ Finish \/ Dies
  <2>1. ~alive'
    BY <1>7 DEF GraceEnds, Finish, Dies
  <2> QED
    BY <2>1 DEF Working
<1>8. CASE UNCHANGED vars
  BY <1>2, <1>8 DEF vars
<1>9. ASSUME NEW t \in Clients, Begins(t) PROVE Working'
  <2> DEFINE m == StartOf(t)
  <2>1. m \in Items(notices') /\ m.kind = "started"
    BY <1>3, <1>9 DEF Begins, StartOf
  <2> HIDE DEF m
  <2> QED
    BY <2>1 DEF Working, Coming
<1>10. ASSUME NEW t \in Clients, TakesUp(t) PROVE Working'
  <2>1. life'[t] = "starting"
    BY <1>1, <1>10 DEF TakesUp, TypeOK
  <2> QED
    BY <2>1 DEF Working, Coming
<1>11. ASSUME NEW t \in Clients, Completes(t) \/ Repeats(t) PROVE Working'
  <2>1. /\ Says("completed", t) /\ life[t] \in {"running", "ended"}
        /\ UNCHANGED <<state, turn, replies, inbox, answering, misled,
                       stopping, alive>>
        /\ \/ life' = [life EXCEPT ![t] = "ended"]
           \/ life' = [life EXCEPT ![t] = "repeated"]
    BY <1>11 DEF Completes, Repeats
  <2>2. \A c \in Clients : life[c] \in {"starting", "held", "refused"} =>
            life'[c] = life[c]
    BY <1>1, <2>1 DEF TypeOK
  <2> QED
    BY <1>2, <1>3, <2>1, <2>2
<1>12. ASSUME NEW k, NEW id, Says(k, id),
              UNCHANGED <<memory, inbox, replies, alive, life, history>>
       PROVE  Working'
  BY <1>2, <1>3, <1>12
<1>13. CASE Chatters
  <2>1. ASSUME NEW r \in Requests, Asks(r) \/ Withdraws(r) PROVE Working'
    BY <1>12, <2>1 DEF Asks, Withdraws
  <2>2. ASSUME NEW q \in Questions, Poses(q) PROVE Working'
    BY <1>12, <2>2 DEF Poses
  <2> QED
    BY <1>11, <1>13, <2>1, <2>2 DEF Chatters
<1> QED
  BY <1>4, <1>5, <1>6, <1>7, <1>8, <1>9, <1>10, <1>11, <1>13
  DEF Watch, Turns, Finishes

(* Every step keeps it.                                                    *)
LEMMA WorkingStep ==
    ASSUME IInv, Lives, Display, Working, [Next]_vars
    PROVE  Working'
<1>1. TypeOK /\ TurnSound /\ NoticesSound /\ BlockingSound
  BY DEF IInv, Display
<1>2. CASE Command
  BY <1>1, <1>2, WorkingCommand DEF Command
<1>3. CASE Consume
  BY <1>1, <1>3, WorkingReplied, WorkingNoticed DEF Consume
<1> QED
  BY <1>1, <1>2, <1>3, WorkingHeard, WorkingRest DEF Next

-----------------------------------------------------------------------------
(* The theorems.                                                           *)

Shows == Lives /\ Greeting /\ Display /\ Owed /\ Standing /\ Working

(* At first Codex has one call to read, and nothing is shown.               *)
LEMMA ShowsInit == Init => Shows
<1> SUFFICES ASSUME Init PROVE Shows
  OBVIOUS
<1>1. /\ notices = <<>> /\ replies = <<>> /\ turn = None /\ pending = {}
      /\ asking = {} /\ put = {} /\ state = "starting" /\ pc = "free" /\ alive
      /\ life = [c \in Clients |-> "none"]
      /\ inbox = <<[kind |-> "initialize", id |-> None, turn |-> None]>>
  BY DEF Init
<1>2. Len(notices) = 0 /\ 1..0 = {}
  BY <1>1
<1>3. /\ Sole(inbox)
      /\ \A m \in Items(inbox) : m.kind = "initialize" /\ m.id = None
  BY <1>1 DEF Sole, Items
<1>4. None \notin Clients
  BY CodexAssumption
<1>5. Lives
  BY <1>1, <1>3, <1>4
  DEF Lives, OneRuns, Running, LifeSound, AnswerCalls, Bears
<1>6. Greeting
  BY <1>1, <1>3 DEF Greeting
<1>7. Display
  <2>1. TurnSound
    BY <1>1, <1>2, <1>4, TurnNow DEF TurnSound, Open
  <2>2. NoticesSound /\ AskingSound /\ BlockingSound
    BY <1>1, <1>2 DEF NoticesSound, AskingSound, BlockingSound, Blocking
  <2>3. PutSound
    BY <1>1, <1>2, <1>3 DEF PutSound, Blocking
  <2>4. ShownSound
    BY <1>1, <1>2, ShownNow DEF ShownSound, Shown
  <2> QED
    BY <2>1, <2>2, <2>3, <2>4 DEF Display
<1>8. Owed /\ Standing /\ Working
  BY <1>1 DEF Owed, Standing, StateSound, Rests, Waits, Working, Blocking
<1> QED
  BY <1>5, <1>6, <1>7, <1>8 DEF Shows

(* The invariant, and what it needs of the calls and the questions.         *)
LEMMA ShowsInvariant == Spec => [](IInv /\ Shows)
<1>1. Init => Shows
  BY ShowsInit
<1>2. /\ IInv /\ Questioned /\ Shows /\ [Next]_vars
      /\ (IInv /\ Questioned)'
      => Shows'
  <2> SUFFICES ASSUME IInv, Questioned, Shows, [Next]_vars, IInv'
               PROVE  Shows'
    OBVIOUS
  <2>1. TypeOK'
    BY DEF IInv
  <2>2. Lives' /\ Greeting' /\ Display'
    BY <2>1, LivesStep, GreetingStep, DisplayStep DEF Shows
  <2>3. Owed' /\ Standing' /\ Working'
    BY <2>1, OwedStep, StandingStep, WorkingStep DEF Shows
  <2> QED
    BY <2>2, <2>3 DEF Shows
<1> QED
  BY <1>1, <1>2, QuestionInvariant, PTL DEF Spec

(* Quiet, the pipes are empty: what is shown after the last notice is what  *)
(* is shown.                                                               *)
LEMMA QuietShows ==
    ASSUME IInv, Shows, Quiet
    PROVE  /\ \A t \in Clients : turn = t <=> life[t] = "running"
           /\ asking = Blocking
<1>1. /\ Len(notices) = 0 /\ Items(inbox) = {} /\ alive /\ ~misled
  BY DEF Quiet, Items
<1>2. ASSUME NEW t \in Clients PROVE turn = t <=> life[t] = "running"
  BY <1>1, TurnNow DEF Shows, Display, TurnSound, Open
<1>3. ASSUME NEW r PROVE Shown(r, Len(notices)) <=> r \in pending
  BY <1>1, ShownNow DEF Shown
<1>4. Blocking \subseteq asking
  BY <1>3 DEF Shows, Display, ShownSound, Blocking
<1>5. asking \subseteq Blocking
  BY <1>1, <1>3 DEF Shows, Owed, Due, IInv, TypeOK, Blocking
<1> QED
  BY <1>2, <1>4, <1>5

(* When nothing is under way between them and no refusal misled it, the     *)
(* supervisor shows the turn Codex runs, and rests when Codex rests.        *)
THEOREM CodexShowsTheTurn == Spec => []ShowsTheTurn
<1>1. IInv /\ Shows => ShowsTheTurn
  <2> SUFFICES ASSUME IInv, Shows, Quiet, state \notin {"starting", "failed"}
               PROVE  /\ turn = IF InTurn
                                THEN CHOOSE t \in Clients : life[t] = "running"
                                ELSE None
                      /\ (state = "idle") = ~InTurn
    BY DEF ShowsTheTurn
  <2>1. turn \in Clients \cup {None} /\ None \notin Clients
    BY CodexAssumption DEF IInv, TypeOK
  <2>2. \A t \in Clients : turn = t <=> life[t] = "running"
    BY QuietShows
  <2>3. CASE InTurn
    <3>1. PICK t \in Clients : life[t] = "running"
      BY <2>3 DEF InTurn
    <3>2. turn = t /\ \A u \in Clients : life[u] = "running" <=> u = t
      BY <2>2, <3>1
    <3>3. (CHOOSE u \in Clients : life[u] = "running") = t
      BY <3>1, <3>2
    <3>4. state # "idle"
      BY <2>1, <3>2 DEF Quiet, Shows, Standing, Rests
    <3> QED
      BY <2>3, <3>2, <3>3, <3>4
  <2>4. CASE ~InTurn
    <3>1. turn = None
      BY <2>1, <2>2, <2>4 DEF InTurn
    <3>2. /\ Items(inbox) = {} /\ Items(replies) = {} /\ Items(notices) = {}
          /\ \A t \in Clients : life[t] \notin {"held", "starting"}
      BY DEF Quiet, Items
    <3>3. ~Coming
      BY <3>1, <3>2 DEF Coming
    <3>4. state \notin {"working", "waiting_input"}
      BY <3>3 DEF Shows, Working, Quiet
    <3>5. state \notin {"stopping", "stopped", "interrupted"}
      BY DEF Quiet, Shows, Standing, StateSound
    <3>6. state = "idle"
      BY <3>4, <3>5 DEF IInv, TypeOK
    <3> QED
      BY <2>4, <3>1, <3>6
  <2> QED
    BY <2>3, <2>4
<1> QED
  BY <1>1, ShowsInvariant, PTL

(* Nor does Codex wait on a request nobody is shown, and the session waits  *)
(* for input exactly when Codex does: an open question does not keep it.    *)
THEOREM CodexShowsWhatIsAsked == Spec => []ShowsWhatIsAsked
<1>1. IInv /\ Shows => ShowsWhatIsAsked
  <2> SUFFICES ASSUME IInv, Shows, Quiet
               PROVE  /\ asking = Blocking
                      /\ (state = "waiting_input") = (asking # {})
    BY DEF ShowsWhatIsAsked
  <2>1. asking = Blocking
    BY QuietShows
  <2>2. state = "waiting_input" <=> Blocking # {}
    BY DEF Quiet, Shows, Standing, Waits
  <2> QED
    BY <2>1, <2>2
<1> QED
  BY <1>1, ShowsInvariant, PTL
=============================================================================
