---------------------------- MODULE HistoryProofs ----------------------------
(***************************************************************************)
(* Proofs about History, for any clients, budgets, runs and records: what   *)
(* retention leaves is what a restart needs, what is recorded beside the    *)
(* records is what they add up to, and what the daemon answers is no older  *)
(* than the position it names.                                              *)
(*                                                                          *)
(* Retention rewrites the stored records, so nothing can be said of them    *)
(* without the ones it removed: the invariant relates the store to every    *)
(* record ever committed, position by position, and the lemmas about        *)
(* Reductions carry that relation over to what the records reduce to.       *)
(***************************************************************************)
EXTENDS History, FiniteSetTheorems, WellFoundedInduction, TLAPS

-----------------------------------------------------------------------------
(* Induction, about a set of numbers.                                       *)

Less == OpToRel(<, Nat)

(* Induction over the numbers, about a set and not about an operator.       *)
LEMMA Induction ==
    ASSUME NEW S, 0 \in S, \A n \in Nat : n \in S => n + 1 \in S
    PROVE  Nat \subseteq S
<1> DEFINE T == Nat \ S
<1> SUFFICES ASSUME T # {} PROVE FALSE
  OBVIOUS
<1>1. T \subseteq Nat
  OBVIOUS
<1>2. IsWellFoundedOn(Less, Nat)
  BY NatLessThanWellFounded DEF Less
<1>3. \E x \in T : \A y \in T : ~(<<y, x>> \in Less)
  <2> HIDE DEF T
  <2> QED
    BY <1>1, <1>2, WFMin
<1>4. PICK x \in T : \A y \in T : ~(<<y, x>> \in Less)
  BY <1>3
<1>5. Less = {p \in Nat \X Nat : p[1] < p[2]}
  BY DEF Less, OpToRel
<1>6. x \in Nat /\ x # 0 /\ x \notin S
  OBVIOUS
<1>7. x - 1 \in Nat /\ <<x - 1, x>> \in Less
  BY <1>5, <1>6
<1>8. x - 1 \in S
  BY <1>4, <1>7
<1> QED
  BY <1>6, <1>7, <1>8

(* The same up to a bound.                                                  *)
LEMMA Upto ==
    ASSUME NEW n \in Nat, NEW S, 0 \in S,
           \A i \in 0 .. n - 1 : i \in S => i + 1 \in S
    PROVE  \A i \in 0 .. n : i \in S
<1> DEFINE T == {m \in Nat : m <= n => m \in S}
<1>1. 0 \in T
  OBVIOUS
<1>2. ASSUME NEW m \in Nat, m \in T PROVE m + 1 \in T
  BY <1>2
<1>3. Nat \subseteq T
  <2> HIDE DEF T
  <2> QED
    BY <1>1, <1>2, Induction
<1> QED
  BY <1>3
-----------------------------------------------------------------------------
(* Reductions satisfies the equation it is written by.                      *)
After(g, s, m) ==
    g = [n \in 0 .. m |-> IF n = 0 THEN Blank ELSE Apply(g[n - 1], s[n])]

(* There is such a function, so the one chosen is one.                      *)
LEMMA AfterExists ==
    ASSUME NEW s, Len(s) \in Nat
    PROVE  \E g : After(g, s, Len(s))
<1> DEFINE S == {m \in Nat : \E g : After(g, s, m)}
<1>1. 0 \in S
  <2>1. After([n \in 0 .. 0 |-> Blank], s, 0)
    BY DEF After
  <2> QED
    BY <2>1
<1>2. ASSUME NEW m \in Nat, m \in S PROVE m + 1 \in S
  <2>1. PICK g : After(g, s, m)
    BY <1>2
  <2> DEFINE h == [n \in 0 .. m + 1 |->
                     IF n <= m THEN g[n] ELSE Apply(g[m], s[m + 1])]
  <2>2. \A n \in 0 .. m :
            g[n] = IF n = 0 THEN Blank ELSE Apply(g[n - 1], s[n])
    BY <2>1 DEF After
  <2>3. ASSUME NEW n \in 0 .. m + 1
        PROVE  h[n] = IF n = 0 THEN Blank ELSE Apply(h[n - 1], s[n])
    <3>1. CASE n <= m
      BY <3>1, <2>2
    <3>2. CASE n = m + 1
      BY <3>2
    <3> QED
      BY <3>1, <3>2
  <2>4. After(h, s, m + 1)
    BY <2>3 DEF After
  <2> QED
    BY <2>4
<1> HIDE DEF S
<1>3. Nat \subseteq S
  BY <1>1, <1>2, Induction
<1> QED
  BY <1>3 DEF S

(* What each record adds to what the records before it reduce to.           *)
LEMMA Reducing ==
    ASSUME NEW s, Len(s) \in Nat
    PROVE  /\ Reductions(s)[0] = Blank
           /\ \A n \in 1 .. Len(s) :
                  Reductions(s)[n] = Apply(Reductions(s)[n - 1], s[n])
<1> DEFINE f == Reductions(s)
<1>1. f = CHOOSE g : After(g, s, Len(s))
  BY DEF Reductions, After
<1> HIDE DEF f
<1>2. After(f, s, Len(s))
  BY <1>1, AfterExists
<1>3. \A n \in 0 .. Len(s) :
          f[n] = IF n = 0 THEN Blank ELSE Apply(f[n - 1], s[n])
  BY <1>2 DEF After
<1> QED
  BY <1>3 DEF f

(* The same for the account that the cut keeps.                             *)
NoTurn == [run |-> 0, pending |-> FALSE, active |-> FALSE]
Tracking(g, s, m) ==
    g = [n \in 0 .. m |-> IF n = 0 THEN NoTurn ELSE Track(g[n - 1], s[n])]

(* There is such a function, too.                                           *)
LEMMA TrackingExists ==
    ASSUME NEW s, Len(s) \in Nat
    PROVE  \E g : Tracking(g, s, Len(s))
<1> DEFINE S == {m \in Nat : \E g : Tracking(g, s, m)}
<1>1. 0 \in S
  <2>1. Tracking([n \in 0 .. 0 |-> NoTurn], s, 0)
    BY DEF Tracking
  <2> QED
    BY <2>1
<1>2. ASSUME NEW m \in Nat, m \in S PROVE m + 1 \in S
  <2>1. PICK g : Tracking(g, s, m)
    BY <1>2
  <2> DEFINE h == [n \in 0 .. m + 1 |->
                     IF n <= m THEN g[n] ELSE Track(g[m], s[m + 1])]
  <2>2. \A n \in 0 .. m :
            g[n] = IF n = 0 THEN NoTurn ELSE Track(g[n - 1], s[n])
    BY <2>1 DEF Tracking
  <2>3. ASSUME NEW n \in 0 .. m + 1
        PROVE  h[n] = IF n = 0 THEN NoTurn ELSE Track(h[n - 1], s[n])
    <3>1. CASE n <= m
      BY <3>1, <2>2
    <3>2. CASE n = m + 1
      BY <3>2
    <3> QED
      BY <3>1, <3>2
  <2>4. Tracking(h, s, m + 1)
    BY <2>3 DEF Tracking
  <2> QED
    BY <2>4
<1> HIDE DEF S
<1>3. Nat \subseteq S
  BY <1>1, <1>2, Induction
<1> QED
  BY <1>3 DEF S

(* What each record adds to the account.                                    *)
LEMMA Accounting ==
    ASSUME NEW s, Len(s) \in Nat
    PROVE  /\ Tracks(s)[0] = NoTurn
           /\ \A n \in 1 .. Len(s) :
                  Tracks(s)[n] = Track(Tracks(s)[n - 1], s[n])
<1> DEFINE f == Tracks(s)
<1>1. f = CHOOSE g : Tracking(g, s, Len(s))
  BY DEF Tracks, Tracking, NoTurn
<1> HIDE DEF f
<1>2. Tracking(f, s, Len(s))
  BY <1>1, TrackingExists
<1>3. \A n \in 0 .. Len(s) :
          f[n] = IF n = 0 THEN NoTurn ELSE Track(f[n - 1], s[n])
  BY <1>2 DEF Tracking
<1> QED
  BY <1>3 DEF f
-----------------------------------------------------------------------------
(* From states that agree, records that act alike lead to states that agree.*)
ActAlike(e, f) == \A c : Apply(c, e) = Apply(c, f)
Alike(s, a, t, b, m) == \A j \in 1 .. m : ActAlike(s[a + j], t[b + j])
Agree(s, a, t, b, m) ==
    \A j \in 0 .. m : Reductions(s)[a + j] = Reductions(t)[b + j]

(* Where two histories agree and act alike from there on, they agree on.    *)
LEMMA SameTail ==
    ASSUME NEW s, NEW t, NEW a \in Nat, NEW b \in Nat, NEW m \in Nat,
           Len(s) \in Nat, Len(t) \in Nat, a + m <= Len(s), b + m <= Len(t),
           Reductions(s)[a] = Reductions(t)[b], Alike(s, a, t, b, m)
    PROVE  Agree(s, a, t, b, m)
<1> DEFINE S == {j \in Nat : Reductions(s)[a + j] = Reductions(t)[b + j]}
<1>1. 0 \in S
  OBVIOUS
<1>2. ASSUME NEW j \in 0 .. m - 1, j \in S PROVE j + 1 \in S
  <2>1. Reductions(s)[a + (j + 1)]
        = Apply(Reductions(s)[a + j], s[a + (j + 1)])
    <3>1. a + (j + 1) \in 1 .. Len(s) /\ (a + (j + 1)) - 1 = a + j
      OBVIOUS
    <3> QED
      BY <3>1, Reducing
  <2>2. Reductions(t)[b + (j + 1)]
        = Apply(Reductions(t)[b + j], t[b + (j + 1)])
    <3>1. b + (j + 1) \in 1 .. Len(t) /\ (b + (j + 1)) - 1 = b + j
      OBVIOUS
    <3> QED
      BY <3>1, Reducing
  <2>3. ActAlike(s[a + (j + 1)], t[b + (j + 1)])
    <3>1. j + 1 \in 1 .. m
      OBVIOUS
    <3> QED
      BY <3>1 DEF Alike
  <2> QED
    BY <1>2, <2>1, <2>2, <2>3 DEF ActAlike
<1> HIDE DEF S
<1>3. \A j \in 0 .. m : j \in S
  BY <1>1, <1>2, Upto
<1> QED
  BY <1>3 DEF S, Agree

(* Two histories that act alike from the start agree throughout.            *)
LEMMA SameStart ==
    ASSUME NEW s, NEW t, NEW m \in Nat, Len(s) \in Nat, Len(t) \in Nat,
           m <= Len(s), m <= Len(t), Alike(s, 0, t, 0, m)
    PROVE  \A j \in 0 .. m : Reductions(s)[j] = Reductions(t)[j]
<1>1. Reductions(s)[0] = Reductions(t)[0]
  BY Reducing
<1>2. PICK z \in Nat : z = 0
  OBVIOUS
<1>3. z + m <= Len(s) /\ z + m <= Len(t) /\ \A j \in 0 .. m : z + j = j
  BY <1>2
<1>4. Agree(s, z, t, z, m)
  BY <1>1, <1>2, <1>3, SameTail
<1> QED
  BY <1>3, <1>4 DEF Agree

(* What the first n records reduce to.                                      *)
LEMMA PrefixReduces ==
    ASSUME NEW E, NEW s \in Seq(E), NEW n \in 0 .. Len(s)
    PROVE  Reduce(Prefix(s, n)) = Reductions(s)[n]
<1> DEFINE t == SubSeq(s, 1, n)
<1>1. Len(t) = n /\ \A j \in 1 .. n : t[j] = s[j]
  OBVIOUS
<1> HIDE DEF t
<1>2. Alike(t, 0, s, 0, n)
  BY <1>1 DEF Alike, ActAlike
<1>3. Reductions(t)[n] = Reductions(s)[n]
  BY <1>1, <1>2, SameStart
<1> QED
  BY <1>1, <1>3 DEF Reduce, Prefix, t

(* A record more changes nothing about the ones before it.                  *)
LEMMA AppendReduces ==
    ASSUME NEW E, NEW s \in Seq(E), NEW e
    PROVE  /\ \A n \in 0 .. Len(s) :
                  Reductions(Append(s, e))[n] = Reductions(s)[n]
           /\ Reduce(Append(s, e)) = Apply(Reduce(s), e)
<1> DEFINE t == Append(s, e)
<1>1. /\ Len(t) = Len(s) + 1 /\ Len(s) \in Nat /\ t[Len(s) + 1] = e
      /\ \A j \in 1 .. Len(s) : t[j] = s[j]
  OBVIOUS
<1> HIDE DEF t
<1>2. \A n \in 0 .. Len(s) : Reductions(t)[n] = Reductions(s)[n]
  <2>1. Alike(t, 0, s, 0, Len(s))
    BY <1>1 DEF Alike, ActAlike
  <2> QED
    BY <1>1, <2>1, SameStart
<1>3. Reductions(t)[Len(t)] = Apply(Reductions(t)[Len(t) - 1], t[Len(t)])
  BY <1>1, Reducing
<1>4. Reductions(t)[Len(t)] = Apply(Reductions(s)[Len(s)], e)
  BY <1>1, <1>2, <1>3
<1> QED
  BY <1>2, <1>4 DEF t, Reduce

(* Every state on the way is one.                                           *)
Welltyped(e) ==
    /\ e \in Event
    /\ e.kind = "input" => e.arg \in Clients
    /\ e.kind = "task" => e.arg \in {"on", "off"}
    /\ e.kind = "setting" => e.arg = "new"

(* The state before any record.                                             *)
LEMMA BlankType == Blank \in Control
  BY BoundAssumption DEF Blank, Control, States, Tasks, Run

(* A record leads from a state to a state.                                  *)
LEMMA ApplyType ==
    ASSUME NEW c \in Control, NEW e, Welltyped(e)
    PROVE  Apply(c, e) \in Control
<1> USE DEF Welltyped, Event
<1>1. CASE e.kind = "checkpoint"
  BY <1>1 DEF Apply
<1>2. CASE e.kind # "checkpoint"
  <2>1. e.kind \in DOMAIN StateAfter => StateAfter[e.kind] \in States
    BY DEF StateAfter, States
  <2>2. e.run \in 0 .. MaxRuns
    BY BoundAssumption DEF Run
  <2>3. e.kind = "task" => [c.tasks EXCEPT ![e.run] = e.arg] \in Tasks
    BY DEF Tasks, Control
  <2>4. e.kind = "input" => c.receipts \cup {e.arg} \in SUBSET Clients
    BY DEF Control
  <2> QED
    BY <1>2, <2>1, <2>2, <2>3, <2>4 DEF Apply, Control
<1> QED
  BY <1>1, <1>2

(* So do all of them, one after the other.                                  *)
LEMMA ReductionsType ==
    ASSUME NEW s, Len(s) \in Nat, \A i \in 1 .. Len(s) : Welltyped(s[i])
    PROVE  \A n \in 0 .. Len(s) : Reductions(s)[n] \in Control
<1> DEFINE S == {n \in Nat : Reductions(s)[n] \in Control}
<1>1. 0 \in S
  BY Reducing, BlankType
<1>2. ASSUME NEW n \in 0 .. Len(s) - 1, n \in S PROVE n + 1 \in S
  <2>1. Reductions(s)[n + 1] = Apply(Reductions(s)[n], s[n + 1])
    <3>1. n + 1 \in 1 .. Len(s) /\ (n + 1) - 1 = n
      OBVIOUS
    <3> QED
      BY <3>1, Reducing
  <2> QED
    BY <1>2, <2>1, ApplyType
<1> HIDE DEF S
<1>3. \A n \in 0 .. Len(s) : n \in S
  BY <1>1, <1>2, Upto
<1> QED
  BY <1>3 DEF S
-----------------------------------------------------------------------------
(* The largest and the smallest of some positions.                          *)
LEMMA MaxIs ==
    ASSUME NEW n \in Nat, NEW S, S \subseteq 1 .. n, S # {}
    PROVE  Max(S) \in S /\ \A x \in S : x <= Max(S)
<1> DEFINE T == {m \in Nat : (\E x \in S : x <= m) =>
                                 \E x \in S : /\ x <= m
                                              /\ \A y \in S : y <= m => y <= x}
<1>1. 0 \in T
  OBVIOUS
<1>2. ASSUME NEW m \in 0 .. n - 1, m \in T PROVE m + 1 \in T
  <2>1. CASE m + 1 \in S
    <3>1. \A y \in S : y <= m + 1 => y <= m + 1
      OBVIOUS
    <3> QED
      BY <2>1, <3>1
  <2>2. CASE m + 1 \notin S
    <3>1. \A y \in S : y <= m + 1 <=> y <= m
      BY <2>2
    <3> QED
      BY <1>2, <3>1
  <2> QED
    BY <2>1, <2>2
<1> HIDE DEF T
<1>3. n \in T
  BY <1>1, <1>2, Upto
<1>4. \E x \in S : \A y \in S : y <= x
  <2>1. \A x \in S : x <= n
    OBVIOUS
  <2>2. \E x \in S : x <= n
    BY <2>1
  <2>3. PICK x \in S : \A y \in S : y <= n => y <= x
    BY <1>3, <2>2 DEF T
  <2> QED
    BY <2>1, <2>3
<1>5. PICK x \in S : \A y \in S : x >= y
  BY <1>4
<1> QED
  BY <1>5 DEF Max

(* The smallest of some positions is one of them.                           *)
LEMMA MinIs ==
    ASSUME NEW n \in Nat, NEW S, S \subseteq 1 .. n, S # {}
    PROVE  Min(S) \in S
<1> DEFINE T == {m \in Nat : (\E x \in S : n - x <= m) =>
                         \E x \in S : /\ n - x <= m
                                      /\ \A y \in S : n - y <= m => x <= y}
<1>1. 0 \in T
  OBVIOUS
<1>2. ASSUME NEW m \in 0 .. n - 1, m \in T PROVE m + 1 \in T
  <2>1. CASE n - (m + 1) \in S
    <3>1. \A y \in S : n - y <= m + 1 => n - (m + 1) <= y
      OBVIOUS
    <3>2. n - (n - (m + 1)) <= m + 1
      OBVIOUS
    <3> QED
      BY <2>1, <3>1, <3>2
  <2>2. CASE n - (m + 1) \notin S
    <3>1. \A y \in S : n - y <= m + 1 <=> n - y <= m
      BY <2>2
    <3> QED
      BY <1>2, <3>1
  <2> QED
    BY <2>1, <2>2
<1> HIDE DEF T
<1>3. n \in T
  BY <1>1, <1>2, Upto
<1>4. \E x \in S : \A y \in S : x <= y
  <2>1. \A x \in S : n - x <= n
    OBVIOUS
  <2>2. \E x \in S : n - x <= n
    BY <2>1
  <2>3. PICK x \in S : \A y \in S : n - y <= n => x <= y
    BY <1>3, <2>2 DEF T
  <2> QED
    BY <2>1, <2>3
<1>5. PICK x \in S : \A y \in S : x <= y
  BY <1>4
<1> QED
  BY <1>5 DEF Min
-----------------------------------------------------------------------------
(* The records committed follow one another; none of them is a checkpoint.  *)
FullSound ==
    \A i \in 1 .. Len(full) : /\ full[i].seq = i /\ Welltyped(full[i])
                              /\ full[i].kind # "checkpoint"

(* The records stored are the last of them, payloads aside, but for the     *)
(* checkpoint, which holds what is gone.                                    *)
Like(e, f) ==
    /\ e.seq = f.seq /\ e.kind = f.kind /\ e.arg = f.arg /\ e.run = f.run
    /\ e.kept = f.kept
Gone == Len(full) - Len(log)
StoreSound ==
    /\ Len(mem) = Len(log) /\ Len(log) <= Len(full)
    /\ Len(full) > 0 => Len(log) > 0
    /\ \A j \in 1 .. Len(log) :
           /\ Like(mem[j], log[j]) /\ log[j].seq = Gone + j
           /\ log[j].kind # "checkpoint" => Like(log[j], full[Gone + j])
           /\ log[j].kind = "checkpoint" =>
                  j = 1 /\ log[j].kept = Reductions(full)[Gone + 1]
    /\ Len(log) > 0 /\ log[1].kind # "checkpoint" => Gone = 0

(* Since the latest message no record and no payload is gone.               *)
LatestSound ==
    \A i \in Inputs(full) : (\A j \in Inputs(full) : j <= i) =>
        /\ i > Gone /\ log[i - Gone].kind = "input"
        /\ \A k \in i .. Len(full) : /\ log[k - Gone] = full[k]
                                     /\ mem[k - Gone] = full[k]

(* What the checkpoint holds was the end of a turn.                         *)
CutSound ==
    Len(log) > 0 /\ log[1].kind = "checkpoint" =>
        /\ log[1].kept.state \in {"idle", "interrupted"}
        /\ ~log[1].kept.pending /\ ~Active(log[1].kept)

(* Runs follow one another, and a run's tasks are its own.                  *)
Fresh(c) == \A r \in Run : r > c.run => c.tasks[r] = "off"
RunsSound ==
    \A i \in 1 .. Len(full) :
        LET c == Reductions(full)[i - 1] IN
        /\ c.run <= full[i].run /\ full[i].run <= run /\ Fresh(c)
        /\ full[i].kind = "task" => full[i].run = c.run
NowSound ==
    /\ Reduce(full).run <= run /\ Fresh(Reduce(full))
    /\ w.at \notin {"down", "open"} =>
           Reduce(full).run = run /\ Len(full) > 0
    /\ w.at # "down" => run > 0
    /\ w.at = "fold" => /\ log[Len(log)].kind # "checkpoint"
                        /\ full[Len(full)].run = run

(* What the recorded state is of, before and after a run's first record.    *)
RecSound ==
    /\ rec = None <=> run = 0
    /\ rec # None =>
        /\ rec.seq <= Len(full) /\ rec.control.run = run
        /\ rec.seq > 0 => rec.control = Reductions(full)[rec.seq]
        /\ rec.seq = 0 => \A i \in 1 .. Len(full) :
                              full[i].run = run => full[i].kind = "starting"
        /\ w.at \notin {"down", "open", "fold", "state"} => rec.seq > 0
    /\ w.at = "open" => \A i \in 1 .. Len(full) : full[i].run < run

(* The folded tasks of the run are those of a moment since the recorded     *)
(* position, and a task that was ever active has a record.                  *)
Told(tasks, r, from) ==
    \E n \in from .. Len(full) : tasks[r] = Reductions(full)[n].tasks[r]
Logged(tasks) ==
    \A r \in Run : tasks[r] = "on" =>
        \E i \in 1 .. Len(full) : full[i].kind = "task" /\ full[i].run = r
BgSound ==
    /\ Logged(bg)
    /\ run > 0 => Told(bg, run, rec.seq)
    /\ w.at \notin {"fold", "down"} => bg[run] = Reduce(full).tasks[run]
    /\ w.at = "fold" => bg[run] = Reductions(full)[Len(full) - 1].tasks[run]

(* What the daemon read is of the run and the position it read.             *)
ViewSound ==
    /\ Logged(view.tasks)
    /\ view.at # "new" =>
        /\ view.run \in 1 .. run /\ view.seq <= Len(full)
        /\ view.seq > 0 => view.run = Reductions(full)[view.seq].run
    /\ view.at = "deriving" => Told(bg, view.run, view.seq)
    /\ view.at = "read" => Told(view.tasks, view.run, view.seq)

Sound ==
    /\ FullSound /\ StoreSound /\ LatestSound /\ CutSound /\ RunsSound
    /\ NowSound /\ RecSound /\ BgSound /\ ViewSound
-----------------------------------------------------------------------------
(* What a record does depends on neither its position nor its payload.      *)
LEMMA LikeActs ==
    ASSUME NEW e, NEW f, Like(e, f)
    PROVE  ActAlike(e, f)
  BY DEF Like, ActAlike, Apply

(* What a restart reduces the stored records to, at each of them.           *)
LEMMA Aligned ==
    ASSUME TypeOK, FullSound, StoreSound
    PROVE  /\ \A j \in 1 .. Len(log) :
                  /\ Reductions(log)[j] = Reductions(full)[Gone + j]
                  /\ Reductions(mem)[j] = Reductions(full)[Gone + j]
           /\ Reduce(log) = Reduce(full) /\ Reduce(mem) = Reduce(full)
           /\ LastSeq(mem) = Len(full)
<1>1. /\ Len(log) \in Nat /\ Len(mem) = Len(log) /\ Len(full) \in Nat
      /\ Gone \in Nat /\ Gone + Len(log) = Len(full)
  BY DEF TypeOK, StoreSound, Gone
<1>2. Alike(mem, 0, log, 0, Len(log))
  BY <1>1, LikeActs DEF StoreSound, Alike
<1>3. \A j \in 0 .. Len(log) : Reductions(mem)[j] = Reductions(log)[j]
  BY <1>1, <1>2, SameStart
<1>4. CASE Len(log) = 0
  <2>1. Len(full) = 0 /\ mem = <<>>
    BY <1>1, <1>4 DEF StoreSound, TypeOK
  <2> QED
    BY <1>1, <1>3, <1>4, <2>1, Reducing DEF Reduce, LastSeq
<1>5. CASE Len(log) > 0
  <2>1. Reductions(log)[1] = Reductions(full)[Gone + 1]
    <3>1. /\ Reductions(log)[1] = Apply(Blank, log[1])
          /\ Reductions(full)[1] = Apply(Blank, full[1])
      <4>1. 1 \in 1 .. Len(log) /\ 1 \in 1 .. Len(full) /\ 1 - 1 = 0
        BY <1>1, <1>5
      <4> QED
        BY <1>1, <4>1, Reducing
    <3>2. CASE log[1].kind = "checkpoint"
      BY <1>5, <3>1, <3>2 DEF StoreSound, Apply
    <3>3. CASE log[1].kind # "checkpoint"
      <4>1. Gone = 0 /\ Like(log[1], full[Gone + 1])
        BY <1>5, <3>3, <1>1 DEF StoreSound
      <4>2. ActAlike(log[1], full[1])
        BY <4>1, LikeActs
      <4> QED
        BY <3>1, <4>1, <4>2 DEF ActAlike
    <3> QED
      BY <3>2, <3>3
  <2>2. PICK a \in Nat : a = 1
    OBVIOUS
  <2>3. PICK b \in Nat : b = Gone + 1
    BY <1>1
  <2>4. PICK m \in Nat : m = Len(log) - 1
    BY <1>1, <1>5
  <2>5. a + m <= Len(log) /\ b + m <= Len(full)
    BY <1>1, <2>2, <2>3, <2>4
  <2>6. ASSUME NEW j \in 1 .. m PROVE ActAlike(log[a + j], full[b + j])
    <3>1. a + j \in 1 .. Len(log) /\ a + j # 1 /\ Gone + (a + j) = b + j
      BY <1>1, <2>2, <2>3, <2>4
    <3>2. Like(log[a + j], full[b + j])
      BY <3>1 DEF StoreSound
    <3> QED
      BY <3>2, LikeActs
  <2>7. Reductions(log)[a] = Reductions(full)[b]
    BY <2>1, <2>2, <2>3
  <2>8. \A j \in 0 .. m : Reductions(log)[a + j] = Reductions(full)[b + j]
    <3>1. Alike(log, a, full, b, m)
      BY <2>6 DEF Alike
    <3>2. Agree(log, a, full, b, m)
      BY <1>1, <2>5, <2>7, <3>1, SameTail
    <3> QED
      BY <3>2 DEF Agree
  <2>9. ASSUME NEW j \in 1 .. Len(log)
        PROVE  Reductions(log)[j] = Reductions(full)[Gone + j]
    <3>1. j - 1 \in 0 .. m /\ a + (j - 1) = j /\ b + (j - 1) = Gone + j
      BY <1>1, <2>2, <2>3, <2>4
    <3>2. Reductions(log)[a + (j - 1)] = Reductions(full)[b + (j - 1)]
      BY <2>8, <3>1
    <3> QED
      BY <3>1, <3>2
  <2>10. /\ Reductions(log)[Len(log)] = Reductions(full)[Len(full)]
         /\ Reductions(mem)[Len(mem)] = Reductions(full)[Len(full)]
    BY <1>1, <1>3, <1>5, <2>9
  <2>11. LastSeq(mem) = Len(full)
    <3>1. mem # <<>> /\ Len(log) \in 1 .. Len(log)
      BY <1>1, <1>5
    <3>2. mem[Len(mem)].seq = log[Len(log)].seq
      BY <1>1, <3>1 DEF StoreSound, Like
    <3>3. log[Len(log)].seq = Gone + Len(log)
      BY <3>1 DEF StoreSound
    <3> QED
      BY <1>1, <3>1, <3>2, <3>3 DEF LastSeq
  <2> QED
    BY <1>1, <1>3, <2>9, <2>10, <2>11 DEF Reduce
<1> QED
  BY <1>1, <1>4, <1>5

(* Whatever the records committed reduce to is a state.                     *)
LEMMA Typed ==
    ASSUME TypeOK, FullSound
    PROVE  /\ \A n \in 0 .. Len(full) : Reductions(full)[n] \in Control
           /\ Reduce(full) \in Control
<1>1. Len(full) \in Nat /\ \A i \in 1 .. Len(full) : Welltyped(full[i])
  BY DEF TypeOK, FullSound
<1>2. \A n \in 0 .. Len(full) : Reductions(full)[n] \in Control
  BY <1>1, ReductionsType
<1> QED
  BY <1>1, <1>2 DEF Reduce

(* What the supervisor may commit, and when.                                *)
Due(kind, arg, payload, next) ==
    /\ kind \in Kinds \ {"checkpoint"} /\ arg \in Args /\ payload \in BOOLEAN
    /\ next \in {"down", "ready", "retain", "trim"}
    /\ kind = "input" => arg \in Clients
    /\ kind = "task" => arg \in {"on", "off"}
    /\ kind = "setting" => arg = "new"
    /\ kind = "starting" => w.at = "open"
    /\ kind # "starting" => w.at \in {"ready", "mark"}

Commits == \E kind, arg, payload, next : /\ Commit(kind, arg, payload, next)
                                         /\ Due(kind, arg, payload, next)
(* Each handler commits one record that is due where the supervisor is.     *)
LEMMA Committing ==
    ASSUME TypeOK, FullSound, StoreSound, NowSound,
           \/ Opens \/ Initialized \/ Set \/ Say \/ Ask \/ Answer \/ Task
           \/ End \/ Ended \/ Mark \/ \E c \in Clients : Send(c)
    PROVE  Commits
<1> USE DEF Commits, Due, Kinds, Args
<1>1. CASE Opens
  <2>1. w.at = "open" /\ Commit("starting", "none", FALSE, "ready")
    BY <1>1 DEF Opens
  <2>2. Due("starting", "none", FALSE, "ready")
    BY <2>1
  <2> QED
    BY <2>1, <2>2
<1>2. CASE Initialized \/ Set \/ Say \/ Ask \/ Answer \/ End \/ Ended
  BY <1>2 DEF Initialized, Set, Say, Ask, Answer, End, Ended, In
<1>3. CASE Mark
  BY <1>3 DEF Mark
<1>4. ASSUME NEW c \in Clients, Send(c) PROVE Commits
  BY <1>4 DEF Send, In
<1>5. CASE Task
  <2>1. w.at = "ready" /\ Commit("task", Other[Now.tasks[run]], FALSE, "ready")
    BY <1>5 DEF Task, In
  <2>2. Now.tasks \in [Run -> {"on", "off"}]
    BY Aligned, Typed DEF Now, Control, Tasks
  <2>3. run \in Run
    BY <2>1 DEF NowSound, TypeOK, Run
  <2>4. Other[Now.tasks[run]] \in {"on", "off"}
    BY <2>2, <2>3 DEF Other
  <2> QED
    BY <2>1, <2>4
<1> QED
  BY <1>1, <1>2, <1>3, <1>4, <1>5
-----------------------------------------------------------------------------
(* What a commit adds, and what it leaves.                                  *)
Adds(e) ==
    /\ Welltyped(e) /\ e.kind # "checkpoint"
    /\ e.seq = Len(full) + 1 /\ e.run = run /\ run > 0
    /\ log' = Append(log, e) /\ mem' = Append(mem, e)
    /\ full' = Append(full, e)
    /\ raw' \in {raw, raw + 1}
    /\ w' \in [at : {"fold"}, next : {"down", "ready", "retain", "trim"}]
    /\ w.at \in {"open", "ready", "mark"}
    /\ e.kind = "starting" <=> w.at = "open"
    /\ UNCHANGED <<rec, bg, run, view>>

Longer(s, t, e) ==
    /\ Len(s) \in Nat /\ Len(t) = Len(s) + 1 /\ t[Len(s) + 1] = e
    /\ \A i \in 1 .. Len(s) : t[i] = s[i]
Grown(e) ==
    /\ Longer(full, full', e) /\ Longer(log, log', e) /\ Longer(mem, mem', e)
    /\ Gone' = Gone /\ Gone \in Nat /\ Gone + Len(log) = Len(full)
    /\ \A n \in 0 .. Len(full) : Reductions(full')[n] = Reductions(full)[n]
    /\ Reductions(full')[Len(full) + 1] = Apply(Reduce(full), e)
    /\ Reduce(full') = Apply(Reduce(full), e)

(* Such a record is the next one, of this run, and no checkpoint.           *)
LEMMA Adding ==
    ASSUME TypeOK, FullSound, StoreSound, NowSound, Commits
    PROVE  \E e : Adds(e)
<1>1. PICK kind, arg, payload, next : /\ Commit(kind, arg, payload, next)
                                      /\ Due(kind, arg, payload, next)
  BY DEF Commits
<1> DEFINE e == [seq |-> LastSeq(mem) + 1, kind |-> kind, arg |-> arg,
                 run |-> run, raw |-> payload, kept |-> Blank]
<1>2. LastSeq(mem) = Len(full) /\ Len(full) \in Nat
  BY Aligned DEF TypeOK
<1>3. /\ w.at \in {"open", "ready", "mark"}
      /\ kind = "starting" <=> w.at = "open"
  BY <1>1 DEF Due
<1>4. run > 0 /\ run \in Run
  BY <1>3 DEF NowSound, TypeOK, Run
<1>5. e \in Event
  BY <1>1, <1>2, <1>4, BlankType DEF Due, Event
<1>6. /\ Welltyped(e) /\ e.kind # "checkpoint"
      /\ e.seq = Len(full) + 1 /\ e.run = run
  BY <1>1, <1>2, <1>5 DEF Due, Welltyped
<1>7. /\ log' = Append(log, e) /\ mem' = Append(mem, e)
      /\ full' = Append(full, e)
      /\ UNCHANGED <<rec, bg, run, view>>
  BY <1>1 DEF Commit
<1>8. /\ raw' \in {raw, raw + 1}
      /\ w' \in [at : {"fold"}, next : {"down", "ready", "retain", "trim"}]
  BY <1>1 DEF Commit, Due, TypeOK
<1> HIDE DEF e
<1>9. e.kind = "starting" <=> w.at = "open"
  BY <1>3 DEF e
<1> QED
  BY <1>3, <1>4, <1>6, <1>7, <1>8, <1>9 DEF Adds

(* What was committed, and what it reduced to, is as it was.                *)
LEMMA Growing ==
    ASSUME TypeOK, FullSound, StoreSound, NEW e, Adds(e)
    PROVE  Grown(e)
<1>1. ASSUME NEW s \in Seq(Event) PROVE Longer(s, Append(s, e), e)
  BY <1>1 DEF Longer
<1>2. /\ Longer(full, full', e) /\ Longer(log, log', e)
      /\ Longer(mem, mem', e)
  BY <1>1 DEF Adds, TypeOK
<1>3. Gone' = Gone /\ Gone \in Nat /\ Gone + Len(log) = Len(full)
  BY <1>2 DEF Gone, Longer, StoreSound
<1>4. /\ \A n \in 0 .. Len(full) : Reductions(full')[n] = Reductions(full)[n]
      /\ Reduce(full') = Apply(Reduce(full), e)
  BY AppendReduces DEF TypeOK, Adds
<1>5. Reductions(full')[Len(full) + 1] = Apply(Reduce(full), e)
  BY <1>2, <1>4 DEF Longer, Reduce
<1> QED
  BY <1>2, <1>3, <1>4, <1>5 DEF Grown

(* A commit keeps the parts about the store.                                *)
LEMMA AddsStore ==
    ASSUME TypeOK, FullSound, StoreSound, LatestSound, CutSound,
           NEW e, Adds(e), Grown(e)
    PROVE  FullSound' /\ StoreSound' /\ LatestSound' /\ CutSound'
<1> DEFINE n == Len(full)
           m == Len(log)
<1>1. /\ n \in Nat /\ m \in Nat /\ Gone \in Nat /\ Gone + m = n /\ Gone' = Gone
      /\ Len(full') = n + 1 /\ Len(log') = m + 1 /\ Len(mem') = m + 1
      /\ full'[n + 1] = e /\ log'[m + 1] = e /\ mem'[m + 1] = e
      /\ \A i \in 1 .. n : full'[i] = full[i]
      /\ \A i \in 1 .. m : log'[i] = log[i] /\ mem'[i] = mem[i]
  BY DEF Grown, Longer, StoreSound
<1>2. e.kind # "checkpoint" /\ e.seq = n + 1 /\ Welltyped(e)
  BY DEF Adds
<1>3. \A i \in 0 .. n : Reductions(full')[i] = Reductions(full)[i]
  BY DEF Grown
<1>4. FullSound'
  <2>1. ASSUME NEW i \in 1 .. n + 1
        PROVE  /\ full'[i].seq = i /\ Welltyped(full'[i])
               /\ full'[i].kind # "checkpoint"
    <3>1. CASE i \in 1 .. n
      BY <3>1, <1>1 DEF FullSound
    <3>2. CASE i = n + 1
      BY <3>2, <1>1, <1>2
    <3> QED
      BY <3>1, <3>2, <1>1
  <2> QED
    BY <1>1, <2>1 DEF FullSound
<1>5. StoreSound'
  <2>1. ASSUME NEW j \in 1 .. m + 1
        PROVE  /\ Like(mem'[j], log'[j]) /\ log'[j].seq = Gone + j
               /\ log'[j].kind # "checkpoint" => Like(log'[j], full'[Gone + j])
               /\ log'[j].kind = "checkpoint" =>
                      j = 1 /\ log'[j].kept = Reductions(full')[Gone + 1]
    <3>1. CASE j \in 1 .. m
      <4>1. Gone + j \in 1 .. n /\ Gone + 1 \in 0 .. n
        BY <1>1, <3>1
      <4>2. /\ Like(mem[j], log[j]) /\ log[j].seq = Gone + j
            /\ log[j].kind # "checkpoint" => Like(log[j], full[Gone + j])
            /\ log[j].kind = "checkpoint" =>
                   j = 1 /\ log[j].kept = Reductions(full)[Gone + 1]
        BY <3>1 DEF StoreSound
      <4>3. /\ mem'[j] = mem[j] /\ log'[j] = log[j]
            /\ full'[Gone + j] = full[Gone + j]
            /\ Reductions(full')[Gone + 1] = Reductions(full)[Gone + 1]
        BY <3>1, <4>1, <1>1, <1>3
      <4> QED
        BY <4>2, <4>3
    <3>2. CASE j = m + 1
      <4>1. Gone + j = n + 1
        BY <1>1, <3>2
      <4> QED
        BY <3>2, <4>1, <1>1, <1>2 DEF Like
    <3> QED
      BY <3>1, <3>2, <1>1
  <2>2. m + 1 > 0 /\ log'[1].kind # "checkpoint" => Gone = 0
    <3>1. CASE m = 0
      BY <3>1, <1>1 DEF StoreSound
    <3>2. CASE m > 0
      BY <3>2, <1>1 DEF StoreSound
    <3> QED
      BY <3>1, <3>2, <1>1
  <2> QED
    BY <1>1, <2>1, <2>2 DEF StoreSound
<1>6. LatestSound'
  <2> SUFFICES ASSUME NEW i \in Inputs(full'), \A j \in Inputs(full') : j <= i
               PROVE  /\ i > Gone /\ log'[i - Gone].kind = "input"
                      /\ \A k \in i .. n + 1 : /\ log'[k - Gone] = full'[k]
                                               /\ mem'[k - Gone] = full'[k]
    BY <1>1 DEF LatestSound
  <2>0. /\ Inputs(full') = {j \in 1 .. n + 1 : full'[j].kind = "input"}
        /\ Inputs(full) = {j \in 1 .. n : full[j].kind = "input"}
    BY <1>1 DEF Inputs, Adds, TypeOK
  <2>1. CASE e.kind = "input"
    <3>1. i = n + 1
      BY <2>0, <2>1, <1>1
    <3> QED
      BY <2>1, <3>1, <1>1
  <2>2. CASE e.kind # "input"
    <3>1. i \in Inputs(full) /\ i \in 1 .. n /\ \A j \in Inputs(full) : j <= i
      BY <2>0, <2>2, <1>1
    <3>2. /\ i > Gone /\ log[i - Gone].kind = "input"
          /\ \A k \in i .. n : /\ log[k - Gone] = full[k]
                               /\ mem[k - Gone] = full[k]
      BY <3>1 DEF LatestSound
    <3>3. ASSUME NEW k \in i .. n + 1
          PROVE  log'[k - Gone] = full'[k] /\ mem'[k - Gone] = full'[k]
      <4>0. n \in Nat /\ i \in Nat
        BY <1>1, <3>1
      <4>1. CASE k = n + 1
        BY <4>1, <1>1
      <4>2. CASE k \in i .. n
        <5>1. k - Gone \in 1 .. m /\ k \in 1 .. n
          BY <4>2, <3>1, <3>2, <1>1
        <5> QED
          BY <5>1, <4>2, <3>2, <1>1
      <4> QED
        BY <4>0, <4>1, <4>2
    <3>4. i - Gone \in 1 .. m
      BY <3>1, <3>2, <1>1
    <3> QED
      BY <3>2, <3>3, <3>4, <1>1
  <2> QED
    BY <2>1, <2>2
<1>7. CutSound'
  <2>1. CASE m = 0
    BY <2>1, <1>1, <1>2 DEF CutSound
  <2>2. CASE m > 0
    BY <2>2, <1>1 DEF CutSound, Active
  <2> QED
    BY <2>1, <2>2, <1>1
<1> QED
  BY <1>4, <1>5, <1>6, <1>7

(* What was told of some tasks is still told after a commit.                *)
LEMMA TellsMore ==
    ASSUME NEW tasks, NEW r, NEW from \in Nat, NEW e, Grown(e),
           Told(tasks, r, from)
    PROVE  \E n \in from .. Len(full') :
               tasks[r] = Reductions(full')[n].tasks[r]
<1>1. PICK n \in from .. Len(full) : tasks[r] = Reductions(full)[n].tasks[r]
  BY DEF Told
<1>2. /\ n \in 0 .. Len(full) /\ n \in from .. Len(full')
      /\ Reductions(full')[n] = Reductions(full)[n]
  BY <1>1 DEF Grown, Longer
<1> QED
  BY <1>1, <1>2

(* A task once recorded stays recorded.                                     *)
LEMMA LogsMore ==
    ASSUME NEW tasks, NEW e, Grown(e), Logged(tasks)
    PROVE  \A r \in Run : tasks[r] = "on" =>
               \E i \in 1 .. Len(full') :
                   full'[i].kind = "task" /\ full'[i].run = r
<1> SUFFICES ASSUME NEW r \in Run, tasks[r] = "on"
             PROVE  \E i \in 1 .. Len(full') :
                        full'[i].kind = "task" /\ full'[i].run = r
  OBVIOUS
<1>1. PICK i \in 1 .. Len(full) : full[i].kind = "task" /\ full[i].run = r
  BY DEF Logged
<1>2. i \in 1 .. Len(full') /\ full'[i] = full[i]
  BY DEF Grown, Longer
<1> QED
  BY <1>1, <1>2

(* And the parts about the runs, the recorded state and its readers.        *)
LEMMA AddsRuns ==
    ASSUME TypeOK, FullSound, RunsSound, NowSound, RecSound,
           NEW e, Adds(e), Grown(e)
    PROVE  RunsSound' /\ NowSound'
<1> DEFINE n == Len(full)
           c == Reduce(full)
           d == Apply(c, e)
<1>1. /\ n \in Nat /\ Len(full') = n + 1 /\ full'[n + 1] = e
      /\ Len(log) \in Nat /\ Len(log') = Len(log) + 1 /\ log'[Len(log) + 1] = e
      /\ \A i \in 1 .. n : full'[i] = full[i]
      /\ \A i \in 0 .. n : Reductions(full')[i] = Reductions(full)[i]
      /\ Reductions(full)[n] = c /\ Reduce(full') = d
  BY DEF Grown, Longer, Reduce
<1>2. /\ e.run = run /\ run' = run /\ run > 0 /\ w'.at = "fold"
      /\ e.kind # "checkpoint" /\ Welltyped(e)
      /\ e.kind = "starting" <=> w.at = "open"
      /\ w.at \in {"open", "ready", "mark"}
  BY DEF Adds
<1>3. /\ c \in Control /\ c.run <= run /\ Fresh(c) /\ run \in 0 .. MaxRuns
      /\ w.at # "open" => c.run = run
  BY <1>2, Typed DEF NowSound, TypeOK
<1>4. d.run = run
  <2>1. CASE e.kind = "starting"
    BY <1>2, <2>1 DEF Apply, StateAfter
  <2>2. CASE e.kind # "starting"
    BY <1>2, <1>3, <2>2 DEF Apply
  <2> QED
    BY <2>1, <2>2
<1>5. Fresh(d)
  <2> SUFFICES ASSUME NEW r \in Run, r > run PROVE d.tasks[r] = "off"
    BY <1>4 DEF Fresh
  <2>1. c.tasks[r] = "off" /\ r # e.run
    BY <1>2, <1>3, BoundAssumption DEF Fresh, Control, Run
  <2>2. c.tasks \in Tasks
    BY <1>3 DEF Control
  <2> QED
    BY <1>2, <2>1, <2>2 DEF Apply, Tasks
<1>6. RunsSound'
  <2>1. ASSUME NEW i \in 1 .. n + 1
        PROVE  LET b == Reductions(full')[i - 1] IN
               /\ b.run <= full'[i].run /\ full'[i].run <= run /\ Fresh(b)
               /\ full'[i].kind = "task" => full'[i].run = b.run
    <3>1. CASE i \in 1 .. n
      <4>1. i - 1 \in 0 .. n
        BY <3>1, <1>1
      <4> QED
        BY <3>1, <4>1, <1>1 DEF RunsSound
    <3>2. CASE i = n + 1
      <4>1. i - 1 = n /\ n \in 0 .. n
        BY <3>2, <1>1
      <4>2. Reductions(full')[i - 1] = c /\ full'[i] = e
        BY <4>1, <3>2, <1>1
      <4>3. e.kind = "task" => c.run = run
        BY <1>2, <1>3
      <4> QED
        BY <4>2, <4>3, <1>2, <1>3
    <3> QED
      BY <3>1, <3>2, <1>1
  <2> QED
    BY <1>1, <1>2, <2>1 DEF RunsSound, Fresh
<1>7. NowSound'
  <2>1. Reduce(full').run <= run' /\ Fresh(Reduce(full'))
    BY <1>1, <1>2, <1>3, <1>4, <1>5
  <2> HIDE DEF n, c, d
  <2> QED
    BY <1>1, <1>2, <1>4, <2>1 DEF NowSound, Fresh, n, d
<1> QED
  BY <1>6, <1>7

(* A commit keeps what was recorded and what was read of the others.        *)
LEMMA AddsReaders ==
    ASSUME TypeOK, FullSound, NowSound, RecSound, BgSound, ViewSound,
           NEW e, Adds(e), Grown(e)
    PROVE  RecSound' /\ BgSound' /\ ViewSound'
<1> DEFINE n == Len(full)
<1>1. /\ n \in Nat /\ Len(full') = n + 1 /\ full'[n + 1] = e
      /\ \A i \in 1 .. n : full'[i] = full[i]
      /\ \A i \in 0 .. n : Reductions(full')[i] = Reductions(full)[i]
      /\ Reductions(full)[n] = Reduce(full)
  BY DEF Grown, Longer, Reduce
<1>2. /\ run' = run /\ rec' = rec /\ bg' = bg /\ view' = view
      /\ w'.at = "fold" /\ w.at \in {"open", "ready", "mark"}
      /\ e.kind = "starting" <=> w.at = "open"
      /\ e.run = run /\ run > 0
  BY DEF Adds
<1>3. rec # None /\ rec.seq \in Nat /\ view.seq \in Nat
  BY <1>2 DEF RecSound, TypeOK
<1>4. RecSound'
  <2>1. rec.seq <= n + 1
    BY <1>1, <1>3 DEF RecSound
  <2>2. rec.seq > 0 => rec.control = Reductions(full')[rec.seq]
    BY <1>1, <1>3 DEF RecSound
  <2>3. ASSUME rec.seq = 0, NEW i \in 1 .. n + 1, full'[i].run = run
        PROVE  full'[i].kind = "starting"
    <3>1. w.at = "open"
      BY <1>2, <1>3, <2>3 DEF RecSound
    <3>2. CASE i = n + 1
      BY <1>1, <1>2, <3>1, <3>2
    <3>3. CASE i \in 1 .. n
      BY <1>1, <1>3, <2>3, <3>3 DEF RecSound
    <3> QED
      BY <1>1, <3>2, <3>3
  <2>4. (rec = None <=> run = 0) /\ rec.control.run = run
    BY <1>3 DEF RecSound
  <2> QED
    BY <1>1, <1>2, <2>1, <2>2, <2>3, <2>4 DEF RecSound
<1>5. BgSound'
  <2>1. Logged(bg)'
    BY <1>2, LogsMore DEF BgSound, Logged
  <2>2. run > 0 => Told(bg, run, rec.seq)'
    <3>1. run > 0 => Told(bg, run, rec.seq)
      BY DEF BgSound
    <3>2. Told(bg, run, rec.seq) =>
              \E i \in rec.seq .. Len(full') :
                  bg[run] = Reductions(full')[i].tasks[run]
      BY <1>3, TellsMore
    <3> QED
      BY <1>2, <3>1, <3>2 DEF Told
  <2>3. bg[run] = Reductions(full')[Len(full') - 1].tasks[run]
    BY <1>1, <1>2 DEF BgSound
  <2> QED
    BY <1>2, <2>1, <2>2, <2>3 DEF BgSound
<1>6. ViewSound'
  <2>1. Logged(view.tasks)'
    BY <1>2, LogsMore DEF ViewSound, Logged
  <2>2. view.at = "deriving" => Told(bg, view.run, view.seq)'
    <3>1. view.at = "deriving" => Told(bg, view.run, view.seq)
      BY DEF ViewSound
    <3>2. Told(bg, view.run, view.seq) =>
              \E i \in view.seq .. Len(full') :
                  bg[view.run] = Reductions(full')[i].tasks[view.run]
      BY <1>3, TellsMore
    <3> QED
      BY <1>2, <3>1, <3>2 DEF Told
  <2>3. view.at = "read" => Told(view.tasks, view.run, view.seq)'
    <3>1. view.at = "read" => Told(view.tasks, view.run, view.seq)
      BY DEF ViewSound
    <3>2. Told(view.tasks, view.run, view.seq) =>
              \E i \in view.seq .. Len(full') :
                  view.tasks[view.run] = Reductions(full')[i].tasks[view.run]
      BY <1>3, TellsMore
    <3> QED
      BY <1>2, <3>1, <3>2 DEF Told
  <2>4. view.at # "new" =>
            /\ view.run \in 1 .. run /\ view.seq <= n + 1
            /\ view.seq > 0 => view.run = Reductions(full')[view.seq].run
    BY <1>1, <1>3 DEF ViewSound
  <2> QED
    BY <1>1, <1>2, <2>1, <2>2, <2>3, <2>4 DEF ViewSound
<1> QED
  BY <1>4, <1>5, <1>6
-----------------------------------------------------------------------------
(* A step of retention changes the store alone.                             *)
Stays ==
    /\ UNCHANGED <<rec, bg, run, view, full>>
    /\ w.at \in {"ready", "retain", "trim"}
    /\ w'.at \in {"ready", "retain", "mark", "trim", "state"}

(* So it keeps what is not about the store.                                 *)
LEMMA StaysSound ==
    ASSUME Sound, Stays
    PROVE  /\ FullSound' /\ RunsSound' /\ NowSound' /\ RecSound' /\ BgSound'
           /\ ViewSound'
<1> USE DEF Stays, Sound
<1>1. FullSound' /\ RunsSound'
  BY DEF FullSound, RunsSound, Fresh
<1>2. NowSound'
  BY DEF NowSound, Fresh
<1>3. RecSound'
  BY DEF RecSound
<1>4. BgSound'
  BY DEF BgSound, Logged, Told
<1>5. ViewSound'
  BY DEF ViewSound, Logged, Told
<1> QED
  BY <1>1, <1>2, <1>3, <1>4, <1>5

(* The parts about the store say nothing of the rest.                       *)
LEMMA StoreStays ==
    ASSUME StoreSound, LatestSound, CutSound, UNCHANGED <<log, mem, full>>
    PROVE  StoreSound' /\ LatestSound' /\ CutSound'
  BY DEF StoreSound, LatestSound, CutSound, Gone, Inputs, Active

(* Where the latest message is, in the store.                               *)
LEMMA LatestInput ==
    ASSUME TypeOK, FullSound, StoreSound, LatestSound,
           NEW i \in Inputs(full), \A j \in Inputs(full) : j <= i
    PROVE  /\ i \in 1 .. Len(full) /\ i > Gone /\ i - Gone \in 1 .. Len(mem)
           /\ Inputs(mem) # {} /\ Max(Inputs(mem)) = i - Gone
<1>1. /\ Gone \in Nat /\ Len(log) \in Nat /\ Len(mem) = Len(log)
      /\ Gone + Len(log) = Len(full) /\ Len(full) \in Nat
  BY DEF TypeOK, StoreSound, Gone
<1>2. /\ Inputs(full) = {j \in 1 .. Len(full) : full[j].kind = "input"}
      /\ Inputs(mem) = {j \in 1 .. Len(mem) : mem[j].kind = "input"}
  BY DEF Inputs, TypeOK
<1>3. /\ i \in 1 .. Len(full) /\ i > Gone /\ log[i - Gone].kind = "input"
      /\ i - Gone \in 1 .. Len(mem)
  BY <1>1, <1>2 DEF LatestSound
<1>4. i - Gone \in Inputs(mem)
  BY <1>1, <1>2, <1>3 DEF StoreSound, Like
<1>5. ASSUME NEW j \in Inputs(mem) PROVE j <= i - Gone
  <2>1. j \in 1 .. Len(log) /\ log[j].kind = "input"
    BY <1>1, <1>2, <1>5 DEF StoreSound, Like
  <2>2. Gone + j \in 1 .. Len(full) /\ full[Gone + j].kind = "input"
    BY <1>1, <2>1 DEF StoreSound, Like
  <2>3. Gone + j <= i
    BY <1>2, <2>2
  <2> QED
    BY <1>1, <1>3, <2>1, <2>3
<1>6. Max(Inputs(mem)) \in Inputs(mem) /\ i - Gone <= Max(Inputs(mem))
  <2>1. Inputs(mem) \subseteq 1 .. Len(mem) /\ Len(mem) \in Nat
    BY <1>1, <1>2
  <2> QED
    BY <1>4, <2>1, MaxIs
<1> QED
  BY <1>1, <1>2, <1>3, <1>4, <1>5, <1>6

(* Shedding keeps all but payloads, and those since the latest message.     *)
LEMMA Shedding ==
    ASSUME TypeOK
    PROVE  /\ Len(Shed(mem)) = Len(mem) /\ Shed(mem) \in Seq(Event)
           /\ \A j \in 1 .. Len(mem) :
                  /\ Like(Shed(mem)[j], mem[j])
                  /\ \A m \in Inputs(mem) :
                         j >= Max(Inputs(mem)) => Shed(mem)[j] = mem[j]
<1>1. /\ Len(mem) \in Nat /\ DOMAIN mem = 1 .. Len(mem)
      /\ \A j \in 1 .. Len(mem) : mem[j] \in Event
  BY DEF TypeOK
<1>2. \A j \in 1 .. Len(mem) : [mem[j] EXCEPT !.raw = FALSE] \in Event
  BY <1>1 DEF Event
<1>3. Shed(mem) \in [1 .. Len(mem) -> Event]
  BY <1>1, <1>2 DEF Shed
<1>4. Shed(mem) \in Seq(Event) /\ Len(Shed(mem)) = Len(mem)
  BY <1>1, <1>3
<1>5. ASSUME NEW j \in 1 .. Len(mem) PROVE Like(Shed(mem)[j], mem[j])
  BY <1>1 DEF Shed, Like, Event
<1>6. ASSUME NEW j \in 1 .. Len(mem), NEW m \in Inputs(mem),
             j >= Max(Inputs(mem))
      PROVE  Shed(mem)[j] = mem[j]
  <2>1. Max(Inputs(mem)) \in Nat
    <3>1. Inputs(mem) \subseteq 1 .. Len(mem) /\ Inputs(mem) # {}
      BY <1>1 DEF Inputs
    <3> QED
      BY <1>1, <3>1, MaxIs
  <2>2. j \notin Sheddable(mem)
    BY <1>6, <2>1 DEF Sheddable
  <2> QED
    BY <1>1, <2>2 DEF Shed, Chosen
<1> QED
  BY <1>4, <1>5, <1>6

(* Shedding keeps the parts about the store.                                *)
LEMMA ShedsStore ==
    ASSUME TypeOK, FullSound, StoreSound, LatestSound, CutSound,
           mem' = Shed(mem), log' \in {log, mem'}, full' = full
    PROVE  StoreSound' /\ LatestSound' /\ CutSound'
<1>1. /\ Gone \in Nat /\ Len(log) \in Nat /\ Len(mem) = Len(log)
      /\ Gone + Len(log) = Len(full) /\ Len(full) \in Nat
  BY DEF TypeOK, StoreSound, Gone
<1>2. Len(mem') = Len(log) /\ Len(log') = Len(log) /\ Gone' = Gone
  BY <1>1, Shedding DEF Gone
<1>3. ASSUME NEW j \in 1 .. Len(log)
      PROVE  Like(mem'[j], log'[j]) /\ Like(log'[j], log[j])
  <2>1. Like(mem'[j], mem[j]) /\ Like(mem[j], log[j])
    BY <1>1, Shedding DEF StoreSound
  <2> QED
    BY <2>1 DEF Like
<1>4. StoreSound'
  <2>1. ASSUME NEW j \in 1 .. Len(log)
        PROVE  /\ Like(mem'[j], log'[j]) /\ log'[j].seq = Gone + j
               /\ log'[j].kind # "checkpoint" => Like(log'[j], full[Gone + j])
               /\ log'[j].kind = "checkpoint" =>
                      j = 1 /\ log'[j].kept = Reductions(full)[Gone + 1]
    <3>1. Like(log'[j], log[j]) /\ Like(mem'[j], log'[j])
      BY <1>3
    <3> QED
      BY <3>1 DEF StoreSound, Like
  <2>2. Len(log) > 0 /\ log'[1].kind # "checkpoint" => Gone = 0
    BY <1>1, <1>3 DEF StoreSound, Like
  <2> QED
    BY <1>1, <1>2, <2>1, <2>2 DEF StoreSound
<1>5. LatestSound'
  <2> SUFFICES ASSUME NEW i \in Inputs(full), \A j \in Inputs(full) : j <= i
               PROVE  /\ i > Gone /\ log'[i - Gone].kind = "input"
                      /\ \A k \in i .. Len(full) : /\ log'[k - Gone] = full[k]
                                                   /\ mem'[k - Gone] = full[k]
    BY <1>2 DEF LatestSound
  <2>1. /\ i \in 1 .. Len(full) /\ i > Gone /\ i - Gone \in 1 .. Len(mem)
        /\ Inputs(mem) # {} /\ Max(Inputs(mem)) = i - Gone
    BY LatestInput
  <2>2. log'[i - Gone].kind = "input"
    BY <1>1, <1>3, <2>1 DEF LatestSound, Like
  <2>3. ASSUME NEW k \in i .. Len(full)
        PROVE  log'[k - Gone] = full[k] /\ mem'[k - Gone] = full[k]
    <3>1. k - Gone \in 1 .. Len(mem) /\ k - Gone >= i - Gone
      BY <1>1, <2>1
    <3>2. mem'[k - Gone] = mem[k - Gone]
      BY <2>1, <3>1, Shedding
    <3>3. log[k - Gone] = full[k] /\ mem[k - Gone] = full[k]
      BY DEF LatestSound
    <3> QED
      BY <3>2, <3>3
  <2> QED
    BY <2>1, <2>2, <2>3
<1>6. CutSound'
  <2>1. CASE Len(log) = 0
    BY <1>2, <2>1 DEF CutSound
  <2>2. CASE Len(log) > 0
    <3>1. Like(log'[1], log[1])
      BY <1>1, <1>3, <2>2
    <3>2. log'[1].kind = log[1].kind /\ log'[1].kept = log[1].kept
      BY <3>1 DEF Like
    <3> QED
      BY <1>2, <2>2, <3>2 DEF CutSound, Active
  <2> QED
    BY <2>1, <2>2, <1>1
<1> QED
  BY <1>4, <1>5, <1>6
-----------------------------------------------------------------------------
(* The account that the cut keeps is one of the state itself.               *)
Accounts == [run : 0 .. MaxRuns, pending : BOOLEAN, active : BOOLEAN]
Sim(c, t) ==
    /\ c \in Control /\ t \in Accounts /\ t.run = c.run
    /\ c.pending => t.pending
    /\ Active(c) => t.active

(* A record keeps the account in line with the state.                       *)
LEMMA TrackStep ==
    ASSUME NEW c, NEW t, Sim(c, t), NEW e, Welltyped(e), e.kind # "checkpoint",
           Fresh(c), c.run <= e.run, e.kind = "task" => e.run = c.run
    PROVE  Sim(Apply(c, e), Track(t, e))
<1> DEFINE turns == e.kind \in DOMAIN StateAfter
           d == Apply(c, e)
           u == Track(t, e)
<1>1. d \in Control /\ c \in Control /\ t \in Accounts /\ t.run = c.run
  BY ApplyType DEF Sim
<1>2. e.run \in Run /\ e.run \in 0 .. MaxRuns /\ c.run \in 0 .. MaxRuns
  BY <1>1, BoundAssumption DEF Welltyped, Event, Run, Control
<1>3. CASE turns /\ c.run # e.run
  <2>1. /\ d.run = e.run /\ (d.pending => e.kind = "ask") /\ d.tasks = c.tasks
    BY <1>3 DEF Apply, StateAfter
  <2>2. ~Active(d)
    BY <2>1, <1>2, <1>3 DEF Active, Fresh
  <2>3. /\ u.run = e.run /\ u \in Accounts
        /\ e.kind = "ask" => u.pending
    BY <1>1, <1>2, <1>3 DEF Track, Accounts, StateAfter
  <2> QED
    BY <1>1, <2>1, <2>2, <2>3 DEF Sim
<1>4. CASE ~(turns /\ c.run # e.run) /\ e.kind = "task"
  <2>1. d.run = c.run /\ (d.pending => c.pending)
    BY <1>4 DEF Apply, StateAfter
  <2>2. d.tasks = [c.tasks EXCEPT ![e.run] = e.arg]
    BY <1>4 DEF Apply
  <2>3. d.tasks[c.run] = e.arg
    BY <1>1, <1>2, <1>4, <2>2 DEF Control, Tasks
  <2>4. u = [t EXCEPT !.active = e.arg = "on"]
    BY <1>1, <1>4 DEF Track, StateAfter
  <2>5. u.run = t.run /\ u.pending = t.pending /\ u \in Accounts
    BY <1>1, <2>4 DEF Accounts
  <2>6. e.arg = "on" => u.active
    BY <1>1, <2>4 DEF Accounts
  <2> QED
    BY <1>1, <2>1, <2>3, <2>5, <2>6 DEF Sim, Active
<1>5. CASE ~(turns /\ c.run # e.run) /\ e.kind # "task"
  <2>1. d.run = c.run /\ d.tasks = c.tasks
    BY <1>5 DEF Apply
  <2>2. d.pending => \/ e.kind = "ask"
                     \/ c.pending /\ e.kind \notin {"answer", "ended"}
    BY <1>5 DEF Apply
  <2>3. u.run = t.run /\ u.active = t.active /\ u \in Accounts
    BY <1>1, <1>5 DEF Track, Accounts
  <2>4. /\ e.kind = "ask" => u.pending
        /\ t.pending /\ e.kind \notin {"answer", "ended"} => u.pending
    BY <1>1, <1>5 DEF Track, Accounts
  <2> QED
    BY <1>1, <2>1, <2>2, <2>3, <2>4 DEF Sim, Active
<1> QED
  BY <1>3, <1>4, <1>5

(* The account of the first n records.                                      *)
LEMMA PrefixTracks ==
    ASSUME NEW E, NEW s \in Seq(E), NEW n \in 0 .. Len(s)
    PROVE  Tracked(Prefix(s, n)) = Tracks(s)[n]
<1> DEFINE t == SubSeq(s, 1, n)
           S == {j \in Nat : Tracks(t)[j] = Tracks(s)[j]}
<1>1. /\ Len(t) = n /\ n \in Nat /\ Len(t) \in Nat /\ Len(s) \in Nat
      /\ \A j \in 1 .. n : t[j] = s[j]
  OBVIOUS
<1> HIDE DEF t
<1>2. 0 \in S
  BY <1>1, Accounting
<1>3. ASSUME NEW j \in 0 .. n - 1, j \in S PROVE j + 1 \in S
  <2>1. /\ j + 1 \in 1 .. Len(t) /\ j + 1 \in 1 .. Len(s) /\ (j + 1) - 1 = j
        /\ t[j + 1] = s[j + 1]
    BY <1>1
  <2>2. Tracks(t)[j + 1] = Track(Tracks(t)[j], t[j + 1])
    <3>1. Tracks(t)[j + 1] = Track(Tracks(t)[(j + 1) - 1], t[j + 1])
      BY <2>1, <1>1, Accounting
    <3> QED
      BY <2>1, <3>1
  <2>3. Tracks(s)[j + 1] = Track(Tracks(s)[j], s[j + 1])
    <3>1. Tracks(s)[j + 1] = Track(Tracks(s)[(j + 1) - 1], s[j + 1])
      BY <2>1, <1>1, Accounting
    <3> QED
      BY <2>1, <3>1
  <2> QED
    BY <1>3, <2>1, <2>2, <2>3
<1> HIDE DEF S
<1>4. \A j \in 0 .. n : j \in S
  BY <1>2, <1>3, Upto
<1>5. Tracks(t)[n] = Tracks(s)[n]
  BY <1>4 DEF S
<1> QED
  BY <1>1, <1>5 DEF Tracked, Prefix, t

(* It is in line with the state at every record stored.                     *)
LEMMA Accounted ==
    ASSUME TypeOK, FullSound, StoreSound, CutSound, RunsSound
    PROVE  \A j \in 1 .. Len(mem) : Sim(Reductions(mem)[j], Tracks(mem)[j])
<1> DEFINE S == {j \in Nat : j > 0 => Sim(Reductions(mem)[j], Tracks(mem)[j])}
<1>1. /\ Gone \in Nat /\ Len(log) \in Nat /\ Len(mem) = Len(log)
      /\ Gone + Len(log) = Len(full) /\ Len(full) \in Nat
  BY DEF TypeOK, StoreSound, Gone
<1>2. ASSUME NEW j \in 0 .. Len(mem) - 1, j \in S PROVE j + 1 \in S
  <2> DEFINE i == Gone + (j + 1)
             c == Reductions(mem)[j]
             t == Tracks(mem)[j]
             e == mem[j + 1]
  <2>1. /\ j + 1 \in 1 .. Len(mem) /\ (j + 1) - 1 = j /\ i \in 1 .. Len(full)
        /\ i - 1 = Gone + j /\ i \in 0 .. Len(full)
    BY <1>1
  <2>2. /\ Reductions(mem)[j + 1] = Apply(c, e)
        /\ Tracks(mem)[j + 1] = Track(t, e)
    BY <1>1, <2>1, Reducing, Accounting
  <2>3. Reductions(mem)[j + 1] \in Control
    BY <1>1, <2>1, Aligned, Typed
  <2>4. j = 0 => c = Blank /\ t = NoTurn
    BY <1>1, Reducing, Accounting
  <2>5. CASE e.kind = "checkpoint"
    <3>1. /\ j = 0 /\ log[1].kind = "checkpoint" /\ e.kept = log[1].kept
      <4>1. /\ j + 1 \in 1 .. Len(log) /\ log[j + 1].kind = "checkpoint"
            /\ e.kept = log[j + 1].kept
        BY <1>1, <2>1, <2>5 DEF StoreSound, Like
      <4>2. j + 1 = 1
        BY <4>1 DEF StoreSound
      <4> QED
        BY <4>1, <4>2
    <3>2. Apply(c, e) = e.kept
      BY <2>5 DEF Apply
    <3>3. ~e.kept.pending /\ ~Active(e.kept)
      BY <1>1, <2>1, <3>1 DEF CutSound
    <3>4. t = NoTurn
      BY <2>4, <3>1
    <3>5. Track(t, e) = [t EXCEPT !.run = e.kept.run,
                                  !.pending = @ \/ e.kept.pending]
      BY <2>5 DEF Track
    <3>6. e.kept \in Control
      BY <2>2, <2>3, <3>2
    <3>7. Track(t, e) \in Accounts /\ Track(t, e).run = e.kept.run
      <4>1. e.kept.run \in 0 .. MaxRuns /\ e.kept.pending \in BOOLEAN
        BY <3>6 DEF Control
      <4>2. PICK p \in BOOLEAN : p = (t.pending \/ e.kept.pending)
        OBVIOUS
      <4>3. Track(t, e) = [t EXCEPT !.run = e.kept.run, !.pending = p]
        BY <3>5, <4>2
      <4>4. t \in Accounts
        BY <3>4, BoundAssumption DEF NoTurn, Accounts
      <4> QED
        BY <4>1, <4>3, <4>4 DEF Accounts
    <3>8. Sim(Apply(c, e), Track(t, e))
      BY <3>2, <3>3, <3>6, <3>7 DEF Sim
    <3> QED
      BY <2>2, <3>8
  <2>6. CASE e.kind # "checkpoint"
    <3>1. Like(e, full[i])
      <4>1. /\ j + 1 \in 1 .. Len(log) /\ Gone + (j + 1) = i
            /\ Like(e, log[j + 1])
        BY <1>1, <2>1 DEF StoreSound
      <4>2. log[j + 1].kind # "checkpoint"
        BY <2>6, <4>1 DEF Like
      <4>3. Like(log[j + 1], full[i])
        BY <4>1, <4>2 DEF StoreSound
      <4> QED
        BY <4>1, <4>3 DEF Like
    <3>2. Welltyped(full[i])
      BY <2>1 DEF FullSound
    <3>3. e \in Event
      BY <1>1, <2>1 DEF TypeOK
    <3>4. Welltyped(e)
      BY <3>1, <3>2, <3>3 DEF Like, Welltyped
    <3>5. c = Reductions(full)[i - 1]
      <4>1. CASE j = 0
        <5>1. Gone = 0
          BY <1>1, <2>1, <2>6, <4>1 DEF StoreSound, Like
        <5> QED
          BY <1>1, <2>1, <2>4, <4>1, <5>1, Reducing
      <4>2. CASE j # 0
        <5>1. j \in 1 .. Len(log)
          BY <1>1, <4>2
        <5> QED
          BY <2>1, <5>1, Aligned
      <4> QED
        BY <4>1, <4>2
    <3>6. /\ c.run <= e.run /\ Fresh(c) /\ (e.kind = "task" => e.run = c.run)
      BY <2>1, <3>1, <3>5 DEF RunsSound, Like
    <3>7. Sim(c, t)
      <4>1. CASE j = 0
        <5>1. ~Active(Blank) /\ ~Blank.pending /\ Blank.run = 0
          BY DEF Active, Blank
        <5>2. NoTurn \in Accounts /\ NoTurn.run = 0
          BY BoundAssumption DEF NoTurn, Accounts
        <5> QED
          BY <2>4, <4>1, <5>1, <5>2, BlankType DEF Sim
      <4>2. CASE j # 0
        BY <1>2, <4>2
      <4> QED
        BY <4>1, <4>2
    <3>8. Sim(Apply(c, e), Track(t, e))
      BY <2>6, <3>4, <3>6, <3>7, TrackStep
    <3> QED
      BY <2>2, <3>8
  <2> QED
    BY <2>5, <2>6
<1>3. 0 \in S
  OBVIOUS
<1> HIDE DEF S
<1>4. \A j \in 0 .. Len(mem) : j \in S
  BY <1>1, <1>2, <1>3, Upto
<1> QED
  BY <1>4 DEF S

(* A cut ends a turn that was over, before the latest message.              *)
LEMMA CutIs ==
    ASSUME TypeOK, FullSound, StoreSound, CutSound, RunsSound,
           NEW i \in Cuts(mem)
    PROVE  /\ i \in 1 .. Len(mem) /\ i < LatestTurn(mem)
           /\ Reduce(Prefix(mem, i)) = Reductions(full)[Gone + i]
           /\ Reduce(Prefix(log, i)) = Reductions(full)[Gone + i]
           /\ Reductions(full)[Gone + i].state \in {"idle", "interrupted"}
           /\ ~Reductions(full)[Gone + i].pending
           /\ ~Active(Reductions(full)[Gone + i])
<1> DEFINE c == Reductions(full)[Gone + i]
<1>1. /\ i \in 1 .. Len(mem) /\ i < LatestTurn(mem) /\ TurnEnds(mem, i)
      /\ Len(mem) \in Nat /\ Len(mem) = Len(log) /\ i \in 0 .. Len(mem)
  BY DEF Cuts, TypeOK, StoreSound
<1>2. mem \in Seq(Event) /\ log \in Seq(Event)
  BY DEF TypeOK
<1>3. /\ Reduce(Prefix(mem, i)) = c /\ Reduce(Prefix(log, i)) = c
      /\ Reductions(mem)[i] = c
  BY <1>1, <1>2, PrefixReduces, Aligned
<1>4. Sim(c, Tracks(mem)[i])
  BY <1>1, <1>3, Accounted
<1>5. ~Tracks(mem)[i].pending /\ ~Tracks(mem)[i].active
  BY <1>1, <1>2, PrefixTracks DEF TurnEnds
<1>6. ~c.pending /\ ~Active(c)
  BY <1>4, <1>5 DEF Sim
<1>7. c.state \in {"idle", "interrupted"}
  <2>1. mem[i].kind \in {"idle", "end", "ended"}
    BY <1>1 DEF TurnEnds
  <2>2. Reductions(mem)[i] = Apply(Reductions(mem)[i - 1], mem[i])
    BY <1>1, Reducing
  <2>3. Apply(Reductions(mem)[i - 1], mem[i]).state \in {"idle", "interrupted"}
    BY <2>1 DEF Apply, StateAfter
  <2> QED
    BY <1>3, <2>2, <2>3
<1> QED
  BY <1>1, <1>3, <1>6, <1>7

(* What is left after a cut.                                                *)
Shorter(s, t, i, c) ==
    /\ t \in Seq(Event) /\ Len(t) = Len(s) - i + 1
    /\ t[1] = [s[i] EXCEPT !.kind = "checkpoint", !.raw = FALSE,
                           !.arg = "none", !.kept = c]
    /\ \A j \in 2 .. Len(s) - i + 1 : t[j] = s[j + i - 1]

(* The checkpoint comes first, and the records after the cut follow it.     *)
LEMMA Compacting ==
    ASSUME NEW s \in Seq(Event), NEW i \in 1 .. Len(s),
           NEW c \in Control, Reduce(Prefix(s, i)) = c
    PROVE  Shorter(s, Compacted(s, i), i, c)
<1> DEFINE k == [s[i] EXCEPT !.kind = "checkpoint", !.raw = FALSE,
                             !.arg = "none", !.kept = c]
           t == SubSeq(s, i + 1, Len(s))
<1>1. k \in Event
  <2>1. s[i] \in Event /\ "checkpoint" \in Kinds /\ "none" \in Args
    BY DEF Kinds, Args
  <2> QED
    BY <2>1 DEF Event
<1>2. /\ t \in Seq(Event) /\ Len(t) = Len(s) - i /\ Len(s) \in Nat
      /\ \A j \in 1 .. Len(s) - i : t[j] = s[j + i]
  OBVIOUS
<1>3. Compacted(s, i) = <<k>> \o t
  BY DEF Compacted, Kept
<1> HIDE DEF k, t
<1>4. /\ <<k>> \o t \in Seq(Event) /\ Len(<<k>> \o t) = 1 + Len(t)
      /\ (<<k>> \o t)[1] = k
      /\ \A j \in 2 .. 1 + Len(t) : (<<k>> \o t)[j] = t[j - 1]
  BY <1>1, <1>2
<1>5. ASSUME NEW j \in 2 .. Len(s) - i + 1
      PROVE  (<<k>> \o t)[j] = s[j + i - 1]
  <2>1. /\ j - 1 \in 1 .. Len(s) - i /\ (j - 1) + i = j + i - 1
        /\ j \in 2 .. 1 + Len(t)
    BY <1>2
  <2>2. (<<k>> \o t)[j] = t[j - 1] /\ t[j - 1] = s[(j - 1) + i]
    BY <1>2, <1>4, <2>1
  <2> QED
    BY <2>1, <2>2
<1> QED
  BY <1>2, <1>3, <1>4, <1>5 DEF k, Shorter

(* A trim keeps the parts about the store.                                  *)
LEMMA TrimsStore ==
    ASSUME TypeOK, FullSound, StoreSound, LatestSound, CutSound, RunsSound,
           NEW i \in Cuts(mem), full' = full,
           mem' = Compacted(mem, i), log' = Compacted(log, i)
    PROVE  StoreSound' /\ LatestSound' /\ CutSound'
<1> DEFINE c == Reductions(full)[Gone + i]
           m == Len(log) - i + 1
<1>1. /\ Gone \in Nat /\ Len(log) \in Nat /\ Len(mem) = Len(log)
      /\ Gone + Len(log) = Len(full) /\ Len(full) \in Nat
      /\ i \in 1 .. Len(log)
  BY CutIs DEF TypeOK, StoreSound, Gone
<1>2. c \in Control
  BY <1>1, Typed
<1>3. /\ Len(log') = m /\ Len(mem') = m /\ Gone' = Gone + i - 1
      /\ log'[1] = [log[i] EXCEPT !.kind = "checkpoint", !.raw = FALSE,
                                  !.arg = "none", !.kept = c]
      /\ mem'[1] = [mem[i] EXCEPT !.kind = "checkpoint", !.raw = FALSE,
                                  !.arg = "none", !.kept = c]
      /\ \A j \in 2 .. m : log'[j] = log[j + i - 1] /\ mem'[j] = mem[j + i - 1]
  <2>1. /\ mem \in Seq(Event) /\ log \in Seq(Event) /\ i \in 1 .. Len(mem)
        /\ Reduce(Prefix(mem, i)) = c /\ Reduce(Prefix(log, i)) = c
    BY <1>1, CutIs DEF TypeOK
  <2>2. Shorter(log, log', i, c)
    BY <1>1, <1>2, <2>1, Compacting
  <2>3. Shorter(mem, mem', i, c)
    BY <1>1, <1>2, <2>1, Compacting
  <2>4. Gone' = Gone + i - 1
    <3>1. Len(log') = Len(log) - i + 1
      BY <2>2 DEF Shorter
    <3> QED
      BY <1>1, <3>1 DEF Gone
  <2> QED
    BY <1>1, <2>2, <2>3, <2>4 DEF Shorter
<1>4. /\ log[i] \in Event /\ mem[i] \in Event /\ Like(mem[i], log[i])
      /\ log[i].seq = Gone + i
  BY <1>1 DEF TypeOK, StoreSound
<1>5. /\ log'[1].kind = "checkpoint" /\ log'[1].kept = c
      /\ log'[1].seq = Gone' + 1 /\ Like(mem'[1], log'[1])
  BY <1>1, <1>3, <1>4 DEF Like, Event
<1>6. ASSUME NEW j \in 2 .. m
      PROVE  /\ Like(mem'[j], log'[j]) /\ log'[j].seq = Gone' + j
             /\ log'[j].kind # "checkpoint" /\ Like(log'[j], full[Gone' + j])
  <2>1. /\ j + i - 1 \in 1 .. Len(log) /\ j + i - 1 # 1
        /\ Gone + (j + i - 1) = Gone' + j
    BY <1>1, <1>3
  <2> QED
    BY <1>3, <2>1 DEF StoreSound
<1>7. StoreSound'
  <2>1. m > 0 /\ m <= Len(full)
    BY <1>1
  <2>2. Gone' + 1 = Gone + i
    BY <1>1, <1>3
  <2>3. ASSUME NEW j \in 1 .. m
        PROVE  /\ Like(mem'[j], log'[j]) /\ log'[j].seq = Gone' + j
               /\ log'[j].kind # "checkpoint" => Like(log'[j], full[Gone' + j])
               /\ log'[j].kind = "checkpoint" =>
                      j = 1 /\ log'[j].kept = Reductions(full)[Gone' + 1]
    <3>1. j = 1 \/ j \in 2 .. m
      BY <1>1
    <3> QED
      BY <1>5, <1>6, <2>2, <3>1
  <2> QED
    BY <1>3, <1>5, <2>1, <2>3 DEF StoreSound
<1>8. LatestSound'
  <2> SUFFICES ASSUME NEW l \in Inputs(full), \A j \in Inputs(full) : j <= l
               PROVE  /\ l > Gone' /\ log'[l - Gone'].kind = "input"
                      /\ \A k \in l .. Len(full) : /\ log'[k - Gone'] = full[k]
                                                   /\ mem'[k - Gone'] = full[k]
    BY DEF LatestSound
  <2>1. /\ l \in 1 .. Len(full) /\ l > Gone /\ l - Gone \in 1 .. Len(mem)
        /\ Inputs(mem) # {} /\ Max(Inputs(mem)) = l - Gone
    BY LatestInput
  <2>2. i < l - Gone
    BY <2>1, CutIs DEF LatestTurn
  <2>3. ASSUME NEW k \in l .. Len(full)
        PROVE  /\ log'[k - Gone'] = log[k - Gone]
               /\ mem'[k - Gone'] = mem[k - Gone]
    <3>1. /\ k - Gone' \in 2 .. m /\ (k - Gone') + i - 1 = k - Gone
      BY <1>1, <1>3, <2>1, <2>2
    <3>2. \A x \in 2 .. m : /\ log'[x] = log[x + i - 1]
                            /\ mem'[x] = mem[x + i - 1]
      BY <1>3
    <3> QED
      BY <3>1, <3>2
  <2>4. l \in l .. Len(full) /\ l > Gone'
    BY <1>1, <1>3, <2>1, <2>2
  <2> QED
    BY <2>3, <2>4 DEF LatestSound
<1>9. CutSound'
  <2>1. c.state \in {"idle", "interrupted"} /\ ~c.pending /\ ~Active(c)
    BY CutIs
  <2>2. log'[1].kept = c
    BY <1>5
  <2> HIDE DEF c
  <2> QED
    BY <2>1, <2>2 DEF CutSound, Active
<1> QED
  BY <1>7, <1>8, <1>9
-----------------------------------------------------------------------------
(* The other steps leave the records committed.                             *)
LEMMA FullStays ==
    ASSUME FullSound, full' = full
    PROVE  FullSound'
  BY DEF FullSound

(* A run starts with the stored records and a position of its own.          *)
LEMMA StartSound ==
    ASSUME TypeOK, Sound, Start
    PROVE  Sound'
<1> USE DEF Sound
<1>1. /\ w.at = "down" /\ run' = run + 1 /\ run \in 0 .. MaxRuns - 1
      /\ mem' = log /\ log' = log /\ full' = full /\ bg' = bg /\ view' = view
      /\ rec'.seq = 0 /\ rec' # None /\ rec'.control.run = run + 1
      /\ w'.at = "open" /\ run + 1 \in Run
  <2>1. /\ w.at = "down" /\ run < MaxRuns
        /\ run \in 0 .. MaxRuns /\ MaxRuns \in Nat
    BY BoundAssumption DEF Start, TypeOK
  <2>2. w'.at = "open"
    BY DEF Start, Goto, TypeOK
  <2>3. /\ rec' = [seq |-> 0, control |-> [Blank EXCEPT !.state = "starting",
                                                        !.run = run + 1]]
        /\ run' = run + 1 /\ mem' = log
        /\ UNCHANGED <<log, full, bg, view>>
    BY DEF Start
  <2>4. rec'.seq = 0 /\ rec'.control.run = run + 1
    BY <2>3 DEF Blank
  <2>5. rec' # None
    BY <2>4 DEF None
  <2> QED
    BY <2>1, <2>2, <2>3, <2>4, <2>5 DEF Run
<1>2. StoreSound' /\ LatestSound' /\ CutSound'
  BY <1>1 DEF StoreSound, LatestSound, CutSound, Gone, Like, Inputs, Active
<1>3. RunsSound'
  <2>1. ASSUME NEW i \in 1 .. Len(full) PROVE full[i].run <= run + 1
    <3>1. full[i].run \in Nat /\ full[i].run <= run
      BY BoundAssumption DEF RunsSound, FullSound, Welltyped, Event, Run
    <3> QED
      BY <1>1, <3>1
  <2> QED
    BY <1>1, <2>1 DEF RunsSound, Fresh
<1>4. Reduce(full) \in Control /\ Reduce(full).run \in Nat
  BY Typed DEF Control
<1>5. NowSound'
  BY <1>1, <1>4 DEF NowSound, Fresh
<1>6. ASSUME NEW i \in 1 .. Len(full) PROVE full[i].run < run + 1
  <2>1. full[i].run \in Nat /\ full[i].run <= run
    BY BoundAssumption DEF RunsSound, FullSound, Welltyped, Event, Run
  <2> QED
    BY <1>1, <2>1
<1>7. RecSound'
  <2>1. ~(run + 1 = 0) /\ 0 <= Len(full)
    BY <1>1 DEF TypeOK
  <2>2. \A i \in 1 .. Len(full) : full[i].run # run + 1
    <3>1. \A i \in 1 .. Len(full) : full[i].run \in Nat
      BY BoundAssumption DEF FullSound, Welltyped, Event, Run
    <3> QED
      BY <1>1, <1>6, <3>1
  <2> QED
    BY <1>1, <1>6, <2>1, <2>2 DEF RecSound
<1>8. BgSound'
  <2>1. bg[run + 1] = "off"
    <3>1. bg[run + 1] \in {"on", "off"}
      BY <1>1 DEF TypeOK, Tasks
    <3>2. ASSUME bg[run + 1] = "on" PROVE FALSE
      <4>1. PICK i \in 1 .. Len(full) : full[i].run = run + 1
        BY <1>1, <3>2 DEF BgSound, Logged
      <4> QED
        BY <1>1, <1>6, <4>1
    <3> QED
      BY <3>1, <3>2
  <2>2. Reductions(full)[0].tasks[run + 1] = "off"
    BY <1>1, Reducing DEF TypeOK, Blank
  <2>3. Reduce(full).tasks[run + 1] = "off"
    BY <1>1, <1>4 DEF NowSound, Fresh
  <2>4. Told(bg, run, rec.seq)'
    <3>1. 0 \in 0 .. Len(full)
      BY DEF TypeOK
    <3> QED
      BY <1>1, <2>1, <2>2, <3>1 DEF Told
  <2>5. Logged(bg)'
    BY <1>1 DEF Logged, BgSound
  <2> QED
    BY <1>1, <2>1, <2>3, <2>4, <2>5 DEF BgSound
<1>9. ViewSound'
  <2>1. view.at # "new" => view.run \in 1 .. run + 1
    BY <1>1 DEF ViewSound
  <2> QED
    BY <1>1, <2>1 DEF ViewSound, Logged, Told
<1> QED
  BY <1>1, <1>2, <1>3, <1>5, <1>7, <1>8, <1>9, FullStays

(* The fold follows the record of this run that was just committed.         *)
LEMMA FoldSound ==
    ASSUME TypeOK, Sound, Fold
    PROVE  Sound'
<1> USE DEF Sound
<1> DEFINE n == Len(full)
           e == mem[Len(mem)]
<1>1. /\ w.at = "fold" /\ w'.at = "state"
      /\ bg' = IF e.kind = "task" THEN [bg EXCEPT ![e.run] = e.arg] ELSE bg
      /\ UNCHANGED <<log, mem, raw, rec, run, view, full>>
  BY DEF Fold, Goto, TypeOK
<1>2. StoreSound' /\ LatestSound' /\ CutSound'
  BY <1>1, StoreStays
<1>3. RunsSound' /\ NowSound' /\ RecSound'
  BY <1>1 DEF RunsSound, NowSound, RecSound, Fresh
<1>4. /\ n \in Nat /\ n > 0 /\ Len(log) > 0 /\ Len(log) \in Nat
      /\ Len(mem) = Len(log) /\ Gone + Len(log) = n
  BY <1>1 DEF NowSound, StoreSound, TypeOK, Gone
<1>5. Like(e, full[n]) /\ full[n].run = run
  <2>1. Len(log) \in 1 .. Len(log) /\ log[Len(log)].kind # "checkpoint"
    BY <1>1, <1>4 DEF NowSound
  <2>2. /\ Like(mem[Len(log)], log[Len(log)])
        /\ Like(log[Len(log)], full[Gone + Len(log)])
    BY <2>1 DEF StoreSound
  <2>3. full[n].run = run
    BY <1>1 DEF NowSound
  <2> QED
    BY <1>4, <2>2, <2>3 DEF Like
<1>6. e.run = run /\ run \in Run /\ e.kind # "checkpoint"
  <2>1. n \in 1 .. n
    BY <1>4
  <2> QED
    BY <1>1, <1>5, <2>1 DEF NowSound, TypeOK, Run, Like, FullSound
<1>7. bg \in Tasks /\ e.run \in Run
  BY <1>6 DEF TypeOK
<1>8. bg'[run] = Reduce(full).tasks[run]
  <2>1. n \in 1 .. n /\ n - 1 \in 0 .. n
    BY <1>4
  <2>2. Reduce(full) = Apply(Reductions(full)[n - 1], full[n])
    BY <1>4, <2>1, Reducing DEF Reduce
  <2>3. bg[run] = Reductions(full)[n - 1].tasks[run]
    BY <1>1 DEF BgSound
  <2>4. Reductions(full)[n - 1] \in Control
    BY <2>1, Typed
  <2>5. Reduce(full).tasks = IF e.kind = "task"
            THEN [Reductions(full)[n - 1].tasks EXCEPT ![run] = e.arg]
            ELSE Reductions(full)[n - 1].tasks
    BY <1>5, <1>6, <2>2 DEF Apply, Like
  <2>6. Reductions(full)[n - 1].tasks \in Tasks
    BY <2>4 DEF Control
  <2> QED
    BY <1>1, <1>6, <1>7, <2>3, <2>5, <2>6 DEF Tasks
<1>9. \A r \in Run : r # run => bg'[r] = bg[r]
  BY <1>1, <1>6, <1>7 DEF Tasks
<1>10. Logged(bg)'
  <2> SUFFICES ASSUME NEW r \in Run, bg'[r] = "on"
               PROVE  \E i \in 1 .. n : /\ full[i].kind = "task"
                                        /\ full[i].run = r
    BY <1>1 DEF Logged
  <2>1. CASE bg[r] = "on"
    BY <2>1 DEF BgSound, Logged
  <2>2. CASE bg[r] # "on"
    <3>1. r = run /\ e.kind = "task"
      BY <1>1, <1>9, <2>2
    <3>2. n \in 1 .. n /\ full[n].kind = "task" /\ full[n].run = r
      BY <1>4, <1>5, <3>1 DEF Like
    <3> QED
      BY <3>2
  <2> QED
    BY <2>1, <2>2
<1>11. ASSUME NEW from \in 0 .. n
       PROVE  \E i \in from .. n : bg'[run] = Reductions(full)[i].tasks[run]
  <2>1. n \in from .. n
    BY <1>4
  <2> QED
    BY <1>8, <2>1 DEF Reduce
<1>12. BgSound'
  <2>1. rec.seq \in 0 .. n
    BY <1>1, <1>6 DEF RecSound, NowSound, TypeOK, Run
  <2>2. Told(bg, run, rec.seq)'
    BY <1>1, <1>11, <2>1 DEF Told
  <2> QED
    BY <1>1, <1>8, <1>10, <2>2 DEF BgSound
<1>13. ViewSound'
  <2>1. view.seq \in Nat
    BY DEF TypeOK
  <2>2. view.at = "deriving" => Told(bg, view.run, view.seq)'
    <3> SUFFICES ASSUME view.at = "deriving"
                 PROVE  \E i \in view.seq .. n :
                            bg'[view.run] = Reductions(full)[i].tasks[view.run]
      BY <1>1 DEF Told
    <3>1. CASE view.run = run
      <4>1. view.seq \in 0 .. n
        BY <1>4, <2>1 DEF ViewSound
      <4> QED
        BY <1>11, <3>1, <4>1
    <3>2. CASE view.run # run
      <4>1. view.run \in Run
        <5>1. view.run \in 1 .. run
          BY DEF ViewSound
        <5> QED
          BY <1>6, <5>1, BoundAssumption DEF Run
      <4> QED
        BY <1>9, <3>2, <4>1 DEF ViewSound, Told
    <3> QED
      BY <3>1, <3>2
  <2> QED
    BY <1>1, <2>2 DEF ViewSound, Logged, Told
<1> QED
  BY <1>1, <1>2, <1>3, <1>12, <1>13, FullStays

(* What is recorded is what all records reduce to.                          *)
LEMMA RecordSound ==
    ASSUME TypeOK, Sound, RecordState
    PROVE  Sound'
<1> USE DEF Sound
<1> DEFINE n == Len(full)
<1>1. /\ w.at = "state" /\ w'.at \in {"down", "ready", "retain", "trim"}
      /\ UNCHANGED <<log, mem, raw, bg, run, view, full>>
  BY DEF RecordState, TypeOK
<1>2. rec' = [seq |-> n, control |-> Reduce(full)]
  BY Aligned DEF RecordState, Recorded
<1>3. StoreSound' /\ LatestSound' /\ CutSound'
  BY <1>1, StoreStays
<1>4. RunsSound' /\ NowSound'
  BY <1>1 DEF RunsSound, NowSound, Fresh
<1>5. /\ n \in Nat /\ n > 0 /\ Reduce(full).run = run /\ run > 0
      /\ Reduce(full) = Reductions(full)[n]
  BY <1>1 DEF NowSound, TypeOK, Reduce
<1>6. RecSound'
  <2>1. rec' # None
    <3>1. -1 # n
      BY <1>5
    <3> QED
      BY <1>2, <3>1 DEF None
  <2>2. run' # 0
    BY <1>1, <1>5 DEF TypeOK
  <2>3. /\ rec'.seq = n /\ rec'.control = Reductions(full)[n]
        /\ rec'.control.run = run
    BY <1>2, <1>5
  <2> QED
    BY <1>1, <1>5, <2>1, <2>2, <2>3 DEF RecSound
<1>7. BgSound'
  <2>1. bg[run] = Reductions(full)[n].tasks[run]
    BY <1>1, <1>5 DEF BgSound
  <2>2. Told(bg, run, rec.seq)'
    <3>1. n \in n .. n
      BY <1>5
    <3> QED
      BY <1>1, <1>2, <2>1, <3>1 DEF Told
  <2> QED
    BY <1>1, <2>2 DEF BgSound, Logged
<1>8. ViewSound'
  BY <1>1 DEF ViewSound, Logged, Told
<1> QED
  BY <1>1, <1>3, <1>4, <1>6, <1>7, <1>8, FullStays

(* A death loses where the supervisor was, and nothing else.                *)
LEMMA CrashSound ==
    ASSUME TypeOK, Sound, Crash
    PROVE  Sound'
<1> USE DEF Sound
<1>1. w'.at = "down" /\ UNCHANGED <<log, mem, raw, rec, bg, run, view, full>>
  BY DEF Crash
<1>2. StoreSound' /\ LatestSound' /\ CutSound'
  BY <1>1, StoreStays
<1>3. RunsSound' /\ NowSound' /\ RecSound'
  BY <1>1 DEF RunsSound, NowSound, RecSound, Fresh
<1>4. BgSound' /\ ViewSound'
  BY <1>1 DEF BgSound, ViewSound, Logged, Told
<1> QED
  BY <1>1, <1>2, <1>3, <1>4, FullStays

(* What the daemon reads is what the supervisor has recorded.               *)
LEMMA ReadSound ==
    ASSUME TypeOK, Sound, Read
    PROVE  Sound'
<1> USE DEF Sound
<1> DEFINE moved == view.at = "new" \/ rec.seq # view.seq
<1>1. /\ view.at # "deriving" /\ rec # None
      /\ view' = [at    |-> IF moved THEN "deriving" ELSE "read",
                  seq   |-> rec.seq, run |-> rec.control.run,
                  tasks |-> IF moved THEN Blank.tasks ELSE view.tasks]
      /\ UNCHANGED <<log, mem, raw, rec, bg, w, run, full>>
  BY DEF Read, Moved
<1>2. StoreSound' /\ LatestSound' /\ CutSound'
  BY <1>1, StoreStays
<1>3. RunsSound' /\ NowSound' /\ RecSound' /\ BgSound'
  BY <1>1 DEF RunsSound, NowSound, RecSound, BgSound, Fresh, Logged, Told
<1>4. /\ run > 0 /\ run \in Run /\ rec.control.run = run
      /\ rec.seq <= Len(full) /\ rec.seq \in Nat /\ Len(full) \in Nat
      /\ rec.seq > 0 => rec.control = Reductions(full)[rec.seq]
      /\ Told(bg, run, rec.seq)
  BY <1>1 DEF RecSound, BgSound, TypeOK, Run
<1>5. /\ view'.seq = rec.seq /\ view'.run = run
      /\ view'.at = IF moved THEN "deriving" ELSE "read"
      /\ view'.tasks = IF moved THEN Blank.tasks ELSE view.tasks
  BY <1>1, <1>4
<1>6. Logged(view.tasks)'
  <2>1. \A r \in Run : Blank.tasks[r] # "on"
    BY DEF Blank
  <2>2. Logged(view.tasks)
    BY DEF ViewSound
  <2> QED
    BY <1>1, <1>5, <2>1, <2>2 DEF Logged
<1>7. ASSUME ~moved PROVE Told(view.tasks, run, view.seq)
  <2>1. view.at = "read" /\ view.seq = rec.seq
    BY <1>1, <1>7 DEF TypeOK
  <2>2. Told(view.tasks, view.run, view.seq)
    BY <2>1 DEF ViewSound
  <2>3. CASE rec.seq > 0
    <3>1. view.run = run
      BY <1>4, <2>1, <2>3 DEF ViewSound
    <3> QED
      BY <2>2, <3>1
  <2>4. CASE rec.seq = 0
    <3>1. view.tasks[run] = "off"
      <4>1. view.tasks[run] \in {"on", "off"}
        BY <1>4 DEF TypeOK, Tasks
      <4>2. ASSUME view.tasks[run] = "on" PROVE FALSE
        <5>1. PICK i \in 1 .. Len(full) : /\ full[i].kind = "task"
                                          /\ full[i].run = run
          BY <1>4, <4>2 DEF ViewSound, Logged
        <5>2. full[i].kind = "starting"
          BY <1>1, <2>4, <5>1 DEF RecSound
        <5> QED
          BY <5>1, <5>2
      <4> QED
        BY <4>1, <4>2
    <3>2. Reductions(full)[0].tasks[run] = "off"
      BY <1>4, Reducing DEF Blank
    <3>3. 0 \in view.seq .. Len(full)
      BY <1>4, <2>1, <2>4
    <3> QED
      BY <3>1, <3>2, <3>3 DEF Told
  <2> QED
    BY <1>4, <2>3, <2>4
<1>8. ViewSound'
  <2>1. view'.at = "deriving" => Told(bg, view.run, view.seq)'
    BY <1>1, <1>4, <1>5 DEF Told
  <2>2. view'.at = "read" => Told(view.tasks, view.run, view.seq)'
    <3>1. CASE moved
      BY <1>5, <3>1
    <3>2. CASE ~moved
      BY <1>1, <1>5, <1>7, <3>2 DEF Told
    <3> QED
      BY <3>1, <3>2
  <2>3. /\ view'.run \in 1 .. run' /\ view'.seq <= Len(full')
        /\ view'.seq > 0 => view'.run = Reductions(full')[view'.seq].run
    BY <1>1, <1>4, <1>5 DEF Run
  <2> QED
    BY <1>6, <2>1, <2>2, <2>3 DEF ViewSound
<1> QED
  BY <1>1, <1>2, <1>3, <1>8, FullStays

(* What was derived is read with the position it was derived for.           *)
LEMMA DeriveSound ==
    ASSUME TypeOK, Sound, Derive
    PROVE  Sound'
<1> USE DEF Sound
<1>1. /\ view.at = "deriving" /\ view'.at = "read" /\ view'.tasks = bg
      /\ view'.seq = view.seq /\ view'.run = view.run
      /\ UNCHANGED <<log, mem, raw, rec, bg, w, run, full>>
  BY DEF Derive, TypeOK
<1>2. StoreSound' /\ LatestSound' /\ CutSound'
  BY <1>1, StoreStays
<1>3. RunsSound' /\ NowSound' /\ RecSound' /\ BgSound'
  BY <1>1 DEF RunsSound, NowSound, RecSound, BgSound, Fresh, Logged, Told
<1>4. ViewSound'
  BY <1>1 DEF ViewSound, BgSound, Logged, Told
<1> QED
  BY <1>1, <1>2, <1>3, <1>4, FullStays
-----------------------------------------------------------------------------
(* Every value has its type.                                                *)
LEMMA Counting ==
    ASSUME NEW s \in Seq(Event), NEW S, S \subseteq Payloads(s)
    PROVE  Cardinality(S) \in Nat
<1>1. IsFiniteSet(1 .. Len(s))
  BY FS_Interval
<1>2. S \subseteq 1 .. Len(s)
  BY DEF Payloads
<1> QED
  BY <1>1, <1>2, FS_Subset, FS_CardinalityType

(* Every value has its type to begin with.                                  *)
LEMMA InitTyped == Init => TypeOK
<1> SUFFICES ASSUME Init PROVE TypeOK
  OBVIOUS
<1>1. bg \in Tasks /\ 0 \in 0 .. MaxRuns
  BY BoundAssumption DEF Init, Tasks
<1> QED
  BY <1>1 DEF Init, TypeOK, Places

(* A commit keeps the types.                                                *)
LEMMA AddsTyped ==
    ASSUME TypeOK, NEW e, Adds(e)
    PROVE  TypeOK'
  BY DEF TypeOK, Adds, Welltyped, Places

(* The steps that leave the records.                                        *)
LEMMA FoldTyped ==
    ASSUME TypeOK, Sound, Fold
    PROVE  TypeOK'
<1> USE DEF Sound
<1>1. /\ w.at = "fold"
      /\ w' = [w EXCEPT !.at = "state"]
      /\ bg' = IF mem[Len(mem)].kind = "task"
               THEN [bg EXCEPT ![mem[Len(mem)].run] = mem[Len(mem)].arg]
               ELSE bg
      /\ UNCHANGED <<log, mem, raw, rec, run, view, full>>
  BY DEF Fold, Goto
<1>2. /\ Len(log) \in 1 .. Len(log) /\ Len(mem) = Len(log)
      /\ Gone + Len(log) = Len(full) /\ Len(full) \in 1 .. Len(full)
      /\ log[Len(log)].kind # "checkpoint"
  BY <1>1 DEF NowSound, StoreSound, TypeOK, Gone
<1>3. Like(mem[Len(mem)], full[Len(full)])
  <2>1. /\ Like(mem[Len(log)], log[Len(log)])
        /\ Like(log[Len(log)], full[Gone + Len(log)])
    BY <1>2 DEF StoreSound
  <2> QED
    BY <1>2, <2>1 DEF Like
<1>4. Welltyped(full[Len(full)])
  BY <1>2 DEF FullSound
<1>5. mem[Len(mem)].kind = "task" => mem[Len(mem)].arg \in {"on", "off"}
  BY <1>3, <1>4 DEF Like, Welltyped
<1>6. bg' \in Tasks
  BY <1>1, <1>5 DEF TypeOK, Tasks
<1>7. w' \in [at : Places, next : {"down", "ready", "retain", "trim"}]
  BY <1>1 DEF TypeOK, Places
<1> QED
  BY <1>1, <1>6, <1>7 DEF TypeOK

(* A start keeps the types.                                                 *)
LEMMA StartTyped ==
    ASSUME TypeOK, Start
    PROVE  TypeOK'
<1>1. RawBytes(log) \in Nat
  BY Counting DEF RawBytes, TypeOK
<1>2. run + 1 \in 0 .. MaxRuns
  BY BoundAssumption DEF Start, TypeOK
<1>3. [Blank EXCEPT !.state = "starting", !.run = run + 1] \in Control
  BY <1>2, BlankType DEF Control, States
<1>4. rec' \in [seq : Nat, control : Control]
  BY <1>3 DEF Start
<1>5. w' \in [at : Places, next : {"down", "ready", "retain", "trim"}]
  BY DEF Start, Goto, TypeOK, Places
<1> QED
  BY <1>1, <1>2, <1>4, <1>5 DEF Start, TypeOK

(* Recording, dying and reading keep the types.                             *)
LEMMA ReadersTyped ==
    ASSUME TypeOK, Sound, RecordState \/ Crash \/ Read \/ Derive
    PROVE  TypeOK'
<1>1. CASE RecordState
  <2>1. /\ LastSeq(mem) = Len(full) /\ Reduce(mem) \in Control
        /\ Len(full) \in Nat
    BY Aligned, Typed DEF Sound, TypeOK
  <2>2. rec' \in [seq : Nat, control : Control]
    BY <1>1, <2>1 DEF RecordState, Recorded
  <2>3. w' \in [at : Places, next : {"down", "ready", "retain", "trim"}]
    BY <1>1 DEF RecordState, TypeOK, Places
  <2> QED
    BY <1>1, <2>2, <2>3 DEF RecordState, TypeOK
<1>2. CASE Crash
  BY <1>2 DEF Crash, TypeOK, Places
<1>3. CASE Read
  <2>1. rec \in [seq : Nat, control : Control]
    BY <1>3 DEF Read, TypeOK
  <2>2. rec.seq \in Nat /\ rec.control.run \in 0 .. MaxRuns
    BY <2>1 DEF Control
  <2>3. Blank.tasks \in Tasks /\ view.tasks \in Tasks
    BY DEF Blank, Tasks, TypeOK
  <2> DEFINE tasks == IF Moved(rec.seq) THEN Blank.tasks ELSE view.tasks
             at == IF Moved(rec.seq) THEN "deriving" ELSE "read"
  <2>4. tasks \in Tasks /\ at \in {"new", "deriving", "read"}
    BY <2>3
  <2>5. view' = [at |-> at, seq |-> rec.seq, run |-> rec.control.run,
                 tasks |-> tasks]
    BY <1>3 DEF Read
  <2> HIDE DEF tasks, at
  <2>6. view' \in [at : {"new", "deriving", "read"}, seq : Nat,
                   run : 0 .. MaxRuns, tasks : Tasks]
    BY <2>2, <2>4, <2>5
  <2> QED
    BY <1>3, <2>6 DEF Read, TypeOK
<1>4. CASE Derive
  BY <1>4 DEF Derive, TypeOK
<1> QED
  BY <1>1, <1>2, <1>3, <1>4

(* Retention keeps the types, and changes the store alone.                  *)
LEMMA RetainTyped ==
    ASSUME TypeOK, Sound, Tick \/ Skips \/ Sheds \/ OnlyTrims \/ Trims
    PROVE  TypeOK' /\ Stays
<1>1. CASE Tick \/ Skips \/ OnlyTrims
  <2>1. /\ UNCHANGED <<log, mem, raw, rec, bg, run, view, full>>
        /\ w.at \in {"ready", "retain"}
        /\ \E at \in {"ready", "retain", "trim"} : Goto(at)
    BY <1>1 DEF Tick, Skips, OnlyTrims
  <2>2. /\ w'.at \in {"ready", "retain", "trim"}
        /\ w' \in [at : Places, next : {"down", "ready", "retain", "trim"}]
    BY <2>1 DEF Goto, TypeOK, Places
  <2> QED
    BY <2>1, <2>2 DEF TypeOK, Stays
<1>2. CASE Sheds
  <2>1. Shed(mem) \in Seq(Event)
    BY Shedding
  <2>2. Cardinality(Chosen(mem)) \in Nat
    BY Counting DEF Chosen, Sheddable, TypeOK
  <2>3. raw' \in Int
    BY <1>2, <2>2 DEF Sheds, TypeOK
  <2>4. /\ w.at = "retain" /\ UNCHANGED <<rec, bg, run, view, full>>
        /\ mem' \in Seq(Event) /\ log' \in Seq(Event)
        /\ \E at \in {"ready", "mark", "trim"} : Goto(at)
    BY <1>2, <2>1 DEF Sheds, TypeOK
  <2>5. /\ w'.at \in {"ready", "mark", "trim"}
        /\ w' \in [at : Places, next : {"down", "ready", "retain", "trim"}]
    BY <2>4 DEF Goto, TypeOK, Places
  <2> QED
    BY <2>3, <2>4, <2>5 DEF TypeOK, Stays
<1>3. CASE Trims
  <2>1. w.at = "trim" /\ UNCHANGED <<rec, bg, run, view, full>>
    BY <1>3 DEF Trims
  <2>2. CASE OverDisk /\ Cuts(mem) # {}
    <3> DEFINE i == Min(Cuts(mem))
    <3>1. /\ mem' = Compacted(mem, i) /\ log' = Compacted(log, i)
          /\ raw' = RawBytes(mem') /\ w' = [at |-> "state", next |-> "ready"]
      BY <1>3, <2>2 DEF Trims
    <3>2. i \in Cuts(mem)
      <4>1. Cuts(mem) \subseteq 1 .. Len(mem) /\ Len(mem) \in Nat
        BY DEF Cuts, TypeOK
      <4> QED
        BY <2>2, <4>1, MinIs
    <3> HIDE DEF i
    <3>3. /\ mem \in Seq(Event) /\ log \in Seq(Event)
          /\ i \in 1 .. Len(mem) /\ i \in 1 .. Len(log)
          /\ Reduce(Prefix(mem, i)) = Reductions(full)[Gone + i]
          /\ Reduce(Prefix(log, i)) = Reductions(full)[Gone + i]
      BY <3>2, CutIs DEF Sound, StoreSound, TypeOK
    <3>4. Reductions(full)[Gone + i] \in Control
      <4>1. /\ Reductions(mem)[i] = Reductions(full)[Gone + i]
            /\ i \in 0 .. Len(mem)
        BY <3>3, Aligned DEF Sound
      <4>2. Gone + i \in 0 .. Len(full)
        BY <3>3 DEF Gone, Sound, StoreSound, TypeOK
      <4> QED
        BY <4>2, Typed DEF Sound
    <3>5. mem' \in Seq(Event) /\ log' \in Seq(Event)
      BY <3>1, <3>3, <3>4, Compacting DEF Shorter
    <3>6. raw' \in Int
      BY <3>1, <3>5, Counting DEF RawBytes
    <3> QED
      BY <2>1, <3>1, <3>5, <3>6 DEF TypeOK, Stays, Places
  <2>3. CASE ~(OverDisk /\ Cuts(mem) # {})
    <3>1. Goto("ready") /\ UNCHANGED <<log, mem, raw>>
      BY <1>3, <2>3 DEF Trims
    <3>2. /\ w'.at = "ready"
          /\ w' \in [at : Places, next : {"down", "ready", "retain", "trim"}]
      BY <3>1 DEF Goto, TypeOK, Places
    <3> QED
      BY <2>1, <3>1, <3>2 DEF TypeOK, Stays
  <2> QED
    BY <2>2, <2>3
<1> QED
  BY <1>1, <1>2, <1>3

(* A step of retention keeps the parts about the store.                     *)
LEMMA RetainStore ==
    ASSUME TypeOK, Sound, Tick \/ Skips \/ Sheds \/ OnlyTrims \/ Trims
    PROVE  StoreSound' /\ LatestSound' /\ CutSound'
<1> USE DEF Sound
<1>1. CASE Tick \/ Skips \/ OnlyTrims
  <2>1. UNCHANGED <<log, mem, full>>
    BY <1>1 DEF Tick, Skips, OnlyTrims
  <2> QED
    BY <2>1, StoreStays
<1>2. CASE Sheds
  <2>1. mem' = Shed(mem) /\ log' \in {log, mem'} /\ full' = full
    BY <1>2 DEF Sheds
  <2> QED
    BY <2>1, ShedsStore
<1>3. CASE Trims
  <2>1. CASE OverDisk /\ Cuts(mem) # {}
    <3> DEFINE i == Min(Cuts(mem))
    <3>1. /\ mem' = Compacted(mem, i) /\ log' = Compacted(log, i)
          /\ full' = full
      BY <1>3, <2>1 DEF Trims
    <3>2. i \in Cuts(mem)
      <4>1. Cuts(mem) \subseteq 1 .. Len(mem) /\ Len(mem) \in Nat
        BY DEF Cuts, TypeOK
      <4> QED
        BY <2>1, <4>1, MinIs
    <3> HIDE DEF i
    <3> QED
      BY <3>1, <3>2, TrimsStore
  <2>2. CASE ~(OverDisk /\ Cuts(mem) # {})
    <3>1. UNCHANGED <<log, mem, full>>
      BY <1>3, <2>2 DEF Trims
    <3> QED
      BY <3>1, StoreStays
  <2> QED
    BY <2>1, <2>2
<1> QED
  BY <1>1, <1>2, <1>3
-----------------------------------------------------------------------------
IInv == TypeOK /\ Sound

(* The invariant holds to begin with.                                       *)
LEMMA InitSound == Init => IInv
<1> SUFFICES ASSUME Init PROVE IInv
  OBVIOUS
<1>1. TypeOK
  BY InitTyped
<1>2. /\ log = <<>> /\ mem = <<>> /\ full = <<>> /\ run = 0 /\ rec = None
      /\ w.at = "down" /\ view.at = "new" /\ Len(full) = 0 /\ Len(log) = 0
      /\ Len(mem) = 0 /\ bg = [r \in Run |-> "off"] /\ view.tasks = bg
  BY DEF Init
<1>3. FullSound /\ StoreSound /\ LatestSound /\ CutSound /\ RunsSound
  BY <1>2 DEF FullSound, StoreSound, LatestSound, CutSound, RunsSound, Inputs
<1>4. Reduce(full) = Blank
  BY <1>2, Reducing DEF Reduce
<1>5. NowSound /\ RecSound
  BY <1>2, <1>4 DEF NowSound, RecSound, Fresh, Blank
<1>6. BgSound /\ ViewSound
  BY <1>2 DEF BgSound, ViewSound, Logged
<1> QED
  BY <1>1, <1>3, <1>5, <1>6 DEF IInv, Sound

(* Every step keeps the invariant.                                          *)
LEMMA NextSound == IInv /\ [Next]_vars => IInv'
<1> SUFFICES ASSUME TypeOK, Sound, [Next]_vars PROVE TypeOK' /\ Sound'
  BY DEF IInv
<1>1. CASE UNCHANGED vars
  <2>1. TypeOK'
    BY <1>1 DEF TypeOK, vars
  <2>2. FullSound' /\ StoreSound' /\ LatestSound' /\ CutSound'
    BY <1>1, FullStays, StoreStays DEF Sound, vars
  <2>3. RunsSound' /\ NowSound' /\ RecSound' /\ BgSound' /\ ViewSound'
    BY <1>1 DEF Sound, vars, RunsSound, NowSound, RecSound, BgSound,
                ViewSound, Fresh, Logged, Told
  <2> QED
    BY <2>1, <2>2, <2>3 DEF Sound
<1>2. CASE \/ Opens \/ Initialized \/ Set \/ Say \/ Ask \/ Answer \/ Task
           \/ End \/ Ended \/ Mark \/ \E c \in Clients : Send(c)
  <2>1. Commits
    BY <1>2, Committing DEF Sound
  <2>2. PICK e : Adds(e)
    BY <2>1, Adding DEF Sound
  <2>3. Grown(e)
    BY <2>2, Growing DEF Sound
  <2>4. TypeOK'
    BY <2>2, AddsTyped
  <2> QED
    BY <2>2, <2>3, <2>4, AddsStore, AddsRuns, AddsReaders DEF Sound
<1>3. CASE Fold
  BY <1>3, FoldTyped, FoldSound
<1>4. CASE RecordState
  BY <1>4, ReadersTyped, RecordSound
<1>5. CASE Start
  BY <1>5, StartTyped, StartSound
<1>6. CASE Crash
  BY <1>6, ReadersTyped, CrashSound
<1>7. CASE Read
  BY <1>7, ReadersTyped, ReadSound
<1>8. CASE Derive
  BY <1>8, ReadersTyped, DeriveSound
<1>9. CASE Tick \/ Skips \/ Sheds \/ OnlyTrims \/ Trims
  BY <1>9, RetainTyped, RetainStore, StaysSound DEF Sound
<1> QED
  BY <1>1, <1>2, <1>3, <1>4, <1>5, <1>6, <1>7, <1>8, <1>9
     DEF Next, Retain
-----------------------------------------------------------------------------
(* It holds throughout.                                                     *)
LEMMA Invariant == Spec => []IInv
<1>1. Init => IInv
  BY InitSound
<1>2. IInv /\ [Next]_vars => IInv'
  BY NextSound
<1> QED
  BY <1>1, <1>2, PTL DEF Spec

(* Every variable keeps its range, for any clients, budgets and number of   *)
(* runs and records: the records are records, what they reduce to is a      *)
(* state, and the count of payloads is a number (log.go:41-59,              *)
(* history.go:30-46).                                                       *)
THEOREM HistoryTypeCorrect == Spec => []TypeOK
<1>1. IInv => TypeOK
  BY DEF IInv
<1> QED
  BY <1>1, Invariant, PTL

(* Retention is invisible to a restart: what the stored records reduce to   *)
(* is what all records ever committed do, whatever was shed or cut and      *)
(* wherever the supervisor died, so no receipt and no setting is lost       *)
(* (history.go:47-92, log.go:155-186).                                      *)
THEOREM RetentionRemembers == Spec => []Remembers
<1>1. IInv => Remembers
  BY Aligned DEF IInv, Sound, Remembers
<1> QED
  BY <1>1, Invariant, PTL

(* What was cut ends with a turn that was over, nothing pending and no task *)
(* active, and since the latest message every record and payload is stored  *)
(* (history.go:140-206, 235-285).                                           *)
THEOREM RetentionKeepsTurns == Spec => []WholeTurns
<1>1. ASSUME IInv PROVE WholeTurns
  <2> USE <1>1 DEF IInv, Sound
  <2>1. /\ Gone \in Nat /\ Len(log) \in Nat /\ Len(full) \in Nat
        /\ Gone + Len(log) = Len(full)
        /\ log \in Seq(Event) /\ full \in Seq(Event)
    BY DEF TypeOK, StoreSound, Gone
  <2>2. ASSUME log # <<>>, log[1].kind = "checkpoint"
        PROVE  LET c == Reduce(Prefix(full, log[1].seq)) IN
               c.state \in {"idle", "interrupted"} /\ ~c.pending /\ ~Active(c)
    <3>1. Len(log) > 0 /\ 1 \in 1 .. Len(log)
      BY <2>1, <2>2
    <3>2. /\ log[1].seq = Gone + 1
          /\ log[1].kept = Reductions(full)[Gone + 1]
      BY <2>2, <3>1 DEF StoreSound
    <3>3. Gone + 1 \in 0 .. Len(full)
      BY <2>1, <3>1
    <3>4. Reduce(Prefix(full, log[1].seq)) = log[1].kept
      BY <2>1, <3>2, <3>3, PrefixReduces
    <3> QED
      BY <2>2, <3>1, <3>4 DEF CutSound
  <2>3. ASSUME Inputs(full) # {}
        PROVE  LET n == Len(full) - Max(Inputs(full)) IN
               /\ n < Len(log)
               /\ SubSeq(log, Len(log) - n, Len(log))
                  = SubSeq(full, Len(full) - n, Len(full))
    <3> DEFINE i == Max(Inputs(full))
               n == Len(full) - i
    <3>1. Inputs(full) \subseteq 1 .. Len(full)
      BY <2>1 DEF Inputs
    <3>2. i \in Inputs(full) /\ \A j \in Inputs(full) : j <= i
      BY <2>1, <2>3, <3>1, MaxIs
    <3> HIDE DEF i
    <3>3. i \in 1 .. Len(full) /\ i > Gone
      BY <3>1, <3>2 DEF LatestSound
    <3>4. /\ n \in Nat /\ n < Len(log) /\ Len(log) - n = i - Gone
          /\ Len(full) - n = i
      BY <2>1, <3>3
    <3> DEFINE s == SubSeq(log, i - Gone, Len(log))
               t == SubSeq(full, i, Len(full))
    <3>5. /\ s \in Seq(Event) /\ Len(s) = n + 1
          /\ \A j \in 1 .. n + 1 : s[j] = log[(i - Gone) + j - 1]
      BY <2>1, <3>3
    <3>6. /\ t \in Seq(Event) /\ Len(t) = n + 1
          /\ \A j \in 1 .. n + 1 : t[j] = full[i + j - 1]
      BY <2>1, <3>3
    <3>7. ASSUME NEW j \in 1 .. n + 1 PROVE s[j] = t[j]
      <4>1. /\ i + j - 1 \in i .. Len(full)
            /\ (i - Gone) + j - 1 = (i + j - 1) - Gone
        BY <2>1, <3>3, <3>4
      <4>2. log[(i + j - 1) - Gone] = full[i + j - 1]
        BY <3>2, <4>1 DEF LatestSound
      <4> QED
        BY <3>5, <3>6, <4>1, <4>2
    <3> HIDE DEF s, t
    <3>8. s = t
      BY <3>4, <3>5, <3>6, <3>7
    <3> QED
      BY <3>4, <3>8 DEF s, t, i
  <2> QED
    BY <2>2, <2>3 DEF WholeTurns
<1> QED
  BY <1>1, Invariant, PTL

(* The recorded state is what the records up to its position add up to;     *)
(* before the first record of a run it is ahead of them, and no record of   *)
(* that run is missing from it (store.go:17-40, supervisor.go:189-206,      *)
(* 443-449).                                                                *)
THEOREM RecordedStateAddsUp == Spec => []RecordedAddsUp
<1>1. ASSUME IInv, rec # None
      PROVE  \/ rec.control = Reduce(Prefix(full, rec.seq))
             \/ /\ rec.seq = 0
                /\ \A i \in DOMAIN full :
                       full[i].run = rec.control.run =>
                           full[i].kind = "starting"
  <2> USE <1>1 DEF IInv, Sound
  <2>1. /\ rec.seq \in Nat /\ rec.seq <= Len(full) /\ full \in Seq(Event)
        /\ rec.control.run = run
    BY DEF TypeOK, RecSound
  <2>2. CASE rec.seq > 0
    <3>1. rec.seq \in 0 .. Len(full)
      BY <2>1
    <3>2. Reduce(Prefix(full, rec.seq)) = Reductions(full)[rec.seq]
      BY <2>1, <3>1, PrefixReduces
    <3> QED
      BY <2>2, <3>2 DEF RecSound
  <2>3. CASE rec.seq = 0
    BY <2>1, <2>3 DEF RecSound
  <2> QED
    BY <2>1, <2>2, <2>3
<1>2. IInv => RecordedAddsUp
  BY <1>1 DEF RecordedAddsUp
<1> QED
  BY <1>2, Invariant, PTL

(* The daemon's answer never pairs a position with older background tasks   *)
(* of that run than the records had at the position, though it reads the    *)
(* two at different moments (projection.go:133-146, background.go:14-27,    *)
(* store.go:194-202).                                                       *)
THEOREM AnswersAreNeverBehind == Spec => []NeverBehind
<1>1. ASSUME IInv, view.at = "read"
      PROVE  \E n \in view.seq .. Len(full) :
                 view.tasks[view.run] = Reduce(Prefix(full, n)).tasks[view.run]
  <2> USE <1>1 DEF IInv, Sound
  <2>1. PICK n \in view.seq .. Len(full) :
            view.tasks[view.run] = Reductions(full)[n].tasks[view.run]
    BY DEF ViewSound, Told
  <2>2. n \in 0 .. Len(full) /\ full \in Seq(Event)
    BY DEF TypeOK
  <2>3. Reduce(Prefix(full, n)) = Reductions(full)[n]
    BY <2>2, PrefixReduces
  <2> QED
    BY <2>1, <2>3
<1>2. IInv => NeverBehind
  BY <1>1 DEF NeverBehind
<1> QED
  BY <1>2, Invariant, PTL
=============================================================================
