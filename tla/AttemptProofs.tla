---------------------------- MODULE AttemptProofs ----------------------------
(***************************************************************************)
(* The attempts of any suite, in any number of runs into one directory,     *)
(* with any number of faults, of other clients' turns and of rollovers.     *)
(* The inductive invariant is                                              *)
(*   Typed     the types of what the run works on; Others, of the rest      *)
(*   UnderWay  an attempt under way is one of those selected                *)
(*   Beside    whose transcripts the files of this run's rows hold          *)
(*   Counted   the counter advanced by what the turn spent, at least        *)
(*   Earned    what a row that still passes has shown so far                *)
(*   Paid      the rows and the attempt under way charge what was spent     *)
(*   Explained a row without a kind is one that its checkers judged         *)
(***************************************************************************)
EXTENDS Attempt, Sums

Points == {"off", "create", "snapshot", "turn", "route", "check", "cost", "row"}

RowRecord ==
  [verdict : Verdicts \cup {Blank}, kind : ErrorKinds, passed : BOOLEAN,
   pending : SUBSET Nat, cost : Nat, snapshot : BOOLEAN, judged : BOOLEAN, wrote : BOOLEAN]

FileRow ==
  [task : Nat, attempt : 1..Attempts, run : 1..MaxRuns, nth : Nat,
   passed : BOOLEAN, kind : ErrorKinds, cost : Nat, snapshot : BOOLEAN,
   judged : BOOLEAN, wrote : BOOLEAN]

UnderWay == pc # "off" => runs # 0 /\ made < Len(selected) * Attempts

Typed ==
  /\ pc \in Points /\ runs \in 0..MaxRuns /\ made \in Nat
  /\ row \in RowRecord
  /\ rows \in Seq(FileRow)
  /\ transcripts \in [Files -> (0..MaxRuns) \X Nat]
  /\ used \in Nat /\ own \in Nat /\ before \in Nat \cup {NoStatus}

(* The writes of a turn are looked at once. *)
Worked == pc = "check" => work \in Works

(* The file of the m-th attempt is that of the n-th, and the n-th wrote it. *)
WrittenBy(m, n) ==
  File(Nth(n)) = File(Nth(m)) /\ transcripts[File(Nth(n))] = <<runs, n>>

Beside ==
  /\ pc \in {"check", "cost", "row"} /\ row.wrote => transcripts[File(Name)] = <<runs, made>>
  /\ \A k \in 1..Len(rows) :
       /\ rows[k].run <= runs
       /\ rows[k].run = runs => rows[k].nth < made
       /\ \A m \in Nat : rows[k].run = runs /\ rows[k].wrote /\ rows[k].nth = m =>
            \E n \in m..made : WrittenBy(m, n) /\ (pc = "off" => n # made)

-----------------------------------------------------------------------------
LEMMA Quotient ==
  ASSUME NEW n \in Nat, NEW a \in Nat \ {0}, NEW l \in Nat, n < l * a
  PROVE  n \div a \in 0..(l - 1) /\ n % a \in 0..(a - 1)
<1> DEFINE q == n \div a
<1>1. q \in Int /\ n % a \in 0..(a - 1) /\ n = a * q + (n % a)
  OBVIOUS
<1> QED BY <1>1

(* The attempt under way is one of the suite's. *)
LEMMA NameInNames ==
  ASSUME Typed, UnderWay, pc # "off"
  PROVE  /\ Name = <<Name[1], Name[2]>> /\ File(Name) \in Files
         /\ Name[1] \in DOMAIN Suite /\ Name[2] \in 1..Attempts /\ task \in Task
         /\ task.id \in Nat /\ runs \in 1..MaxRuns
<1>1. runs \in 1..MaxRuns /\ MaxRuns \in Nat /\ Attempts \in Nat \ {0} /\ made \in Nat
  BY AttemptAssumption DEF Typed, UnderWay, MaxRuns
<1>2. selected \in Seq(DOMAIN Suite) /\ Len(selected) \in Nat
  BY <1>1, AttemptAssumption DEF selected, MaxRuns
<1>3. /\ made \div Attempts \in 0..(Len(selected) - 1)
      /\ made % Attempts \in 0..(Attempts - 1)
  BY <1>1, <1>2, Quotient DEF UnderWay
<1>4. Name[1] \in DOMAIN Suite
  <2>1. (made \div Attempts) + 1 \in 1..Len(selected)
    BY <1>2, <1>3
  <2> QED BY <1>2, <2>1 DEF Name, Nth
<1>5. Name[2] \in 1..Attempts /\ Name = <<Name[1], Name[2]>>
  <2>1. (made % Attempts) + 1 \in 1..Attempts
    BY <1>1, <1>3
  <2> QED BY <2>1 DEF Name, Nth
<1>6. task \in Task
  BY <1>4, AttemptAssumption DEF task
<1>7. task.id \in Nat
  BY <1>6 DEF Task
<1>8. File(Name) \in Files
  <2>1. Name \in (DOMAIN Suite) \X (1..Attempts)
    BY <1>4, <1>5
  <2> QED BY <2>1 DEF Files
<1> QED BY <1>1, <1>4, <1>5, <1>6, <1>7, <1>8

(* While an attempt is under way its name and its task stay. *)
LEMMA SameName ==
  ASSUME UNCHANGED <<runs, made>>
  PROVE  Name' = Name /\ task' = task /\ selected' = selected
  BY DEF Name, Nth, task, selected

(* What a step that writes no file keeps of a run. *)
LEMMA SameWriter ==
  ASSUME UNCHANGED <<runs, transcripts>>, NEW m, NEW n
  PROVE  WrittenBy(m, n)' <=> WrittenBy(m, n)
  BY DEF WrittenBy, File, Nth, selected

LEMMA ErrRowTyped ==
  ASSUME NEW kind \in {"timeout", "error"}, NEW ok \in BOOLEAN
  PROVE  /\ ErrRow(kind, ok) \in RowRecord
         /\ ErrRow(kind, ok).wrote = ok /\ ~ErrRow(kind, ok).passed /\ ~ErrRow(kind, ok).snapshot
  BY DEF ErrRow, NoRow, RowRecord, Verdicts, ErrorKinds

LEMMA WriteTyped ==
  ASSUME Typed, UnderWay, pc # "off", NEW ok \in BOOLEAN, WriteTranscript(ok)
  PROVE  /\ transcripts' \in [Files -> (0..MaxRuns) \X Nat]
         /\ ok => transcripts'[File(Name)] = <<runs, made>>
         /\ \A f : f # File(Name) => transcripts'[f] = transcripts[f]
         /\ transcripts'[File(Name)] \in {transcripts[File(Name)], <<runs, made>>}
<1>1. /\ transcripts \in [Files -> (0..MaxRuns) \X Nat] /\ File(Name) \in Files
      /\ <<runs, made>> \in (0..MaxRuns) \X Nat
  BY NameInNames DEF Typed
<1> QED BY <1>1 DEF WriteTranscript

-----------------------------------------------------------------------------
(* The events of one call: all are its own, they complete only a write that *)
(* is direct or misread, and show staging only if its result tells.        *)
LEMMA EventsOfCall ==
  ASSUME NEW id, NEW c \in CallKinds
  PROVE  /\ Events(id, c) \in Seq([id : {id}, tool : {c.tool}, complete : BOOLEAN, evidence : BOOLEAN])
         /\ Len(Events(id, c)) \in Nat \ {0}
         /\ (\E j \in DOMAIN Events(id, c) : Events(id, c)[j].complete)
              <=> c.tool = "file_write" /\ (c.misread \/ c.direct)
         /\ (\E j \in DOMAIN Events(id, c) :
               Events(id, c)[j].evidence /\ ~Events(id, c)[j].complete)
              <=> ~c.direct /\ c.tells
<1> DEFINE E(complete, evidence) ==
             [id |-> id, tool |-> c.tool, complete |-> complete, evidence |-> evidence]
           T == [id : {id}, tool : {c.tool}, complete : BOOLEAN, evidence : BOOLEAN]
           last == E(FALSE, ~c.direct /\ c.tells)
           s == Events(id, c)
<1>0. c.direct \in BOOLEAN /\ c.tells \in BOOLEAN /\ c.misread \in BOOLEAN /\ c.tool \in Tools
  BY DEF CallKinds
<1>1. \A x \in BOOLEAN, y \in BOOLEAN : E(x, y) \in T /\ E(x, y).complete = x /\ E(x, y).evidence = y
  OBVIOUS
<1> DEFINE begin == E(c.misread, FALSE)
           done == E(TRUE, FALSE)
<1>2. /\ last \in T /\ ~last.complete /\ last.evidence = (~c.direct /\ c.tells)
      /\ begin \in T /\ begin.complete = c.misread /\ ~begin.evidence
      /\ done \in T /\ done.complete /\ ~done.evidence
  BY <1>0, <1>1
<1>3. s = IF c.tool = "file_edit" THEN <<last>>
          ELSE IF c.direct THEN <<begin, done, last>> ELSE <<begin, last>>
  BY DEF Events
<1> HIDE DEF E, T, s, last, begin, done
<1>4. CASE c.tool # "file_write"
  <2>1. s = <<last>>
    BY <1>0, <1>3, <1>4 DEF Tools
  <2>2. s \in Seq(T) /\ Len(s) = 1 /\ DOMAIN s = 1..1 /\ s[1] = last
    BY <1>2, <2>1
  <2>3. \A j \in DOMAIN s : s[j] = last
    BY <2>2
  <2> QED BY <1>2, <1>4, <2>2, <2>3 DEF s, T
<1>5. CASE c.tool = "file_write" /\ c.direct
  <2>1. s = <<begin, done, last>>
    BY <1>3, <1>5
  <2>2. /\ s \in Seq(T) /\ Len(s) = 3 /\ DOMAIN s = 1..3
        /\ s[1] = begin /\ s[2] = done /\ s[3] = last
    BY <1>2, <2>1
  <2>3. (\A j \in DOMAIN s : s[j] \in {begin, done, last}) /\ {1, 2, 3} \subseteq DOMAIN s
    BY <2>2
  <2> QED BY <1>0, <1>2, <1>5, <2>2, <2>3 DEF s, T
<1>6. CASE c.tool = "file_write" /\ ~c.direct
  <2>1. s = <<begin, last>>
    BY <1>3, <1>6
  <2>2. /\ s \in Seq(T) /\ Len(s) = 2 /\ DOMAIN s = 1..2 /\ s[1] = begin /\ s[2] = last
    BY <1>2, <2>1
  <2>3. (\A j \in DOMAIN s : s[j] \in {begin, last}) /\ {1, 2} \subseteq DOMAIN s
    BY <2>2
  <2> QED BY <1>0, <1>2, <1>6, <2>2, <2>3 DEF s, T
<1> QED BY <1>4, <1>5, <1>6

(* A trace is made of the events of its calls, all of them. *)
LEMMA TraceOfCalls ==
  ASSUME NEW w \in Seq(CallKinds), NEW t \in Traces(w)
  PROVE  /\ \E n \in Nat : DOMAIN t = 1..n
         /\ \A i \in DOMAIN t : \E id \in DOMAIN w :
              \E j \in DOMAIN Events(id, w[id]) : t[i] = Events(id, w[id])[j]
         /\ \A id \in DOMAIN w : \A j \in DOMAIN Events(id, w[id]) :
              \E i \in DOMAIN t : t[i] = Events(id, w[id])[j]
<1> DEFINE events == [id \in DOMAIN w |-> Events(id, w[id])]
           lens == [id \in DOMAIN w |-> Len(events[id])]
           n == SumFunction(lens)
           places == 1..n
           At(o, i) == events[o[i]][1 + Quantify(1..(i - 1), LAMBDA m : o[m] = o[i])]
<1>1. n \in Nat
  <2>1. IsFiniteSet(DOMAIN w)
    BY FS_Interval
  <2>2. \A id \in DOMAIN w : lens[id] \in Nat
    BY EventsOfCall
  <2>3. DOMAIN lens = DOMAIN w
    OBVIOUS
  <2> HIDE DEF lens
  <2> QED BY <2>1, <2>2, <2>3, SumNat DEF SumFunction
<1>2. PICK o \in [places -> DOMAIN w] :
        /\ \A id \in DOMAIN w : Quantify(places, LAMBDA i : o[i] = id) = Len(events[id])
        /\ t = [i \in places |-> At(o, i)]
  BY DEF Traces
<1> DEFINE Own(id) == {i \in places : o[i] = id}
           R(id) == {r \in Own(id) \X Own(id) : r[1] < r[2]}
<1>3. ASSUME NEW id \in DOMAIN w
      PROVE  /\ IsFiniteSet(Own(id)) /\ Cardinality(Own(id)) = Len(events[id])
             /\ TotalOrder(Own(id), R(id))
             /\ \A i \in Own(id) : At(o, i) = events[id][1 + Rank(Own(id), R(id), i)]
  <2>1. IsFiniteSet(places)
    BY <1>1, FS_Interval
  <2>2. IsFiniteSet(Own(id))
    BY <2>1, FS_Subset
  <2>3. Cardinality(Own(id)) = Len(events[id])
    BY <1>2 DEF Quantify
  <2>4. TotalOrder(Own(id), R(id))
    <3>1. Own(id) \in SUBSET Nat
      BY <1>1
    <3> HIDE DEF Own
    <3> QED BY <3>1 DEF TotalOrder
  <2>5. ASSUME NEW i \in Own(id)
        PROVE  At(o, i) = events[id][1 + Rank(Own(id), R(id), i)]
    <3>1. {m \in 1..(i - 1) : o[m] = o[i]} = {m \in Own(id) : <<m, i>> \in R(id)}
      BY <1>1
    <3> QED BY <3>1 DEF Quantify, Rank
  <2> QED BY <2>2, <2>3, <2>4, <2>5
<1>4. \A id \in DOMAIN w : DOMAIN events[id] = 1..Len(events[id]) /\ Len(events[id]) \in Nat
  BY EventsOfCall
<1>5. ASSUME NEW id \in DOMAIN w
      PROVE  /\ \A i \in Own(id) : \E j \in DOMAIN events[id] : t[i] = events[id][j]
             /\ \A j \in DOMAIN events[id] : \E i \in Own(id) : t[i] = events[id][j]
  <2> DEFINE S == Own(id)
             rank == [i \in S |-> Rank(S, R(id), i)]
             k == Len(events[id])
  <2>1. rank \in Bijection(S, 0..(k - 1))
    BY <1>3, Ranks
  <2>2. \A i \in S : t[i] = events[id][1 + rank[i]]
    BY <1>2, <1>3
  <2>3. DOMAIN events[id] = 1..k /\ k \in Nat
    BY <1>4
  <2> HIDE DEF rank, S, k, events
  <2>4. \A i \in S : 1 + rank[i] \in 1..k
    BY <2>1, <2>3 DEF Bijection, Injection
  <2>5. \A j \in 1..k : \E i \in S : 1 + rank[i] = j
    <3>1. \A j \in 1..k : j - 1 \in 0..(k - 1) /\ 1 + (j - 1) = j
      BY <2>3
    <3>2. \A j \in 0..(k - 1) : \E i \in S : rank[i] = j
      BY <2>1 DEF Bijection, Surjection
    <3> QED BY <3>1, <3>2
  <2> QED BY <2>2, <2>3, <2>4, <2>5 DEF S
<1>6. DOMAIN t = places
  BY <1>2
<1>7. \A id \in DOMAIN w : events[id] = Events(id, w[id])
  OBVIOUS
<1> HIDE DEF n, events, At
<1>8. \A i \in DOMAIN t : o[i] \in DOMAIN w /\ i \in Own(o[i])
  BY <1>2, <1>6
<1>9. \A id \in DOMAIN w : Own(id) \subseteq DOMAIN t
  BY <1>6
<1> HIDE DEF Own, R, places
<1>10. \E k \in Nat : DOMAIN t = 1..k
  BY <1>1, <1>6 DEF places
<1>11. ASSUME NEW i \in DOMAIN t
       PROVE  \E id \in DOMAIN w : \E j \in DOMAIN Events(id, w[id]) : t[i] = Events(id, w[id])[j]
  <2>1. \E j \in DOMAIN events[o[i]] : t[i] = events[o[i]][j]
    BY <1>5, <1>8
  <2> QED BY <1>7, <1>8, <2>1
<1>12. ASSUME NEW id \in DOMAIN w, NEW j \in DOMAIN Events(id, w[id])
       PROVE  \E i \in DOMAIN t : t[i] = Events(id, w[id])[j]
  <2>1. \E i \in Own(id) : t[i] = events[id][j]
    BY <1>5, <1>7
  <2> QED BY <1>7, <1>9, <2>1
<1> QED BY <1>10, <1>11, <1>12

(* What detectPendingWrites counts as pending, whatever the trace: the calls *)
(* that staged a write and let it be seen.                                 *)
LEMMA CallsSeen ==
  ASSUME NEW w \in Seq(CallKinds), NEW t \in Traces(w)
  PROVE  /\ {t[k].id : k \in DOMAIN t} = DOMAIN w
         /\ \A id \in DOMAIN w :
              /\ CallEvents(t, id) # {}
              /\ Staged(t, id) <=> ~w[id].direct /\ w[id].tells
              /\ Staged(t, id) \/ NeverCompleted(t, id) <=> id \in StagedWrites(w)
<1>1. PICK n \in Nat : DOMAIN t = 1..n
  BY TraceOfCalls
<1>2. /\ \A i \in DOMAIN t : \E id \in DOMAIN w :
           \E j \in DOMAIN Events(id, w[id]) : t[i] = Events(id, w[id])[j]
      /\ \A id \in DOMAIN w : \A j \in DOMAIN Events(id, w[id]) :
           \E i \in DOMAIN t : t[i] = Events(id, w[id])[j]
  BY TraceOfCalls
<1>3. \A id \in DOMAIN w : w[id] \in CallKinds
  OBVIOUS
<1>4. \A id \in DOMAIN w : \A j \in DOMAIN Events(id, w[id]) :
        Events(id, w[id])[j].id = id /\ Events(id, w[id])[j].tool = w[id].tool
  <2> SUFFICES ASSUME NEW id \in DOMAIN w, NEW j \in DOMAIN Events(id, w[id])
               PROVE  Events(id, w[id])[j].id = id /\ Events(id, w[id])[j].tool = w[id].tool
    OBVIOUS
  <2> DEFINE T == [id : {id}, tool : {w[id].tool}, complete : BOOLEAN, evidence : BOOLEAN]
             s == Events(id, w[id])
  <2>1. s \in Seq(T)
    BY <1>3, EventsOfCall
  <2>0. j \in DOMAIN s
    OBVIOUS
  <2>2. s[j] \in T
    <3> HIDE DEF s, T
    <3> QED BY <2>0, <2>1
  <2> QED BY <2>2
<1>5. ASSUME NEW id \in DOMAIN w
      PROVE  /\ \A k \in CallEvents(t, id) : \E j \in DOMAIN Events(id, w[id]) : t[k] = Events(id, w[id])[j]
             /\ \A j \in DOMAIN Events(id, w[id]) : \E k \in CallEvents(t, id) : t[k] = Events(id, w[id])[j]
  <2>1. ASSUME NEW k \in CallEvents(t, id)
        PROVE  \E j \in DOMAIN Events(id, w[id]) : t[k] = Events(id, w[id])[j]
    <3>1. k \in DOMAIN t /\ t[k].id = id
      BY DEF CallEvents
    <3>2. PICK other \in DOMAIN w : \E j \in DOMAIN Events(other, w[other]) : t[k] = Events(other, w[other])[j]
      BY <1>2, <3>1
    <3>3. other = id
      BY <1>4, <3>1, <3>2
    <3> QED BY <3>2, <3>3
  <2>2. ASSUME NEW j \in DOMAIN Events(id, w[id])
        PROVE  \E k \in CallEvents(t, id) : t[k] = Events(id, w[id])[j]
    BY <1>2, <1>4 DEF CallEvents
  <2> QED BY <2>1, <2>2
<1>6. ASSUME NEW id \in DOMAIN w
      PROVE  /\ CallEvents(t, id) # {} /\ CallEvents(t, id) \subseteq 1..n
             /\ Staged(t, id) <=> ~w[id].direct /\ w[id].tells
             /\ (\E k \in CallEvents(t, id) : t[k].complete)
                  <=> w[id].tool = "file_write" /\ (w[id].misread \/ w[id].direct)
             /\ \A k \in CallEvents(t, id) : t[k].tool = w[id].tool
  <2> DEFINE s == Events(id, w[id])
             S == CallEvents(t, id)
  <2>1. /\ \E j \in DOMAIN s : TRUE
        /\ (\E j \in DOMAIN s : s[j].complete)
              <=> w[id].tool = "file_write" /\ (w[id].misread \/ w[id].direct)
        /\ (\E j \in DOMAIN s : s[j].evidence /\ ~s[j].complete) <=> ~w[id].direct /\ w[id].tells
    <3> DEFINE T == [id : {id}, tool : {w[id].tool}, complete : BOOLEAN, evidence : BOOLEAN]
    <3>1. s \in Seq(T) /\ Len(s) \in Nat \ {0}
      BY <1>3, EventsOfCall
    <3>2. 1 \in DOMAIN s
      <4> HIDE DEF s
      <4> QED BY <3>1
    <3>3. w[id] \in CallKinds
      BY <1>3
    <3>4. /\ (\E j \in DOMAIN s : s[j].complete)
               <=> w[id].tool = "file_write" /\ (w[id].misread \/ w[id].direct)
          /\ (\E j \in DOMAIN s : s[j].evidence /\ ~s[j].complete) <=> ~w[id].direct /\ w[id].tells
      BY <3>3, EventsOfCall
    <3> HIDE DEF s
    <3> QED BY <3>2, <3>4
  <2>2. /\ \A k \in S : \E j \in DOMAIN s : t[k] = s[j]
        /\ \A j \in DOMAIN s : \E k \in S : t[k] = s[j]
    BY <1>5
  <2>3. S \subseteq 1..n
    BY <1>1 DEF CallEvents
  <2>4. \A j \in DOMAIN s : s[j].tool = w[id].tool
    BY <1>4
  <2>5. Staged(t, id) <=> \E k \in S : t[k].evidence /\ ~t[k].complete
    BY DEF Staged
  <2> HIDE DEF s, S
  <2>6. S # {} /\ \A k \in S : t[k].tool = w[id].tool
    BY <2>1, <2>2, <2>4
  <2>7. (\E k \in S : t[k].complete) <=> \E j \in DOMAIN s : s[j].complete
    BY <2>2
  <2>8. (\E k \in S : t[k].evidence /\ ~t[k].complete)
          <=> \E j \in DOMAIN s : s[j].evidence /\ ~s[j].complete
    BY <2>2
  <2> QED BY <2>1, <2>3, <2>5, <2>6, <2>7, <2>8 DEF S
<1>7. ASSUME NEW id \in DOMAIN w
      PROVE  Staged(t, id) \/ NeverCompleted(t, id) <=> id \in StagedWrites(w)
  <2>1. Max(CallEvents(t, id)) \in CallEvents(t, id)
    <3>1. CallEvents(t, id) \in SUBSET (0..n) /\ CallEvents(t, id) # {}
      BY <1>6
    <3> QED BY <3>1, MaxIsGreatest
  <2>2. t[Max(CallEvents(t, id))].tool = w[id].tool
    BY <1>6, <2>1
  <2>3. w[id].tool \in {"file_write", "file_edit"}
    BY <1>3 DEF CallKinds, Tools
  <2> QED BY <1>6, <2>2, <2>3 DEF NeverCompleted, StagedWrites
<1>8. {t[k].id : k \in DOMAIN t} = DOMAIN w
  <2>1. \A k \in DOMAIN t : t[k].id \in DOMAIN w
    BY <1>2, <1>4
  <2>2. \A id \in DOMAIN w : \E k \in DOMAIN t : t[k].id = id
    BY <1>6 DEF CallEvents
  <2> QED BY <2>1, <2>2
<1> QED BY <1>6, <1>7, <1>8

(* Whatever the trace: the calls that are reported are visible ones, and as *)
(* many of them as there is room for.                                      *)
LEMMA Reported ==
  ASSUME NEW w \in Seq(CallKinds), NEW t \in Traces(w), MaxPendingWriteDetails \in Nat
  PROVE  /\ DetectPendingWrites(t) \subseteq StagedWrites(w)
         /\ Cardinality(DetectPendingWrites(t))
              = IF Cardinality(StagedWrites(w)) <= MaxPendingWriteDetails
                THEN Cardinality(StagedWrites(w)) ELSE MaxPendingWriteDetails
<1> DEFINE First(id) == Min(CallEvents(t, id))
           S == StagedWrites(w)
           Ahead(a, b) == \/ Staged(t, a) /\ ~Staged(t, b)
                          \/ (Staged(t, a) <=> Staged(t, b)) /\ First(a) < First(b)
           R == {r \in S \X S : Ahead(r[1], r[2])}
<1>1. S \subseteq DOMAIN w /\ IsFiniteSet(S)
  <2>1. IsFiniteSet(DOMAIN w)
    BY FS_Interval
  <2> QED BY <2>1, FS_Subset DEF StagedWrites
<1>2. S = {id \in {t[k].id : k \in DOMAIN t} : Staged(t, id) \/ NeverCompleted(t, id)}
  BY <1>1, CallsSeen
<1>3. ASSUME NEW id \in S PROVE First(id) \in CallEvents(t, id) /\ First(id) \in Nat
  <2>1. CallEvents(t, id) \in SUBSET Nat /\ CallEvents(t, id) # {}
    <3>1. CallEvents(t, id) # {}
      BY <1>1, CallsSeen
    <3>2. PICK n \in Nat : DOMAIN t = 1..n
      BY TraceOfCalls
    <3> QED BY <3>1, <3>2 DEF CallEvents
  <2> QED BY <2>1, MinIsLeast
<1>4. \A a, b \in S : a # b => First(a) # First(b)
  BY <1>3 DEF CallEvents
<1>5. TotalOrder(S, R)
  <2> HIDE DEF First, S
  <2>1. \A x \in S : ~Ahead(x, x)
    BY <1>3
  <2>2. \A x, y, z \in S : Ahead(x, y) /\ Ahead(y, z) => Ahead(x, z)
    BY <1>3
  <2>3. \A x, y \in S : x # y => Ahead(x, y) \/ Ahead(y, x)
    BY <1>3, <1>4
  <2>4. \A x, y \in S : <<x, y>> \in R <=> Ahead(x, y)
    OBVIOUS
  <2> HIDE DEF R, Ahead
  <2> QED BY <2>1, <2>2, <2>3, <2>4 DEF TotalOrder
<1>6. \A id \in S : Quantify(S, LAMBDA a : Ahead(a, id)) = Rank(S, R, id)
  <2> SUFFICES ASSUME NEW id \in S PROVE Quantify(S, LAMBDA a : Ahead(a, id)) = Rank(S, R, id)
    OBVIOUS
  <2>1. {a \in S : Ahead(a, id)} = {a \in S : <<a, id>> \in R}
    OBVIOUS
  <2> QED BY <2>1 DEF Quantify, Rank
<1>7. DetectPendingWrites(t) = {id \in S : Rank(S, R, id) < MaxPendingWriteDetails}
  <2>1. DetectPendingWrites(t) = {id \in S : Quantify(S, LAMBDA a : Ahead(a, id)) < MaxPendingWriteDetails}
    BY <1>2 DEF DetectPendingWrites
  <2> QED BY <1>6, <2>1
<1> HIDE DEF S, R
<1> QED BY <1>1, <1>5, <1>7, RanksBelow DEF S

(* What a row may report. *)
LEMMA PendingTyped ==
  ASSUME work \in Works, NEW pending \in Pending[work]
  PROVE  /\ pending \in SUBSET Nat /\ pending \subseteq StagedWrites(work)
         /\ Cardinality(pending)
              = Min({Cardinality(StagedWrites(work)), MaxPendingWriteDetails})
<1>1. work \in Seq(CallKinds) /\ MaxPendingWriteDetails \in Nat
  BY AttemptAssumption
<1>2. PICK t \in Traces(work) : pending = DetectPendingWrites(t)
  BY DEF Pending
<1> DEFINE n == Cardinality(StagedWrites(work))
<1>3. StagedWrites(work) \in SUBSET Nat /\ n \in Nat
  <2>1. IsFiniteSet(DOMAIN work) /\ DOMAIN work \subseteq Nat
    BY <1>1, FS_Interval
  <2>2. StagedWrites(work) \subseteq DOMAIN work
    BY DEF StagedWrites
  <2>3. IsFiniteSet(StagedWrites(work))
    BY <2>1, <2>2, FS_Subset
  <2> QED BY <2>1, <2>2, <2>3, FS_CardinalityType
<1>4. /\ pending \subseteq StagedWrites(work)
      /\ Cardinality(pending)
           = IF n <= MaxPendingWriteDetails THEN n ELSE MaxPendingWriteDetails
  BY <1>1, <1>2, Reported
<1> HIDE DEF n
<1>5. Min({n, MaxPendingWriteDetails}) = IF n <= MaxPendingWriteDetails THEN n
                                         ELSE MaxPendingWriteDetails
  <2> DEFINE S == {n, MaxPendingWriteDetails}
  <2>1. Min(S) \in S /\ \A y \in S : Min(S) <= y
    BY <1>1, <1>3, MinIsLeast
  <2> HIDE DEF S
  <2>2. S = {n, MaxPendingWriteDetails}
    BY DEF S
  <2> QED BY <1>1, <1>3, <2>1, <2>2
<1> QED BY <1>3, <1>4, <1>5 DEF n

-----------------------------------------------------------------------------
LEMMA InitAll == Init => Typed /\ UnderWay /\ Beside
<1> SUFFICES ASSUME Init PROVE Typed /\ UnderWay /\ Beside
  OBVIOUS
<1>1. MaxRuns \in Nat
  BY AttemptAssumption DEF MaxRuns
<1>2. NoRow \in RowRecord
  BY DEF NoRow, RowRecord, Verdicts, ErrorKinds
<1>3. row \in RowRecord
  BY <1>2 DEF Init
<1>4. /\ pc \in Points /\ runs \in 0..MaxRuns /\ made \in Nat /\ rows \in Seq(FileRow)
      /\ used \in Nat /\ own \in Nat /\ before \in Nat \cup {NoStatus}
  BY <1>1 DEF Init, Points
<1>5. transcripts \in [Files -> (0..MaxRuns) \X Nat]
  BY <1>1 DEF Init
<1> QED BY <1>3, <1>4, <1>5 DEF Init, Typed, UnderWay, Beside

(* A step that leaves the counts alone stays within the attempt. *)
LEMMA StepUnderWay == Typed /\ UnderWay /\ [Next]_vars => UnderWay'
<1> SUFFICES ASSUME Typed, UnderWay, [Next]_vars, pc' # "off" PROVE runs' # 0 /\ made' < Len(selected') * Attempts
  BY DEF UnderWay
<1>1. CASE Launch
  <2>1. runs' = runs + 1 /\ made' = 0 /\ runs' \in 1..MaxRuns /\ MaxRuns \in Nat
    BY <1>1, AttemptAssumption DEF Launch, Typed, MaxRuns
  <2>2. selected' \in Seq(DOMAIN Suite) /\ selected' # <<>>
    BY <2>1, AttemptAssumption DEF selected, MaxRuns
  <2>3. Len(selected') \in Nat \ {0}
    BY <2>2
  <2>4. \A l, a \in Nat \ {0} : 0 < l * a
    OBVIOUS
  <2> QED BY <2>1, <2>3, <2>4, AttemptAssumption
<1>2. CASE Row
  BY <1>2 DEF Row, GoTo, UnderWay, selected, Typed, Points
<1>3. CASE UNCHANGED <<runs, made>> /\ pc # "off"
  BY <1>3, SameName DEF UnderWay
<1> QED
  BY <1>1, <1>2, <1>3
     DEF Next, CreateErr, OpenErr, Open, Snapshot, Turn, TurnErr, Route, Check, Cost, Cancel,
         Traffic, Rollover, Finished, CounterMatters, suiteVars, vars

(* The verdict on the routing, and the kind of the row it makes. *)
LEMMA RouteTyped ==
  ASSUME NEW statuses
  PROVE  /\ RouteVerdict(statuses) \in {"pass", "fail", "error"}
         /\ RouteKind(RouteVerdict(statuses)) \in ErrorKinds
<1>1. RouteVerdict(statuses) \in {"pass", "fail", "error"}
  BY DEF RouteVerdict
<1>2. /\ RouteKind("pass") = "" /\ RouteKind("fail") = "routing_mismatch"
      /\ RouteKind("error") = "routing_evidence"
  BY DEF RouteKind
<1> QED BY <1>1, <1>2 DEF ErrorKinds

LEMMA StepTyped == Typed /\ UnderWay /\ Worked /\ [Next]_vars => Typed'
<1> SUFFICES ASSUME Typed, UnderWay, Worked, [Next]_vars PROVE Typed'
  OBVIOUS
<1>0. /\ pc \in Points /\ runs \in 0..MaxRuns /\ made \in Nat /\ row \in RowRecord
      /\ rows \in Seq(FileRow) /\ transcripts \in [Files -> (0..MaxRuns) \X Nat]
      /\ used \in Nat /\ own \in Nat /\ before \in Nat \cup {NoStatus}
  BY DEF Typed
<1> USE DEF GoTo, suiteVars, turnVars, daemonVars, fileVars
<1>1. CASE Launch
  <2>1. /\ runs' = runs + 1 /\ made' = 0 /\ pc' = "create" /\ runs < MaxRuns
        /\ UNCHANGED <<row, rows, transcripts, used, own, before>>
    BY <1>1 DEF Launch
  <2>2. MaxRuns \in Nat
    BY AttemptAssumption DEF MaxRuns
  <2> QED BY <1>0, <2>1, <2>2 DEF Typed, Points
<1>2. CASE CreateErr
  BY <1>0, <1>2, ErrRowTyped DEF CreateErr, Typed, Points
<1>3. CASE OpenErr
  <2>1. PICK ok \in BOOLEAN : FinishErr("error", ok)
    BY <1>3 DEF OpenErr
  <2>2. /\ pc = "create" /\ pc' = "row" /\ row' = ErrRow("error", ok) /\ WriteTranscript(ok)
        /\ UNCHANGED <<runs, made, rows, used, own, before>>
    BY <1>3, <2>1 DEF OpenErr, FinishErr
  <2>3. transcripts' \in [Files -> (0..MaxRuns) \X Nat]
    BY <2>2, WriteTyped
  <2> QED BY <1>0, <2>2, <2>3, ErrRowTyped DEF Typed, Points
<1>4. CASE Open
  BY <1>0, <1>4 DEF Open, Typed, Points
<1>5. CASE Snapshot
  BY <1>0, <1>5 DEF Snapshot, Typed, Points
<1>6. CASE Turn
  BY <1>0, <1>6 DEF Turn, Spend, Typed, Points
<1>7. CASE TurnErr
  <2>1. PICK kind \in {"timeout", "error"}, k \in 0..1, ok \in BOOLEAN :
          FinishErr(kind, ok) /\ Spend(k)
    BY <1>7 DEF TurnErr
  <2>2. /\ pc = "turn" /\ pc' = "row" /\ row' = ErrRow(kind, ok) /\ WriteTranscript(ok)
        /\ used' = used + k /\ own' = own + k /\ before' = NoStatus
        /\ UNCHANGED <<runs, made, rows>>
    BY <1>7, <2>1 DEF TurnErr, FinishErr, Spend
  <2>3. transcripts' \in [Files -> (0..MaxRuns) \X Nat]
    BY <2>2, WriteTyped
  <2>4. used' \in Nat /\ own' \in Nat
    BY <1>0, <2>2
  <2> QED BY <1>0, <2>2, <2>3, <2>4, ErrRowTyped DEF Typed, Points
<1>8. CASE Route
  <2>1. PICK ok \in BOOLEAN : \E statuses :
          /\ row' = [NoRow EXCEPT !.verdict = RouteVerdict(statuses),
                       !.kind = RouteKind(RouteVerdict(statuses)), !.wrote = ok,
                       !.passed = RouteVerdict(statuses) = "pass",
                       !.judged = RouteVerdict(statuses) = "pass"]
          /\ WriteTranscript(ok)
    BY <1>8 DEF Route
  <2>2. row' \in RowRecord
    <3>1. PICK v \in {"pass", "fail", "error"}, kind \in ErrorKinds :
            row' = [NoRow EXCEPT !.verdict = v, !.kind = kind, !.wrote = ok,
                                 !.passed = v = "pass", !.judged = v = "pass"]
      <4>1. PICK statuses :
              row' = [NoRow EXCEPT !.verdict = RouteVerdict(statuses),
                        !.kind = RouteKind(RouteVerdict(statuses)), !.wrote = ok,
                        !.passed = RouteVerdict(statuses) = "pass",
                        !.judged = RouteVerdict(statuses) = "pass"]
        BY <2>1
      <4> DEFINE v == RouteVerdict(statuses)
                 kind == RouteKind(v)
      <4>2. v \in {"pass", "fail", "error"} /\ kind \in ErrorKinds
        BY RouteTyped
      <4>3. row' = [NoRow EXCEPT !.verdict = v, !.kind = kind, !.wrote = ok,
                                 !.passed = v = "pass", !.judged = v = "pass"]
        BY <4>1
      <4> HIDE DEF v, kind
      <4> QED BY <4>2, <4>3
    <3> QED BY <3>1 DEF NoRow, RowRecord, Verdicts
  <2>3. pc = "route" /\ pc' = "check" /\ UNCHANGED <<runs, made, rows, used, own, before>>
    BY <1>8 DEF Route
  <2>4. transcripts' \in [Files -> (0..MaxRuns) \X Nat]
    BY <2>1, <2>3, WriteTyped
  <2> QED BY <1>0, <2>2, <2>3, <2>4 DEF Typed, Points
<1>9. CASE Check
  <2>1. PICK passed \in BOOLEAN, pending \in SUBSET Nat :
          row' = [row EXCEPT !.passed = passed,
                    !.verdict = IF row.verdict = "error" THEN "error"
                                ELSE IF passed THEN "pass" ELSE "fail",
                    !.pending = IF passed THEN {} ELSE pending]
    <3> DEFINE passed == row.passed /\ \A k \in DOMAIN task.checks : Passes(task.checks[k], seen')
    <3>1. passed \in BOOLEAN
      BY <1>0 DEF RowRecord
    <3>2. \A pending \in Pending[work] : pending \in SUBSET Nat
      BY <1>9, PendingTyped DEF Check, Worked
    <3> QED BY <1>9, <3>1, <3>2 DEF Check
  <2>2. row' \in RowRecord
    BY <1>0, <2>1 DEF RowRecord, Verdicts
  <2>3. pc' = "cost" /\ UNCHANGED <<runs, made, rows, transcripts, used, own, before>>
    BY <1>9 DEF Check
  <2> QED BY <1>0, <2>2, <2>3 DEF Typed, Points
<1>10. CASE Cost
  <2>1. Delta(before, used) \in Nat \/ before = NoStatus
    BY <1>0 DEF Delta
  <2>2. row' \in RowRecord
    BY <1>0, <1>10, <2>1 DEF Cost, RowRecord
  <2> QED BY <1>0, <1>10, <2>2 DEF Cost, Typed, Points
<1>11. CASE Row
  <2>1. task.id \in Nat /\ Name[2] \in 1..Attempts /\ runs \in 1..MaxRuns
    BY <1>11, NameInNames DEF Row
  <2>2. rows' \in Seq(FileRow)
    <3> DEFINE new == [task |-> task.id, attempt |-> Name[2], run |-> runs, nth |-> made,
                       passed |-> row.passed, kind |-> row.kind, cost |-> row.cost,
                       snapshot |-> row.snapshot, judged |-> row.judged, wrote |-> row.wrote]
    <3>1. new \in FileRow
      BY <1>0, <2>1 DEF FileRow, RowRecord
    <3>2. rows' = rows \/ rows' = Append(rows, new)
      BY <1>11 DEF Row
    <3> HIDE DEF new
    <3>3. \A S : S \in {FileRow} /\ new \in S /\ rows \in Seq(S) => Append(rows, new) \in Seq(S)
      OBVIOUS
    <3> QED BY <1>0, <3>1, <3>2, <3>3
  <2>3. NoRow \in RowRecord
    BY DEF NoRow, RowRecord, Verdicts, ErrorKinds
  <2>4. /\ pc' \in {"create", "off"} /\ runs' = runs /\ made' = made + 1 /\ row' = NoRow
        /\ before' = NoStatus /\ own' = 0 /\ UNCHANGED <<transcripts, used>>
    BY <1>11 DEF Row
  <2> QED BY <1>0, <2>2, <2>3, <2>4 DEF Typed, Points
<1>12. CASE Cancel \/ Traffic \/ Rollover
  BY <1>0, <1>12 DEF Cancel, Traffic, Rollover, Typed
<1>13. CASE UNCHANGED vars
  BY <1>0, <1>13 DEF vars, Typed
<1> QED
  BY <1>1, <1>2, <1>3, <1>4, <1>5, <1>6, <1>7, <1>8, <1>9, <1>10, <1>11, <1>12, <1>13
     DEF Next, Finished

-----------------------------------------------------------------------------
(* The types of the variables that Typed does not name. *)
Finding == [file : BOOLEAN, exit : BOOLEAN, scores : [1..2 -> Nat \cup {JudgeErr}]]

Others ==
  /\ cancelled \in BOOLEAN /\ fresh \in BOOLEAN /\ rolled \in BOOLEAN
  /\ routed \in Entry /\ log \in Seq(Entry)
  /\ work \in Works \cup {<<>>} /\ Worked
  /\ seen \in Finding /\ spent \in Nat
  /\ traffic \in 0..MaxTraffic /\ rollovers \in 0..MaxRollovers /\ faults \in 0..MaxFaults

(* However many of its causes are faults, a step stays within the bound. *)
LEMMA UnlessTyped ==
  ASSUME Others, NEW n \in Nat, NEW causes, DOMAIN causes = 1..n, Unless(causes)
  PROVE  faults' \in 0..MaxFaults
<1> DEFINE bad == {k \in DOMAIN causes : ~causes[k]}
<1>1. IsFiniteSet(1..n)
  BY FS_Interval
<1>2. Cardinality(bad) \in Nat
  BY <1>1, FS_Subset, FS_CardinalityType
<1> HIDE DEF bad
<1>3. faults' = faults + Cardinality(bad) /\ faults' <= MaxFaults
  BY DEF Unless, Quantify, bad
<1> QED BY <1>2, <1>3, AttemptAssumption DEF Others

LEMMA NotSeenTyped == NotSeen \in Finding /\ NoRoute \in Entry
  BY DEF NotSeen, Finding, NoRoute, Entry

LEMMA Bounds == MaxTraffic \in Nat /\ MaxRollovers \in Nat /\ MaxFaults \in Nat
  BY AttemptAssumption

LEMMA InitOthers == Init => Others
<1> SUFFICES ASSUME Init PROVE Others
  OBVIOUS
<1>1. work \in Works \cup {<<>>} /\ log \in Seq(Entry) /\ Worked
  BY DEF Init, Worked
<1>2. seen \in Finding /\ routed \in Entry
  BY NotSeenTyped DEF Init
<1>3. cancelled \in BOOLEAN /\ fresh \in BOOLEAN /\ rolled \in BOOLEAN
  BY DEF Init
<1>4. /\ spent \in Nat /\ traffic \in 0..MaxTraffic /\ rollovers \in 0..MaxRollovers
      /\ faults \in 0..MaxFaults
  BY Bounds DEF Init
<1> QED BY <1>1, <1>2, <1>3, <1>4 DEF Others

LEMMA StepOthers == Typed /\ UnderWay /\ Others /\ [Next]_vars => Others'
<1> SUFFICES ASSUME Typed, UnderWay, Others, [Next]_vars PROVE Others'
  OBVIOUS
<1> USE DEF GoTo, suiteVars, turnVars, daemonVars, fileVars, Worked
<1>0. /\ \A x : DOMAIN <<x>> = 1..1
      /\ \A x, y : DOMAIN <<x, y>> = 1..2
  OBVIOUS
<1>1. CASE Launch
  BY <1>1 DEF Launch, Others
<1>2. CASE CreateErr
  BY <1>0, <1>2, UnlessTyped DEF CreateErr, Others
<1>3. CASE OpenErr
  <2>1. PICK ok \in BOOLEAN : Unless(<<cancelled, ok>>) /\ pc' = "row"
    BY <1>3 DEF OpenErr, FinishErr
  <2>2. faults' \in 0..MaxFaults
    BY <1>0, <2>1, UnlessTyped
  <2> QED BY <1>3, <2>1, <2>2 DEF OpenErr, Others
<1>4. CASE Open
  BY <1>0, <1>4, UnlessTyped DEF Open, Others
<1>5. CASE Snapshot
  <2>1. faults' \in 0..MaxFaults
    BY <1>0, <1>5, UnlessTyped DEF Snapshot, Others
  <2> QED BY <1>5, <2>1 DEF Snapshot, Others
<1>6. CASE Turn
  <2>1. faults' \in 0..MaxFaults
    BY <1>0, <1>6, UnlessTyped DEF Turn, Others
  <2>2. routed' \in Entry
    BY <1>6 DEF Turn, Entry
  <2>3. log' \in Seq(Entry)
    <3>1. ASSUME NEW e \in Entry, NEW f \in Entry PROVE <<>> \in Seq(Entry) /\ <<e>> \in Seq(Entry) /\ <<e, f>> \in Seq(Entry)
      OBVIOUS
    <3> DEFINE bad == [routed' EXCEPT !.ok = FALSE]
               blank == [routed' EXCEPT !.method = Blank]
    <3>2. bad \in Entry /\ blank \in Entry
      BY <2>2 DEF Entry
    <3>3. \A a \in Agents : [routed' EXCEPT !.agent = a] \in Entry
      BY <2>2 DEF Entry
    <3> HIDE DEF bad, blank
    <3>4. BadLogs(routed') \subseteq Seq(Entry)
      BY <2>2, <3>1, <3>2 DEF BadLogs, bad, blank
    <3>5. Logs(routed') \subseteq Seq(Entry)
      BY <2>2, <3>1, <3>3 DEF Logs
    <3> QED BY <1>6, <3>4, <3>5 DEF Turn
  <2> QED BY <1>6, <2>1, <2>2, <2>3 DEF Turn, Spend, Others
<1>7. CASE TurnErr
  <2>1. PICK k \in 0..1, ok \in BOOLEAN : Unless(<<ok>>) /\ Spend(k) /\ pc' = "row"
    BY <1>7 DEF TurnErr, FinishErr
  <2>2. faults' \in 0..MaxFaults
    BY <1>0, <2>1, UnlessTyped
  <2>3. spent' \in Nat
    BY <2>1 DEF Spend, Others
  <2> QED BY <1>7, <2>1, <2>2, <2>3 DEF TurnErr, Others
<1>8. CASE Route
  <2>1. PICK answered, ok \in BOOLEAN : Unless(<<answered \/ cancelled, ok>>)
    BY <1>8 DEF Route
  <2>2. faults' \in 0..MaxFaults
    BY <1>0, <2>1, UnlessTyped
  <2>3. /\ log' = <<>> /\ fresh' = FALSE /\ work' \in Works
        /\ UNCHANGED <<cancelled, rolled, routed, seen, spent, traffic, rollovers>>
    BY <1>8 DEF Route
  <2>4. log' \in Seq(Entry)
    BY <2>3
  <2> QED BY <2>2, <2>3, <2>4 DEF Others
<1>9. CASE Check
  <2>1. seen' \in Finding
    <3>1. (IF Uses("llm_judge") /\ ~cancelled THEN Scores ELSE {NotSeen.scores})
            \subseteq [1..2 -> Nat \cup {JudgeErr}]
      BY NotSeenTyped, AttemptAssumption DEF Finding
    <3>2. seen' \in Findings
      BY <1>9 DEF Check
    <3> QED BY <3>1, <3>2 DEF Findings, Finding
  <2> QED BY <1>9, <2>1 DEF Check, Others
<1>10. CASE Cost
  <2>1. faults' \in 0..MaxFaults
    BY <1>0, <1>10, UnlessTyped DEF Cost, Others
  <2> QED BY <1>10, <2>1, NotSeenTyped DEF Cost, Others
<1>11. CASE Row
  <2>1. PICK ok \in BOOLEAN : Unless(<<ok>>)
    BY <1>11 DEF Row
  <2>2. faults' \in 0..MaxFaults
    BY <1>0, <2>1, UnlessTyped
  <2>3. cancelled' \in BOOLEAN /\ pc' \in {"create", "off"}
    BY <1>11 DEF Row, Others
  <2> QED BY <1>11, <2>2, <2>3 DEF Row, Others
<1>12. CASE Cancel \/ Traffic \/ Rollover
  <2>1. CASE Cancel
    BY <2>1 DEF Cancel, Others
  <2>2. CASE Traffic
    BY <2>2, Bounds DEF Traffic, Others
  <2>3. CASE Rollover
    BY <2>3, Bounds DEF Rollover, Others
  <2> QED BY <1>12, <2>1, <2>2, <2>3
<1>13. CASE UNCHANGED vars
  BY <1>13 DEF vars, Others
<1> QED
  BY <1>1, <1>2, <1>3, <1>4, <1>5, <1>6, <1>7, <1>8, <1>9, <1>10, <1>11, <1>12, <1>13
     DEF Next, Finished

-----------------------------------------------------------------------------
(* Nobody but an attempt whose file has the same name writes over one. *)
LEMMA StepBeside == Typed /\ UnderWay /\ Beside /\ [Next]_vars => Beside'
<1> SUFFICES ASSUME Typed, UnderWay, Beside, [Next]_vars PROVE Beside'
  OBVIOUS
<1>0. /\ rows \in Seq(FileRow) /\ runs \in Nat /\ made \in Nat /\ row \in RowRecord
      /\ pc \in Points
      /\ \A k \in 1..Len(rows) : rows[k].run \in Nat /\ rows[k].nth \in Nat
  <2>1. rows \in Seq(FileRow) /\ runs \in Nat /\ made \in Nat /\ row \in RowRecord /\ pc \in Points
    BY AttemptAssumption DEF Typed, MaxRuns
  <2>2. \A k \in 1..Len(rows) : rows[k] \in FileRow
    BY <2>1
  <2>3. \A r \in FileRow : r.run \in Nat /\ r.nth \in Nat
    BY AttemptAssumption DEF FileRow, MaxRuns
  <2> QED BY <2>1, <2>2, <2>3
<1> USE DEF GoTo, suiteVars, fileVars
(* A file is written, in this step or not: a row whose file it is has the   *)
(* transcript of this attempt now, the other rows keep theirs.              *)
<1>1. ASSUME NEW ok \in BOOLEAN, WriteTranscript(ok), pc # "off", pc' # "off", row'.wrote = ok,
             UNCHANGED <<runs, made, rows>>
      PROVE  Beside'
  <2>1. /\ ok => transcripts'[File(Name)] = <<runs, made>>
        /\ \A f : f # File(Name) => transcripts'[f] = transcripts[f]
        /\ transcripts'[File(Name)] \in {transcripts[File(Name)], <<runs, made>>}
    BY <1>1, WriteTyped
  <2>2. File(Name)' = File(Name) /\ \A n : File(Nth(n))' = File(Nth(n))
    BY <1>1, SameName DEF File, Nth, selected
  <2>3. ok => transcripts'[File(Name)'] = <<runs', made'>>
    BY <1>1, <2>1, <2>2
  <2>4. ASSUME NEW k \in 1..Len(rows), NEW m \in Nat,
               rows[k].run = runs, rows[k].wrote, rows[k].nth = m
        PROVE  \E n \in m..made : WrittenBy(m, n)'
    <3>1. PICK n \in m..made : WrittenBy(m, n)
      BY <2>4 DEF Beside
    <3>2. m < made /\ made \in m..made
      BY <1>0, <2>4 DEF Beside
    <3>3. CASE File(Nth(n)) = File(Name) /\ transcripts'[File(Name)] = <<runs, made>>
      <4>1. File(Nth(made)) = File(Nth(m)) /\ File(Nth(made)) = File(Name)
        BY <3>1, <3>3 DEF WrittenBy, Name
      <4>2. PICK l \in m..made : l = made
        BY <3>2
      <4>3. WrittenBy(m, l)'
        BY <1>1, <2>2, <3>3, <4>1, <4>2 DEF WrittenBy
      <4> QED BY <4>3
    <3>4. CASE transcripts'[File(Nth(n))] = transcripts[File(Nth(n))]
      <4>1. WrittenBy(m, n)'
        BY <1>1, <2>2, <3>1, <3>4 DEF WrittenBy
      <4> QED BY <3>1, <4>1
    <3> QED BY <2>1, <3>3, <3>4
  <2> QED BY <1>0, <1>1, <2>3, <2>4 DEF Beside
<1>2. CASE OpenErr
  <2>1. PICK ok \in BOOLEAN : FinishErr("error", ok)
    BY <1>2 DEF OpenErr
  <2> QED BY <1>1, <1>2, <2>1, ErrRowTyped DEF OpenErr, FinishErr
<1>3. CASE TurnErr
  <2>1. PICK kind \in {"timeout", "error"}, ok \in BOOLEAN : FinishErr(kind, ok)
    BY <1>3 DEF TurnErr
  <2> QED BY <1>1, <1>3, <2>1, ErrRowTyped DEF TurnErr, FinishErr
<1>4. CASE Route
  <2>1. PICK ok \in BOOLEAN : row'.wrote = ok /\ WriteTranscript(ok)
    BY <1>4 DEF Route, NoRow
  <2> QED BY <1>1, <1>4, <2>1 DEF Route
(* The row goes on as it is, or the attempt begins. *)
<1>5. ASSUME UNCHANGED <<runs, made, rows, transcripts>>, pc' # "off" \/ pc = "off",
             pc' \notin {"check", "cost", "row"} \/ ~row'.wrote
               \/ (pc \in {"check", "cost", "row"} /\ row'.wrote = row.wrote)
      PROVE  Beside'
  <2>1. Name' = Name /\ File(Name)' = File(Name)
    BY <1>5, SameName DEF File
  <2>2. \A m, n : WrittenBy(m, n)' <=> WrittenBy(m, n)
    BY <1>5, SameWriter
  <2> QED BY <1>5, <2>1, <2>2 DEF Beside
<1>6. CASE CreateErr
  BY <1>5, <1>6, ErrRowTyped DEF CreateErr
<1>7. CASE Check \/ Cost
  BY <1>0, <1>5, <1>7 DEF Check, Cost, RowRecord
<1>8. CASE Open \/ Snapshot \/ Turn \/ Cancel \/ Traffic \/ Rollover
  BY <1>5, <1>8 DEF Open, Snapshot, Turn, Cancel, Traffic, Rollover
<1>9. CASE Launch
  <2>1. \A k \in 1..Len(rows') : rows'[k].run <= runs' /\ rows'[k].run # runs'
    BY <1>0, <1>9 DEF Launch, Beside
  <2> QED BY <1>9, <2>1 DEF Launch, Beside
<1>10. CASE Row
  <2>1. /\ pc = "row" /\ UNCHANGED <<runs, transcripts>> /\ pc' \in {"off", "create"}
        /\ made' = made + 1
    BY <1>10 DEF Row
  <2> DEFINE new == [task |-> task.id, attempt |-> Name[2], run |-> runs, nth |-> made,
                     passed |-> row.passed, kind |-> row.kind, cost |-> row.cost,
                     snapshot |-> row.snapshot, judged |-> row.judged, wrote |-> row.wrote]
  <2>2. rows' = rows \/ rows' = Append(rows, new)
    BY <1>10 DEF Row
  <2>3. new.nth = made /\ new.run = runs /\ new.wrote = row.wrote
    OBVIOUS
  <2>4. \A m, n : WrittenBy(m, n)' <=> WrittenBy(m, n)
    BY <2>1, SameWriter
  <2>5. ASSUME NEW m \in Nat, new.wrote, m = made PROVE WrittenBy(m, m)'
    <3>1. WrittenBy(m, m)
      BY <2>1, <2>3, <2>5 DEF Beside, WrittenBy, Name
    <3> QED BY <2>4, <3>1
  <2> HIDE DEF new
  <2> DEFINE Fits(r) ==
        /\ r.run <= runs'
        /\ r.run = runs' => r.nth < made'
        /\ \A m \in Nat : r.run = runs' /\ r.wrote /\ r.nth = m =>
             \E n \in m..made' : WrittenBy(m, n)' /\ (pc' = "off" => n # made')
  <2>6. \A k \in 1..Len(rows) : Fits(rows[k])
    <3> SUFFICES ASSUME NEW k \in 1..Len(rows) PROVE Fits(rows[k])
      OBVIOUS
    <3>1. rows[k].run <= runs' /\ (rows[k].run = runs' => rows[k].nth < made')
      BY <1>0, <2>1 DEF Beside
    <3>2. ASSUME NEW m \in Nat, rows[k].run = runs', rows[k].wrote, rows[k].nth = m
          PROVE  \E n \in m..made' : WrittenBy(m, n)' /\ n # made'
      <4>1. PICK n \in m..made : WrittenBy(m, n)
        BY <2>1, <3>2 DEF Beside
      <4>2. n \in m..made' /\ n # made'
        BY <1>0, <2>1, <4>1
      <4>3. WrittenBy(m, n)'
        BY <2>4, <4>1
      <4> QED BY <4>2, <4>3
    <3> QED BY <3>1, <3>2
  <2>7. Fits(new)
    <3>1. made \in made..made' /\ made # made' /\ made < made' /\ runs <= runs'
      BY <1>0, <2>1
    <3>2. ASSUME NEW m \in Nat, new.wrote, new.nth = m
          PROVE  \E n \in m..made' : WrittenBy(m, n)' /\ n # made'
      <4>1. m = made
        BY <2>3, <3>2
      <4>2. WrittenBy(m, m)' /\ m \in m..made' /\ m # made'
        BY <2>5, <3>1, <3>2, <4>1
      <4> QED BY <4>2
    <3> QED BY <2>1, <2>3, <3>1, <3>2
  <2>8. \A k \in 1..Len(rows') : Fits(rows'[k])
    <3> HIDE DEF Fits
    <3>1. \A k \in 1..Len(rows') : (k \in 1..Len(rows) /\ rows'[k] = rows[k]) \/ rows'[k] = new
      BY <1>0, <2>2
    <3> QED BY <2>6, <2>7, <3>1
  <2> QED BY <2>1, <2>8 DEF Beside
<1>11. CASE UNCHANGED vars
  BY <1>5, <1>11 DEF vars
<1> QED
  BY <1>2, <1>3, <1>4, <1>6, <1>7, <1>8, <1>9, <1>10, <1>11 DEF Next, Finished

-----------------------------------------------------------------------------
(* Without a rollover the counter is ahead of the snapshot by what the turn *)
(* spent, at least, and so is the cost that comes of it.                   *)
Counted ==
  /\ pc \in {"turn", "route", "check", "cost"} /\ before # NoStatus /\ ~rolled =>
       before + own <= used
  /\ pc \in {"check", "cost"} => ~row.snapshot
  /\ CostWhole

LEMMA StepCounted == Typed /\ Counted /\ [Next]_vars => Counted'
<1> SUFFICES ASSUME Typed, Counted, [Next]_vars PROVE Counted'
  OBVIOUS
<1>0. /\ pc \in Points /\ row \in RowRecord /\ used \in Nat /\ own \in Nat
      /\ before \in Nat \cup {NoStatus} /\ NoStatus \notin Nat
  BY AttemptAssumption DEF Typed
<1> USE DEF GoTo, suiteVars, turnVars, daemonVars, fileVars, Counted, CostWhole
<1>1. CASE Launch \/ Open \/ Cancel
  BY <1>0, <1>1 DEF Launch, Open, Cancel
<1>2. CASE CreateErr
  BY <1>2, ErrRowTyped DEF CreateErr
<1>3. CASE OpenErr
  <2>1. PICK ok \in BOOLEAN : row' = ErrRow("error", ok)
    BY <1>3 DEF OpenErr, FinishErr
  <2> QED BY <1>3, <2>1, ErrRowTyped DEF OpenErr, FinishErr
<1>4. CASE Snapshot
  BY <1>0, <1>4 DEF Snapshot
<1>5. CASE Turn
  BY <1>0, <1>5 DEF Turn, Spend
<1>6. CASE TurnErr
  <2>1. PICK kind \in {"timeout", "error"}, ok \in BOOLEAN : row' = ErrRow(kind, ok) /\ pc' = "row"
    BY <1>6 DEF TurnErr, FinishErr
  <2> QED BY <1>6, <2>1, ErrRowTyped
<1>7. CASE Route \/ Check
  <2>1. Route => ~row'.snapshot
    BY DEF Route, NoRow
  <2>2. Check => row'.snapshot = row.snapshot
    BY <1>0 DEF Check, RowRecord
  <2> QED BY <1>0, <1>7, <2>1, <2>2 DEF Route, Check
<1>8. CASE Cost
  <2>1. CASE row' = [row EXCEPT !.pending = {}, !.snapshot = before # NoStatus,
                       !.cost = IF before = NoStatus THEN used ELSE Delta(before, used)]
    <3>1. /\ row'.snapshot = (before # NoStatus)
          /\ before # NoStatus => row'.cost = Delta(before, used)
      BY <1>0, <2>1 DEF RowRecord
    <3>2. before # NoStatus /\ ~rolled => Delta(before, used) >= own
      BY <1>0, <1>8 DEF Cost, Delta
    <3> QED BY <1>8, <3>1, <3>2 DEF Cost
  <2>2. CASE row' = [row EXCEPT !.pending = {}]
    <3>1. ~row'.snapshot
      BY <1>0, <1>8, <2>2 DEF Cost, RowRecord
    <3> QED BY <1>8, <3>1 DEF Cost
  <2> QED BY <1>8, <2>1, <2>2 DEF Cost
<1>9. CASE Row
  BY <1>9 DEF Row
<1>10. CASE Traffic \/ Rollover
  BY <1>0, <1>10 DEF Traffic, Rollover, CounterMatters
<1>11. CASE UNCHANGED vars
  BY <1>11 DEF vars
<1> QED
  BY <1>1, <1>2, <1>3, <1>4, <1>5, <1>6, <1>7, <1>8, <1>9, <1>10, <1>11 DEF Next, Finished

-----------------------------------------------------------------------------
(* The evidence.  With one turn in a fresh session the log can tell of no   *)
(* other dispatch than the prompt's, or it lacks a field.                  *)
Logged(entries, e) == entries \in Logs(e) \cup BadLogs(e)

LEMMA Evidence ==
  ASSUME task \in Task, NEW agent \in Agents, NEW method \in Methods, NEW entries,
         Logged(entries, [agent |-> agent, method |-> method, ok |-> TRUE]),
         NEW answered, NEW session,
         NEW o, o = Observation(entries, answered, session /\ task.turns = 0),
         o.status # "unavailable"
  PROVE  o.agent \in {agent, Blank} /\ o.method \in {method, Blank}
<1> DEFINE e == [agent |-> agent, method |-> method, ok |-> TRUE]
<1>1. /\ task.turns = 0 /\ Len(entries) = 1 /\ entries[1].ok
      /\ o.agent = entries[1].agent /\ o.method = entries[1].method
  BY DEF Observation, Unavailable
<1>2. CASE entries = <<e>>
  BY <1>1, <1>2
<1>3. CASE entries = <<[e EXCEPT !.method = Blank]>>
  BY <1>1, <1>3
<1>4. entries # <<>> /\ entries # <<[e EXCEPT !.ok = FALSE], e>>
  <2>1. \A x, y : Len(<<x, y>>) = 2
    OBVIOUS
  <2> DEFINE bad == [e EXCEPT !.ok = FALSE]
  <2> HIDE DEF e, bad
  <2>2. Len(<<bad, e>>) = 2
    BY <2>1, Zenon
  <2>3. entries # <<bad, e>>
    BY <1>1, <2>2
  <2>4. entries # <<>>
    <3>1. Len(entries) = 1
      BY <1>1
    <3> QED BY <3>1
  <2> QED BY <2>3, <2>4 DEF bad
<1>5. entries # <<[e EXCEPT !.ok = FALSE]>>
  BY <1>1
<1> QED BY <1>1, <1>2, <1>3, <1>4, <1>5 DEF Logged, Logs, BadLogs

(* A verdict "pass" means that every declared expectation was met by a      *)
(* field that was there.                                                   *)
LEMMA Expectations ==
  ASSUME NEW t \in Task, NEW o, RouteVerdict(RoutingChecks(t, o)) = "pass"
  PROVE  /\ t.expectAgent # Blank =>
              o.status # "unavailable" /\ o.agent # Blank /\ o.agent = t.expectAgent
         /\ \A m \in t.forbidden :
              o.status # "unavailable" /\ o.method # Blank /\ o.method # m
<1>1. "error" \notin RoutingChecks(t, o) /\ "fail" \notin RoutingChecks(t, o)
  BY DEF RouteVerdict
<1>2. \A actual : Assertion(o, actual, TRUE) \in {"error", "pass"}
  BY DEF Assertion
<1>3. ASSUME t.expectAgent # Blank
      PROVE  o.status # "unavailable" /\ o.agent # Blank /\ o.agent = t.expectAgent
  <2>1. Assertion(o, o.agent, o.agent = t.expectAgent) \in RoutingChecks(t, o)
    BY <1>3 DEF RoutingChecks
  <2> QED BY <1>1, <2>1 DEF Assertion
<1>4. ASSUME NEW m \in t.forbidden
      PROVE  o.status # "unavailable" /\ o.method # Blank /\ o.method # m
  <2>1. Assertion(o, o.method, o.method # m) \in RoutingChecks(t, o)
    BY DEF RoutingChecks
  <2> QED BY <1>1, <2>1 DEF Assertion
<1> QED BY <1>3, <1>4

Routed ==
  task.expectAgent \in {Blank, routed.agent} /\ routed.method \notin task.forbidden

Checked ==
  /\ Uses("exact_file") => \E w \in DOMAIN work : work[w].direct
  /\ Uses("exit_zero") => seen.exit
  /\ Uses("llm_judge") => JudgeErr \notin Asked(seen.scores)

Earned ==
  /\ pc = "route" =>
       /\ routed \in [agent : Agents, method : Methods, ok : {TRUE}]
       /\ Logged(log, routed)
  /\ pc = "check" /\ row.passed => Routed
  /\ PassIsEarned

(* What a checker that passed has seen. *)
LEMMA CheckerSaw ==
  ASSUME NEW c, NEW s, Passes(c, s)
  PROVE  /\ c.type = "exact_file" => s.file
         /\ c.type = "exit_zero" => s.exit
         /\ c.type = "llm_judge" => JudgeErr \notin Asked(s.scores)
<1>1. CASE c.type = "exact_file"
  BY <1>1 DEF Passes
<1>2. CASE c.type = "exit_zero"
  BY <1>2 DEF Passes
<1>3. CASE c.type = "llm_judge"
  <2>1. JudgePasses(c.min, s.scores)
    BY <1>3 DEF Passes
  <2> QED BY <1>3, <2>1 DEF JudgePasses
<1> QED BY <1>1, <1>2, <1>3

LEMMA StepEarned ==
  ASSUME Typed, UnderWay, Earned, [Next]_vars PROVE Earned'
<1>0. pc \in Points /\ row \in RowRecord
  BY DEF Typed
<1> USE DEF GoTo, suiteVars, turnVars, daemonVars, fileVars, Earned
<1>1. CASE Turn
  <2>1. /\ routed' \in [agent : Agents, method : Methods, ok : {TRUE}] /\ pc' = "route"
        /\ UNCHANGED <<runs, made>> /\ log' \in Logs(routed') \cup BadLogs(routed')
    BY <1>1 DEF Turn
  <2>2. Logged(log, routed)'
    BY <2>1, SameName DEF Logged, Logs, BadLogs
  <2> QED BY <2>1, <2>2 DEF PassIsEarned
<1>2. CASE Route
  <2>1. PICK answered, ok \in BOOLEAN :
          LET o == Observation(log, answered, fresh /\ task.turns = 0)
              v == RouteVerdict(RoutingChecks(task, o))
          IN row' = [NoRow EXCEPT !.verdict = v, !.kind = RouteKind(v), !.wrote = ok,
                                  !.passed = v = "pass", !.judged = v = "pass"]
    BY <1>2 DEF Route
  <2> DEFINE o == Observation(log, answered, fresh /\ task.turns = 0)
             v == RouteVerdict(RoutingChecks(task, o))
  <2>2. row'.passed = (v = "pass")
    <3> HIDE DEF v
    <3>1. row' = [NoRow EXCEPT !.verdict = v, !.kind = RouteKind(v), !.wrote = ok,
                               !.passed = v = "pass", !.judged = v = "pass"]
      BY <2>1 DEF v
    <3> QED BY <3>1 DEF NoRow
  <2>3. pc = "route" /\ pc' = "check" /\ UNCHANGED <<runs, made, routed>>
    BY <1>2 DEF Route
  <2>4. task \in Task
    BY <2>3, NameInNames
  <2>5. ASSUME v = "pass" PROVE Routed
    <3>1. PICK agent \in Agents, method \in Methods :
            routed = [agent |-> agent, method |-> method, ok |-> TRUE]
      BY <2>3
    <3>2. Logged(log, [agent |-> agent, method |-> method, ok |-> TRUE])
      BY <2>3, <3>1
    <3>3. o.status # "unavailable" =>
            o.agent \in {agent, Blank} /\ o.method \in {method, Blank}
      BY <2>4, <3>2, Evidence
    <3> HIDE DEF o
    <3>4. /\ task.expectAgent # Blank =>
               o.status # "unavailable" /\ o.agent # Blank /\ o.agent = task.expectAgent
          /\ \A m \in task.forbidden :
               o.status # "unavailable" /\ o.method # Blank /\ o.method # m
      BY <2>4, <2>5, Expectations
    <3>5. task.expectAgent \in {Blank, agent}
      BY <3>3, <3>4
    <3>6. method \notin task.forbidden
      BY <3>3, <3>4
    <3> QED BY <3>1, <3>5, <3>6 DEF Routed
  <2>6. Routed => Routed'
    BY <2>3, SameName DEF Routed
  <2> QED BY <2>2, <2>3, <2>5, <2>6 DEF PassIsEarned
<1>3. CASE Check
  <2>1. /\ pc = "check" /\ pc' = "cost" /\ seen' \in Findings
        /\ UNCHANGED <<runs, made, routed, work>>
        /\ row'.passed => row.passed /\ \A k \in DOMAIN task.checks : Passes(task.checks[k], seen')
    BY <1>0, <1>3 DEF Check, RowRecord
  <2>2. task' = task
    BY <2>1, SameName
  <2>3. ASSUME row'.passed PROVE Routed' /\ Checked'
    <3>1. Routed'
      BY <2>1, <2>2, <2>3 DEF Routed
    <3>2. seen'.file => \E k \in DOMAIN work : work[k].direct
      BY <2>1 DEF Findings
    <3>3. Checked'
      BY <2>1, <2>2, <2>3, <3>2, CheckerSaw DEF Checked, Uses
    <3> QED BY <3>1, <3>3
  <2> QED BY <2>1, <2>3 DEF PassIsEarned, Routed, Checked
<1>4. ASSUME UNCHANGED <<pc, runs, made, routed, log, work, seen, row>> PROVE Earned'
  <2>1. task' = task
    BY <1>4, SameName
  <2>2. pc' = "route" => routed' \in [agent : Agents, method : Methods, ok : {TRUE}]
    BY <1>4
  <2>3. pc' = "route" => Logged(log, routed)'
    BY <1>4, <2>1 DEF Logged, Logs, BadLogs
  <2>4. pc' = "check" /\ row'.passed => Routed'
    BY <1>4, <2>1 DEF Routed
  <2>5. PassIsEarned'
    BY <1>4, <2>1 DEF PassIsEarned, Uses
  <2> QED BY <2>2, <2>3, <2>4, <2>5
<1>5. CASE pc' \in {"off", "create", "snapshot", "turn", "row"}
  BY <1>5 DEF PassIsEarned
<1>6. CASE Cancel \/ Traffic \/ Rollover \/ UNCHANGED vars
  BY <1>4, <1>6 DEF Cancel, Traffic, Rollover, vars
<1> QED
  BY <1>1, <1>2, <1>3, <1>5, <1>6
     DEF Next, Launch, CreateErr, OpenErr, Open, Snapshot, TurnErr, FinishErr, Cost, Row, Finished

-----------------------------------------------------------------------------
(* What a failing row reports is settled by the checkers' step. *)
LEMMA StepStaged ==
  ASSUME Typed, Worked, StagedReported, [Next]_vars PROVE StagedReported'
<1>0. pc \in Points /\ row \in RowRecord
  BY DEF Typed
<1> USE DEF GoTo, suiteVars, turnVars, daemonVars, fileVars
<1>1. CASE Check
  <2>1. PICK passed \in BOOLEAN, pending \in Pending[work] :
          row' = [row EXCEPT !.passed = passed,
                    !.verdict = IF row.verdict = "error" THEN "error"
                                ELSE IF passed THEN "pass" ELSE "fail",
                    !.pending = IF passed THEN {} ELSE pending]
    <3> DEFINE passed == row.passed /\ \A k \in DOMAIN task.checks : Passes(task.checks[k], seen')
    <3>1. passed \in BOOLEAN
      BY <1>0 DEF RowRecord
    <3> QED BY <1>1, <3>1 DEF Check
  <2>2. row'.passed = passed /\ row'.pending = IF passed THEN {} ELSE pending
    BY <1>0, <2>1 DEF RowRecord
  <2>3. work \in Works /\ work' = work
    BY <1>1 DEF Check, Worked
  <2>4. /\ pending \subseteq StagedWrites(work)
        /\ Cardinality(pending) = Min({Cardinality(StagedWrites(work)), MaxPendingWriteDetails})
    BY <2>3, PendingTyped
  <2> QED BY <2>2, <2>3, <2>4 DEF StagedReported, StagedWrites
<1>2. CASE UNCHANGED <<pc, work, row>>
  BY <1>2 DEF StagedReported, StagedWrites
<1>3. CASE pc' # "cost"
  BY <1>3 DEF StagedReported
<1> QED
  BY <1>0, <1>1, <1>2, <1>3
     DEF Next, Launch, CreateErr, OpenErr, Open, Snapshot, Turn, TurnErr, FinishErr, Route, Cost,
         Row, Cancel, Traffic, Rollover, Finished, vars, Points

-----------------------------------------------------------------------------
(* What the rows of a file charge, of those that had their snapshot. *)
Charges(file) ==
  SumFunction([k \in {k \in DOMAIN file : file[k].snapshot} |-> file[k].cost])

LEMMA ChargesTyped == ASSUME NEW file \in Seq(FileRow) PROVE Charges(file) \in Nat
<1> DEFINE S == {k \in DOMAIN file : file[k].snapshot}
           f == [k \in S |-> file[k].cost]
<1>1. IsFiniteSet(S)
  <2>1. IsFiniteSet(DOMAIN file)
    BY FS_Interval
  <2> QED BY <2>1, FS_Subset
<1>2. \A k \in S : f[k] \in Nat
  <2>1. \A k \in DOMAIN file : file[k] \in FileRow
    OBVIOUS
  <2> QED BY <2>1 DEF FileRow
<1>3. Charges(file) = SumFunctionOnSet(f, S)
  BY DEF Charges, SumFunction
<1> HIDE DEF f, S
<1> QED BY <1>1, <1>2, <1>3, SumNat

LEMMA ChargesMore ==
  ASSUME NEW file \in Seq(FileRow), NEW r \in FileRow
  PROVE  Charges(Append(file, r)) = Charges(file) + (IF r.snapshot THEN r.cost ELSE 0)
<1> DEFINE more == Append(file, r)
           S == {k \in DOMAIN file : file[k].snapshot}
           T == {k \in DOMAIN more : more[k].snapshot}
           f == [k \in S |-> file[k].cost]
           g == [k \in T |-> more[k].cost]
           y == Len(file) + 1
<1>1. /\ DOMAIN file = 1..Len(file) /\ DOMAIN more = 1..y /\ more[y] = r /\ Len(file) \in Nat
      /\ \A k \in 1..Len(file) : more[k] = file[k] /\ file[k] \in FileRow
  OBVIOUS
<1>2. IsFiniteSet(S) /\ y \notin S
  <2>1. IsFiniteSet(1..Len(file))
    BY <1>1, FS_Interval
  <2> QED BY <1>1, <2>1, FS_Subset
<1>3. Charges(file) = SumFunctionOnSet(f, S) /\ Charges(more) = SumFunctionOnSet(g, T)
  BY DEF Charges, SumFunction
<1>4. T = IF r.snapshot THEN S \cup {y} ELSE S
  <2> HIDE DEF more
  <2> QED BY <1>1
<1>5. r.snapshot \in BOOLEAN /\ r.cost \in Nat
  BY DEF FileRow
<1>6. \A k \in S : f[k] \in Nat /\ g[k] = f[k]
  <2> HIDE DEF more
  <2>1. \A q \in FileRow : q.cost \in Nat
    BY DEF FileRow
  <2> QED BY <1>1, <2>1
<1>7. r.snapshot => g[y] = r.cost
  <2> HIDE DEF more
  <2> QED BY <1>1
<1> HIDE DEF f, g, S, T, more
<1>8. CASE r.snapshot
  <2> HIDE DEF y
  <2>1. g[y] \in Nat /\ (\A k \in S : f[k] \in Nat) /\ \A k \in S : g[k] = f[k]
    BY <1>5, <1>6, <1>7, <1>8
  <2>2. SumFunctionOnSet(f, S) \in Nat
    BY <1>2, <2>1, SumNat
  <2>3. SumFunctionOnSet(g, S \cup {y}) = SumFunctionOnSet(f, S) + g[y]
    BY <1>2, <2>1, <2>2, SumAdd
  <2> QED BY <1>3, <1>4, <1>7, <1>8, <2>3 DEF more
<1>9. CASE ~r.snapshot
  <2>1. SumFunctionOnSet(g, S) = SumFunctionOnSet(f, S)
    BY <1>2, <1>6, SumSame
  <2>2. SumFunctionOnSet(f, S) \in Nat
    BY <1>2, <1>6, SumNat
  <2> QED BY <1>3, <1>4, <1>9, <2>1, <2>2 DEF more
<1> QED BY <1>5, <1>8, <1>9

(* What the rows charge and what the attempt under way will, together, has *)
(* been spent.                                                             *)
Paid ==
  /\ Charges(rows) <= spent
  /\ pc \in {"turn", "route", "check", "cost"} /\ before # NoStatus =>
       Charges(rows) + Delta(before, used) <= spent
  /\ pc = "row" /\ row.snapshot => Charges(rows) + row.cost <= spent

LEMMA StepPaid == Typed /\ Others /\ UnderWay /\ Counted /\ Paid /\ [Next]_vars => Paid'
<1> SUFFICES ASSUME Typed, Others, UnderWay, Counted, Paid, [Next]_vars PROVE Paid'
  OBVIOUS
<1>0. /\ pc \in Points /\ row \in RowRecord /\ used \in Nat /\ spent \in Nat
      /\ before \in Nat \cup {NoStatus} /\ NoStatus \notin Nat /\ rows \in Seq(FileRow)
  BY AttemptAssumption DEF Typed, Others
<1>1. Charges(rows) \in Nat
  BY <1>0, ChargesTyped
(* With the file as it is, only the counter and the row matter. *)
<1>2. ASSUME rows' = rows PROVE Charges(rows') = Charges(rows)
  BY <1>2
<1> USE DEF GoTo, suiteVars, turnVars, daemonVars, fileVars, Paid
<1>3. CASE Launch \/ Open \/ Cancel \/ UNCHANGED vars
  BY <1>3 DEF Launch, Open, Cancel, vars, Points
<1>4. CASE CreateErr
  BY <1>4, <1>2, ErrRowTyped DEF CreateErr
<1>5. CASE OpenErr
  <2>1. PICK ok \in BOOLEAN : row' = ErrRow("error", ok) /\ pc' = "row"
    BY <1>5 DEF OpenErr, FinishErr
  <2> QED BY <1>2, <1>5, <2>1, ErrRowTyped DEF OpenErr
<1>6. CASE Snapshot
  BY <1>0, <1>1, <1>2, <1>6 DEF Snapshot, Delta
<1>7. CASE Turn
  <2>1. /\ used' = used + 1 /\ spent' = spent + 1 /\ pc = "turn" /\ pc' = "route"
        /\ UNCHANGED <<before, rows>>
    BY <1>7 DEF Turn, Spend
  <2>2. before # NoStatus => Delta(before, used + 1) <= Delta(before, used) + 1
    BY <1>0 DEF Delta
  <2>3. before # NoStatus => Delta(before, used) \in Nat /\ Delta(before, used + 1) \in Nat
    BY <1>0 DEF Delta
  <2> QED BY <1>0, <1>1, <1>2, <2>1, <2>2, <2>3
<1>8. CASE TurnErr
  <2>1. PICK kind \in {"timeout", "error"}, ok \in BOOLEAN, k \in 0..1 :
          row' = ErrRow(kind, ok) /\ pc' = "row" /\ spent' = spent + k
    BY <1>8 DEF TurnErr, FinishErr, Spend
  <2> QED BY <1>0, <1>1, <1>2, <1>8, <2>1, ErrRowTyped DEF TurnErr
<1>9. CASE Route \/ Check
  <2>1. /\ pc \in {"route", "check"} /\ pc' \in {"check", "cost"}
        /\ UNCHANGED <<before, used, spent, rows>>
    BY <1>9 DEF Route, Check
  <2> QED BY <1>2, <2>1
<1>10. CASE Cost
  <2>1. pc = "cost" /\ pc' = "row" /\ UNCHANGED <<used, spent, rows>>
    BY <1>10 DEF Cost
  <2>2. row'.snapshot => before # NoStatus /\ row'.cost = Delta(before, used)
    <3>1. ~row.snapshot
      BY <2>1 DEF Counted
    <3> QED BY <1>0, <1>10, <3>1 DEF Cost, RowRecord
  <2> QED BY <1>2, <2>1, <2>2
<1>11. CASE Row
  <2> DEFINE new == [task |-> task.id, attempt |-> Name[2], run |-> runs, nth |-> made,
                     passed |-> row.passed, kind |-> row.kind, cost |-> row.cost,
                     snapshot |-> row.snapshot, judged |-> row.judged, wrote |-> row.wrote]
  <2>1. new \in FileRow /\ new.snapshot = row.snapshot /\ new.cost = row.cost
    <3>1. task.id \in Nat /\ Name[2] \in 1..Attempts /\ runs \in 1..MaxRuns /\ made \in Nat
      BY <1>11, NameInNames DEF Row, Typed
    <3> QED BY <1>0, <3>1 DEF FileRow, RowRecord
  <2>2. rows' = rows \/ rows' = Append(rows, new)
    BY <1>11 DEF Row
  <2>3. pc = "row" /\ pc' \in {"create", "off"} /\ spent' = spent
    BY <1>11 DEF Row
  <2> HIDE DEF new
  <2>4. CASE rows' = Append(rows, new)
    <3>1. Charges(rows') = Charges(rows) + (IF row.snapshot THEN row.cost ELSE 0)
      BY <1>0, <2>1, <2>4, ChargesMore
    <3> QED BY <1>1, <2>3, <3>1
  <2> QED BY <1>2, <2>2, <2>3, <2>4
<1>12. CASE Traffic
  <2>1. /\ used' = used + 1 /\ spent' = spent + 1 /\ UNCHANGED <<pc, before, rows>>
        /\ pc \in {"snapshot", "turn", "cost"}
    BY <1>12 DEF Traffic, CounterMatters
  <2>2. before # NoStatus => Delta(before, used + 1) <= Delta(before, used) + 1
    BY <1>0 DEF Delta
  <2>3. before # NoStatus => Delta(before, used) \in Nat /\ Delta(before, used + 1) \in Nat
    BY <1>0 DEF Delta
  <2> QED BY <1>0, <1>1, <1>2, <2>1, <2>2, <2>3
<1>13. CASE Rollover
  <2>1. used' = 0 /\ UNCHANGED <<pc, before, rows, spent>> /\ pc \in {"snapshot", "turn", "cost"}
    BY <1>13 DEF Rollover, CounterMatters
  <2>2. before # NoStatus => Delta(before, 0) = 0
    BY <1>0 DEF Delta
  <2> QED BY <1>0, <1>1, <1>2, <2>1, <2>2
<1> QED
  BY <1>3, <1>4, <1>5, <1>6, <1>7, <1>8, <1>9, <1>10, <1>11, <1>12, <1>13 DEF Next, Finished

-----------------------------------------------------------------------------
(* The scorecard.  What the order of the sums looks at. *)
Comparable(file, n) ==
  /\ DOMAIN file = 1..n
  /\ \A k \in 1..n : file[k].task \in Nat /\ file[k].attempt \in Nat /\ file[k].cost \in Nat

(* lessAccum is a strict weak order. *)
LEMMA LessIsOrder ==
  ASSUME NEW file, NEW n \in Nat, Comparable(file, n),
         NEW x \in 1..n, NEW y \in 1..n, NEW z \in 1..n
  PROVE  /\ ~LessAccum(file[x], file[x])
         /\ LessAccum(file[x], file[y]) => ~LessAccum(file[y], file[x])
         /\ LessAccum(file[x], file[y]) /\ LessAccum(file[y], file[z]) => LessAccum(file[x], file[z])
         /\ LessAccum(file[x], file[z]) => LessAccum(file[x], file[y]) \/ LessAccum(file[y], file[z])
<1>1. \A k \in {x, y, z} : file[k].task \in Nat /\ file[k].attempt \in Nat /\ file[k].cost \in Nat
  BY DEF Comparable
<1> QED BY <1>1 DEF LessAccum

(* The rows in the places a gives them, in the order of lessAccum. *)
Ascends(file, a) ==
  \A i, j \in DOMAIN file : i < j => ~LessAccum(file[a[j]], file[a[i]])

(* The stable sort gives every row a place of its own. *)
LEMMA SortAscends ==
  ASSUME NEW file, NEW n \in Nat, Comparable(file, n)
  PROVE  \E a \in Bijection(1..n, 1..n) :
           /\ SumOrder(file) = [i \in 1..n |-> file[a[i]]]
           /\ Ascends(file, a)
<1> DEFINE D == 1..n
           R == {r \in D \X D : Before(file, r[1], r[2])}
           place == Place(file)
           a == [i \in D |-> CHOOSE m \in D : place[m] = i]
<1>1. IsFiniteSet(D) /\ Cardinality(D) = n
  BY FS_Interval
<1>2. \A x, y \in D : <<x, y>> \in R <=> Before(file, x, y)
  OBVIOUS
<1>3. TotalOrder(D, R)
  <2>1. \A x \in D : ~Before(file, x, x)
    BY LessIsOrder DEF Before
  <2>2. ASSUME NEW x \in D, NEW y \in D, NEW z \in D, Before(file, x, y), Before(file, y, z)
        PROVE  Before(file, x, z)
    <3>1. /\ LessAccum(file[x], file[y]) => ~LessAccum(file[y], file[x])
          /\ LessAccum(file[y], file[z]) => ~LessAccum(file[z], file[y])
          /\ LessAccum(file[z], file[x]) => LessAccum(file[z], file[y]) \/ LessAccum(file[y], file[x])
          /\ LessAccum(file[x], file[y]) => LessAccum(file[x], file[z]) \/ LessAccum(file[z], file[y])
          /\ LessAccum(file[y], file[z]) => LessAccum(file[y], file[x]) \/ LessAccum(file[x], file[z])
      BY LessIsOrder
    <3>2. x < y /\ y < z => x < z
      OBVIOUS
    <3> QED BY <2>2, <3>1, <3>2 DEF Before
  <2>3. \A x, y \in D : x # y => Before(file, x, y) \/ Before(file, y, x)
    BY DEF Before
  <2> HIDE DEF R
  <2> QED BY <1>2, <2>1, <2>2, <2>3 DEF TotalOrder
<1>4. place = [m \in D |-> 1 + Rank(D, R, m)]
  <2>1. \A m \in D : {k \in D : Before(file, k, m)} = {k \in D : <<k, m>> \in R}
    BY <1>2
  <2> HIDE DEF R
  <2>2. \A m \in D : Quantify(D, LAMBDA k : Before(file, k, m)) = Rank(D, R, m)
    BY <2>1 DEF Quantify, Rank
  <2>3. DOMAIN file = D
    BY DEF Comparable
  <2> QED BY <2>2, <2>3 DEF Place
<1> DEFINE rank == [m \in D |-> Rank(D, R, m)]
<1>5. rank \in Bijection(D, 0..(n - 1)) /\ \A m \in D : place[m] = 1 + rank[m]
  BY <1>1, <1>3, <1>4, Ranks
<1> HIDE DEF R, place, rank
<1> HIDE DEF a
<1>6. /\ \A m \in D : place[m] \in D
      /\ \A k, m \in D : place[k] = place[m] => k = m
      /\ \A i \in D : \E m \in D : place[m] = i
  <2>1. /\ \A m \in D : rank[m] \in 0..(n - 1)
        /\ \A k, m \in D : rank[k] = rank[m] => k = m
        /\ \A j \in 0..(n - 1) : \E m \in D : rank[m] = j
    BY <1>5 DEF Bijection, Injection, Surjection, IsInjective
  <2>2. \A i \in D : i - 1 \in 0..(n - 1) /\ 1 + (i - 1) = i
    OBVIOUS
  <2>3. \A i \in D : \E m \in D : place[m] = i
    <3> SUFFICES ASSUME NEW i \in D PROVE \E m \in D : place[m] = i
      OBVIOUS
    <3>1. PICK m \in D : rank[m] = i - 1
      BY <2>1, <2>2
    <3> QED BY <1>5, <2>2, <3>1
  <2>4. \A m \in D : 1 + rank[m] \in D
    BY <2>1
  <2>5. \A k, m \in D : 1 + rank[k] = 1 + rank[m] => rank[k] = rank[m]
    BY <2>1
  <2>6. \A m \in D : place[m] \in D
    BY <1>5, <2>4
  <2>7. \A k, m \in D : place[k] = place[m] => k = m
    BY <1>5, <2>1, <2>5
  <2> QED BY <2>3, <2>6, <2>7
<1>7. /\ a \in [D -> D] /\ \A i \in D : place[a[i]] = i
      /\ \A m \in D : a[place[m]] = m
  BY <1>6 DEF a
<1>8. SumOrder(file) = [i \in D |-> file[a[i]]]
  BY DEF SumOrder, Comparable, place, a
<1>9. a \in Bijection(D, D)
  <2>1. \A x, y \in D : a[x] = a[y] => x = y
    BY <1>7
  <2>2. \A z \in D : \E x \in D : a[x] = z
    BY <1>6, <1>7
  <2> QED BY <1>7, <2>1, <2>2, IsBijection
<1>10. ASSUME NEW i \in D, NEW j \in D, i < j PROVE ~LessAccum(file[a[j]], file[a[i]])
  <2>1. ASSUME <<a[j], a[i]>> \in R PROVE FALSE
    <3>1. Rank(D, R, a[j]) < Rank(D, R, a[i])
      BY <1>1, <1>3, <1>7, <2>1, RankAscends
    <3>2. rank[a[j]] < rank[a[i]]
      BY <1>7, <3>1 DEF rank
    <3>3. rank[a[j]] \in Nat /\ rank[a[i]] \in Nat /\ 1 + rank[a[j]] = j /\ 1 + rank[a[i]] = i
      <4>1. \A m \in D : rank[m] \in Nat
        BY <1>5, BijectionIs
      <4> QED BY <1>5, <1>7, <4>1
    <3> QED BY <1>10, <3>2, <3>3
  <2> QED BY <1>2, <1>7, <2>1 DEF Before
<1> QED BY <1>8, <1>9, <1>10 DEF Ascends, Comparable

(* Two ways to sort the same rows put rows that are alike into each place:  *)
(* were the i-th of one less than the i-th of the other, then the rows less *)
(* than the latter, at most i - 1, would be i at least.                     *)
LEMMA SortsAlike ==
  ASSUME NEW file, NEW n \in Nat, Comparable(file, n),
         NEW a \in Bijection(1..n, 1..n), Ascends(file, a),
         NEW b \in Bijection(1..n, 1..n), Ascends(file, b),
         NEW i \in 1..n
  PROVE  ~LessAccum(file[a[i]], file[b[i]])
<1> SUFFICES ASSUME LessAccum(file[a[i]], file[b[i]]) PROVE FALSE
  OBVIOUS
<1>1. /\ a \in [1..n -> 1..n] /\ \A j, k \in 1..n : a[j] = a[k] => j = k
      /\ b \in [1..n -> 1..n] /\ \A m \in 1..n : \E j \in 1..n : b[j] = m
  BY DEF Bijection, Injection, Surjection, IsInjective
<1>0. 1..i \subseteq 1..n
  OBVIOUS
<1> DEFINE f == [j \in 1..i |-> CHOOSE k \in 1..n : b[k] = a[j]]
<1>2. ASSUME NEW j \in 1..i PROVE f[j] \in 1..(i - 1) /\ b[f[j]] = a[j]
  <2>1. j \in 1..n /\ a[j] \in 1..n
    BY <1>0, <1>1
  <2>2. f[j] \in 1..n /\ b[f[j]] = a[j]
    BY <1>1, <2>1
  <2> HIDE DEF f
  <2>3. LessAccum(file[a[j]], file[b[i]])
    <3>1. j = i \/ ~LessAccum(file[a[i]], file[a[j]])
      BY <2>1 DEF Ascends, Comparable
    <3>2. a[i] \in 1..n /\ b[i] \in 1..n
      BY <1>1
    <3> QED BY <2>1, <3>1, <3>2, LessIsOrder
  <2>4. f[j] # i /\ ~(i < f[j])
    <3>1. b[i] \in 1..n
      BY <1>1
    <3>2. ~LessAccum(file[b[i]], file[b[i]])
      BY <3>1, LessIsOrder
    <3> QED BY <2>2, <2>3, <3>2 DEF Ascends, Comparable
  <2> QED BY <2>2, <2>4
<1>3. \A j, k \in 1..i : f[j] = f[k] => j = k
  <2> HIDE DEF f
  <2>1. \A j, k \in 1..i : f[j] = f[k] => a[j] = a[k]
    BY <1>2
  <2>2. \A j, k \in 1..i : a[j] = a[k] => j = k
    BY <1>0, <1>1
  <2> QED BY <2>1, <2>2
<1>4. f \in [1..i -> 1..(i - 1)]
  BY <1>2
<1>5. /\ IsFiniteSet(1..i) /\ Cardinality(1..i) = i
      /\ IsFiniteSet(1..(i - 1)) /\ Cardinality(1..(i - 1)) = i - 1
  BY FS_Interval
<1>6. Cardinality(1..(i - 1)) < Cardinality(1..i)
  BY <1>5
<1> HIDE DEF f
<1>7. \E j, k \in 1..i : j # k /\ f[j] = f[k]
  BY <1>4, <1>5, <1>6, FS_PigeonHole
<1> QED BY <1>3, <1>7

(* A count over the places is one over the rows. *)
LEMMA CountOnce ==
  ASSUME NEW n \in Nat, NEW a \in Bijection(1..n, 1..n), NEW T \in SUBSET (1..n)
  PROVE  Cardinality({i \in 1..n : a[i] \in T}) = Cardinality(T)
<1> DEFINE S == {i \in 1..n : a[i] \in T}
           b == [i \in S |-> a[i]]
<1>1. /\ a \in [1..n -> 1..n] /\ \A j, k \in 1..n : a[j] = a[k] => j = k
      /\ \A m \in 1..n : \E j \in 1..n : a[j] = m
  BY DEF Bijection, Injection, Surjection, IsInjective
<1>2. IsFiniteSet(1..n)
  BY FS_Interval
<1>3. IsFiniteSet(S)
  BY <1>2, FS_Subset
<1>4. b \in Bijection(S, T)
  <2>1. b \in [S -> T] /\ (\A j, k \in S : b[j] = b[k] => j = k) /\ \A m \in T : \E j \in S : b[j] = m
    BY <1>1
  <2> HIDE DEF S, b
  <2> QED BY <2>1, IsBijection
<1> HIDE DEF S, b
<1>5. Cardinality(T) = Cardinality(S)
  BY <1>3, <1>4, FS_Bijection DEF ExistsBijection
<1> QED BY <1>5 DEF S

(* The card of sorted rows does not tell how they were sorted. *)
LEMMA TallyAlike ==
  ASSUME NEW file, NEW n \in Nat, Comparable(file, n),
         NEW a \in Bijection(1..n, 1..n), Ascends(file, a),
         NEW b \in Bijection(1..n, 1..n), Ascends(file, b)
  PROVE  Tally([i \in 1..n |-> file[a[i]]]) = Tally([i \in 1..n |-> file[b[i]]])
<1> DEFINE D == 1..n
           s == [i \in D |-> file[a[i]]]
           u == [i \in D |-> file[b[i]]]
<1>1. \A i \in D : a[i] \in D /\ b[i] \in D
  BY DEF Bijection, Injection
<1>2. DOMAIN s = D /\ DOMAIN u = D
  OBVIOUS
<1>3. ASSUME NEW i \in D PROVE s[i].task = u[i].task /\ s[i].cost = u[i].cost
  <2>1. ~LessAccum(file[a[i]], file[b[i]]) /\ ~LessAccum(file[b[i]], file[a[i]])
    BY SortsAlike
  <2>2. \A k \in {a[i], b[i]} : /\ file[k].task \in Nat /\ file[k].attempt \in Nat
                                /\ file[k].cost \in Nat
    BY <1>1 DEF Comparable
  <2> QED BY <2>1, <2>2 DEF LessAccum
(* Every count is one over the rows. *)
<1>4. ASSUME NEW R
      PROVE  Cardinality({i \in D : s[i] \in R}) = Cardinality({i \in D : u[i] \in R})
  <2> DEFINE T == {m \in D : file[m] \in R}
  <2>1. {i \in D : s[i] \in R} = {i \in D : a[i] \in T}
    BY <1>1
  <2>2. {i \in D : u[i] \in R} = {i \in D : b[i] \in T}
    BY <1>1
  <2>3. T \in SUBSET (1..n)
    OBVIOUS
  <2> HIDE DEF T
  <2>4. Cardinality({i \in 1..n : a[i] \in T}) = Cardinality(T)
    BY <2>3, CountOnce
  <2>5. Cardinality({i \in 1..n : b[i] \in T}) = Cardinality(T)
    BY <2>3, CountOnce
  <2> HIDE DEF s, u
  <2> QED BY <2>1, <2>2, <2>4, <2>5
<1> DEFINE file_ == {file[m] : m \in D}
<1>5. \A i \in D : s[i] \in file_ /\ u[i] \in file_
  BY <1>1
<1>6. Quantify(D, LAMBDA i : s[i].passed) = Quantify(D, LAMBDA i : u[i].passed)
  <2> DEFINE R == {r \in file_ : r.passed}
  <2>1. /\ {i \in D : s[i].passed} = {i \in D : s[i] \in R}
        /\ {i \in D : u[i].passed} = {i \in D : u[i] \in R}
    BY <1>5
  <2> HIDE DEF R, s, u
  <2> QED BY <1>4, <2>1 DEF Quantify
<1>7. Kinds(s) = Kinds(u)
  <2>1. \A m \in D : (\E j \in D : a[j] = m) /\ \E j \in D : b[j] = m
    BY DEF Bijection, Surjection
  <2>2. \A i \in D : \E j \in D : u[j] = s[i]
    BY <1>1, <2>1
  <2>3. \A i \in D : \E j \in D : s[j] = u[i]
    BY <1>1, <2>1
  <2> HIDE DEF s, u, D
  <2>4. Kinds(s) \subseteq Kinds(u)
    BY <1>2, <2>2 DEF Kinds
  <2>5. Kinds(u) \subseteq Kinds(s)
    BY <1>2, <2>3 DEF Kinds
  <2> QED BY <2>4, <2>5
<1>8. \A k : Quantify(D, LAMBDA i : ~s[i].passed /\ s[i].kind = k)
               = Quantify(D, LAMBDA i : ~u[i].passed /\ u[i].kind = k)
  <2> SUFFICES ASSUME NEW k
               PROVE  Quantify(D, LAMBDA i : ~s[i].passed /\ s[i].kind = k)
                        = Quantify(D, LAMBDA i : ~u[i].passed /\ u[i].kind = k)
    OBVIOUS
  <2> DEFINE R == {r \in file_ : ~r.passed /\ r.kind = k}
  <2>1. /\ {i \in D : ~s[i].passed /\ s[i].kind = k} = {i \in D : s[i] \in R}
        /\ {i \in D : ~u[i].passed /\ u[i].kind = k} = {i \in D : u[i] \in R}
    BY <1>5
  <2> HIDE DEF R, s, u
  <2> QED BY <1>4, <2>1 DEF Quantify
<1>9. \A t : {i \in D : s[i].task = t} = {i \in D : u[i].task = t}
  BY <1>3
<1>10. \A t : Quantify({i \in D : s[i].task = t}, LAMBDA i : s[i].passed)
                = Quantify({i \in D : u[i].task = t}, LAMBDA i : u[i].passed)
  <2> SUFFICES ASSUME NEW t
               PROVE  Quantify({i \in D : s[i].task = t}, LAMBDA i : s[i].passed)
                        = Quantify({i \in D : u[i].task = t}, LAMBDA i : u[i].passed)
    OBVIOUS
  <2> DEFINE R == {r \in file_ : r.task = t /\ r.passed}
             A == {i \in D : s[i].task = t}
             B == {i \in D : u[i].task = t}
  <2>1. /\ {i \in A : s[i].passed} = {i \in D : s[i] \in R}
        /\ {i \in B : u[i].passed} = {i \in D : u[i] \in R}
    BY <1>5
  <2> HIDE DEF R, s, u, A, B
  <2>2. Quantify(A, LAMBDA i : s[i].passed) = Quantify(B, LAMBDA i : u[i].passed)
    BY <1>4, <2>1 DEF Quantify
  <2> QED BY <2>2 DEF A, B
<1>11. {s[i].task : i \in D} = {u[i].task : i \in D}
  BY <1>3
<1> HIDE DEF s, u, D
<1>12. [i \in D |-> s[i].cost] = [i \in D |-> u[i].cost]
  BY <1>3
<1>13. \A t : [i \in {i \in D : s[i].task = t} |-> s[i].cost]
                = [i \in {i \in D : u[i].task = t} |-> u[i].cost]
  BY <1>3, <1>9
<1> DEFINE Rate(q, t) == [n |-> Cardinality({i \in D : q[i].task = t}),
                          pass |-> Quantify({i \in D : q[i].task = t}, LAMBDA i : q[i].passed),
                          costs |-> [i \in {i \in D : q[i].task = t} |-> q[i].cost]]
           Failed(q, k) == Quantify(D, LAMBDA i : ~q[i].passed /\ q[i].kind = k)
<1>14. \A t : Rate(s, t) = Rate(u, t)
  BY <1>9, <1>10, <1>13
<1>15. [t \in {s[i].task : i \in D} |-> Rate(s, t)] = [t \in {u[i].task : i \in D} |-> Rate(u, t)]
  <2> HIDE DEF Rate
  <2> QED BY <1>11, <1>14
<1>16. [k \in Kinds(s) |-> Failed(s, k)] = [k \in Kinds(u) |-> Failed(u, k)]
  <2>1. \A k : Failed(s, k) = Failed(u, k)
    BY <1>8
  <2> HIDE DEF Failed
  <2> QED BY <1>7, <2>1
<1>17. \A q : DOMAIN q = D =>
         Tally(q) = [attempts |-> Cardinality(D), passes |-> Quantify(D, LAMBDA i : q[i].passed),
                     failures |-> [k \in Kinds(q) |-> Failed(q, k)],
                     costs |-> [i \in D |-> q[i].cost],
                     rates |-> [t \in {q[i].task : i \in D} |-> Rate(q, t)]]
  BY DEF Tally
<1>18. Tally(s) = Tally(u)
  <2> HIDE DEF Failed, Rate
  <2> QED BY <1>2, <1>6, <1>12, <1>15, <1>16, <1>17
<1> QED BY <1>18 DEF s, u, D

(* The rows of a file can be compared. *)
LEMMA FileComparable ==
  ASSUME NEW file \in Seq(FileRow)
  PROVE  /\ DOMAIN file = 1..Len(file) /\ Len(file) \in Nat /\ Comparable(file, Len(file))
         /\ \A k \in 1..Len(file) : file[k] \in FileRow
<1>1. /\ DOMAIN file = 1..Len(file) /\ Len(file) \in Nat
      /\ \A k \in 1..Len(file) : file[k] \in FileRow
  OBVIOUS
<1>2. DOMAIN Suite \subseteq Nat /\ 1..Attempts \subseteq Nat
  BY AttemptAssumption
<1>3. \A r \in FileRow : r.task \in Nat /\ r.attempt \in Nat /\ r.cost \in Nat
  BY <1>2 DEF FileRow
<1> QED BY <1>1, <1>3 DEF Comparable

(* The card of a file is that of the same rows in any other order. *)
LEMMA CardOfRows ==
  ASSUME NEW file, NEW n \in Nat, Comparable(file, n), NEW p \in Bijection(1..n, 1..n)
  PROVE  Build([k \in 1..n |-> file[p[k]]]) = Build(file)
<1> DEFINE other == [k \in 1..n |-> file[p[k]]]
<1>1. p \in [1..n -> 1..n] /\ (\A x, y \in 1..n : p[x] = p[y] => x = y)
      /\ \A z \in 1..n : \E x \in 1..n : p[x] = z
  BY DEF Bijection, Injection, Surjection, IsInjective
<1>2. Comparable(other, n) /\ DOMAIN file = 1..n /\ DOMAIN other = 1..n
  BY <1>1 DEF Comparable
<1>3. \A k \in 1..n : other[k] = file[p[k]]
  OBVIOUS
<1> HIDE DEF other
<1>4. PICK a \in Bijection(1..n, 1..n) :
        SumOrder(file) = [i \in 1..n |-> file[a[i]]] /\ Ascends(file, a)
  BY SortAscends
<1>5. PICK b \in Bijection(1..n, 1..n) :
        SumOrder(other) = [i \in 1..n |-> other[b[i]]] /\ Ascends(other, b)
  BY <1>2, SortAscends
<1> DEFINE c == [i \in 1..n |-> p[b[i]]]
<1>6. b \in [1..n -> 1..n] /\ (\A x, y \in 1..n : b[x] = b[y] => x = y)
      /\ \A z \in 1..n : \E x \in 1..n : b[x] = z
  BY DEF Bijection, Injection, Surjection, IsInjective
<1>7. c \in Bijection(1..n, 1..n)
  <2>1. c \in [1..n -> 1..n] /\ \A i \in 1..n : c[i] = p[b[i]]
    BY <1>1, <1>6
  <2> HIDE DEF c
  <2>2. ASSUME NEW x \in 1..n, NEW y \in 1..n, c[x] = c[y] PROVE x = y
    <3>1. b[x] \in 1..n /\ b[y] \in 1..n /\ p[b[x]] = p[b[y]]
      BY <1>6, <2>1, <2>2
    <3>2. b[x] = b[y]
      BY <1>1, <3>1
    <3> QED BY <1>6, <3>2
  <2>3. \A z \in 1..n : \E x \in 1..n : c[x] = z
    <3> SUFFICES ASSUME NEW z \in 1..n PROVE \E x \in 1..n : c[x] = z
      OBVIOUS
    <3>1. PICK y \in 1..n : p[y] = z
      BY <1>1
    <3>2. PICK x \in 1..n : b[x] = y
      BY <1>6
    <3> QED BY <2>1, <3>1, <3>2
  <2> QED BY <2>1, <2>2, <2>3, IsBijection
<1>8. \A i \in 1..n : b[i] \in 1..n /\ c[i] = p[b[i]] /\ other[b[i]] = file[c[i]]
  BY <1>3, <1>6
<1> HIDE DEF c
<1>9. Ascends(file, c)
  BY <1>2, <1>5, <1>8 DEF Ascends
<1>10. SumOrder(other) = [i \in 1..n |-> file[c[i]]]
  BY <1>5, <1>8
<1>11. Tally([i \in 1..n |-> file[c[i]]]) = Tally([i \in 1..n |-> file[a[i]]])
  BY <1>4, <1>7, <1>9, TallyAlike
<1> QED BY <1>4, <1>10, <1>11 DEF Build, other

(* Every row has passed, is in the taxonomy, or failed with no kind. *)
LEMMA CardComplete ==
  ASSUME NEW file, NEW n \in Nat, Comparable(file, n)
  PROVE  Build(file).attempts =
           Build(file).passes + SumFunction(Build(file).failures)
             + Cardinality({m \in 1..n : ~file[m].passed /\ file[m].kind = ""})
<1> DEFINE D == 1..n
<1>1. PICK a \in Bijection(D, D) : SumOrder(file) = [i \in D |-> file[a[i]]]
  BY SortAscends
<1> DEFINE s == [i \in D |-> file[a[i]]]
           P == {m \in D : file[m].passed}
           F == {m \in D : ~file[m].passed /\ file[m].kind # ""}
           J == {m \in D : ~file[m].passed /\ file[m].kind = ""}
           S == {i \in D : ~s[i].passed /\ s[i].kind # ""}
           K == Kinds(s)
           failures == [k \in K |-> Quantify(D, LAMBDA i : ~s[i].passed /\ s[i].kind = k)]
<1>2. IsFiniteSet(D) /\ Cardinality(D) = n
  BY FS_Interval
<1>3. \A i \in D : a[i] \in D /\ s[i] = file[a[i]]
  BY DEF Bijection, Injection
<1>4. /\ Build(file).attempts = n
      /\ Build(file).passes = Quantify(D, LAMBDA i : s[i].passed)
      /\ Build(file).failures = failures
  <2>1. Build(file) = Tally(s) /\ DOMAIN s = D
    BY <1>1 DEF Build
  <2> HIDE DEF s, D
  <2> QED BY <1>2, <2>1 DEF Tally
<1>5. Quantify(D, LAMBDA i : s[i].passed) = Cardinality(P)
  <2>1. {i \in D : s[i].passed} = {i \in D : a[i] \in P}
    BY <1>3
  <2>2. P \in SUBSET (1..n)
    OBVIOUS
  <2> HIDE DEF P, s
  <2>3. Cardinality({i \in 1..n : a[i] \in P}) = Cardinality(P)
    BY <2>2, CountOnce
  <2> QED BY <2>1, <2>3 DEF Quantify
<1>6. Cardinality(S) = Cardinality(F)
  <2>1. S = {i \in D : a[i] \in F}
    BY <1>3
  <2>2. F \in SUBSET (1..n)
    OBVIOUS
  <2> HIDE DEF F, s, S
  <2>3. Cardinality({i \in 1..n : a[i] \in F}) = Cardinality(F)
    BY <2>2, CountOnce
  <2> QED BY <2>1, <2>3
<1>7. SumFunction(failures) = Cardinality(S)
  <2> DEFINE h == [i \in S |-> s[i].kind]
  <2>1. K = {s[k].kind : k \in {k \in D : ~s[k].passed}} \ {""}
    BY DEF Kinds
  <2>2. h \in [S -> K]
    <3> HIDE DEF s, K
    <3> QED BY <2>1
  <2>3. IsFiniteSet(S)
    BY <1>2, FS_Subset
  <2>4. IsFiniteSet(K)
    <3> DEFINE A == {k \in D : ~s[k].passed}
               B == {s[k].kind : k \in A}
    <3>1. IsFiniteSet(A)
      BY <1>2, FS_Subset
    <3>2. IsFiniteSet(B)
      <4> HIDE DEF s, A
      <4> DEFINE g == [k \in A |-> s[k].kind]
      <4>1. g \in Surjection(A, B)
        BY DEF Surjection
      <4> HIDE DEF g, B
      <4> QED BY <3>1, <4>1, FS_Surjection
    <3>3. K \in SUBSET B
      BY <2>1
    <3> HIDE DEF B, K
    <3> QED BY <3>2, <3>3, FS_Subset
  <2>5. \A k \in K : Quantify(D, LAMBDA i : ~s[i].passed /\ s[i].kind = k)
                       = Cardinality({x \in S : h[x] = k})
    <3> SUFFICES ASSUME NEW k \in K
                 PROVE  Quantify(D, LAMBDA i : ~s[i].passed /\ s[i].kind = k)
                          = Cardinality({x \in S : h[x] = k})
      OBVIOUS
    <3>1. k # ""
      <4> HIDE DEF K
      <4> QED BY <2>1
    <3> HIDE DEF s, K
    <3>2. {i \in D : ~s[i].passed /\ s[i].kind = k} = {x \in S : h[x] = k}
      BY <3>1
    <3> HIDE DEF S, h
    <3> QED BY <3>2 DEF Quantify
  <2>6. failures = [k \in K |-> Cardinality({x \in S : h[x] = k})]
    <3> HIDE DEF s, K, h, S
    <3> QED BY <2>5
  <2> HIDE DEF s, K, h, S, failures
  <2> QED BY <2>2, <2>3, <2>4, <2>6, SumOfClasses
<1>8. n = Cardinality(P) + Cardinality(F) + Cardinality(J)
  <2>1. D = P \cup (F \cup J) /\ P \cap (F \cup J) = {} /\ F \cap J = {}
    OBVIOUS
  <2>2. /\ IsFiniteSet(P) /\ IsFiniteSet(F) /\ IsFiniteSet(J)
    BY <1>2, FS_Subset
  <2> HIDE DEF P, F, J, D
  <2>3. /\ Cardinality({}) = 0 /\ Cardinality(P) \in Nat /\ Cardinality(F) \in Nat
        /\ Cardinality(J) \in Nat
    BY <2>2, FS_EmptySet, FS_CardinalityType
  <2>4. /\ IsFiniteSet(F \cup J)
        /\ Cardinality(F \cup J) = Cardinality(F) + Cardinality(J) - Cardinality(F \cap J)
    BY <2>2, FS_Union
  <2>5. Cardinality(P \cup (F \cup J))
          = Cardinality(P) + Cardinality(F \cup J) - Cardinality(P \cap (F \cup J))
    BY <2>2, <2>4, FS_Union
  <2>6. Cardinality(P \cup (F \cup J)) = n
    BY <1>2, <2>1
  <2>7. Cardinality(F \cap J) = 0 /\ Cardinality(P \cap (F \cup J)) = 0
    BY <2>1, <2>3
  <2> QED BY <2>3, <2>4, <2>5, <2>6, <2>7
<1> HIDE DEF P, F, J, S, s, failures
<1>9. Cardinality(P) \in Nat /\ Cardinality(F) \in Nat /\ Cardinality(J) \in Nat
  BY <1>2, FS_Subset, FS_CardinalityType DEF P, F, J
<1>10. Build(file).attempts = Build(file).passes + SumFunction(Build(file).failures) + Cardinality(J)
  BY <1>4, <1>5, <1>6, <1>7, <1>8, <1>9
<1> QED BY <1>10 DEF J

(* A row without a kind is one that its checkers judged, and only they can   *)
(* have failed it.                                                         *)
Told(r) == r.judged <=> r.kind = ""

Explained ==
  /\ pc \in {"check", "cost", "row"} => Told(row)
  /\ \A k \in 1..Len(rows) : Told(rows[k])

LEMMA ErrRowTold ==
  ASSUME NEW kind \in {"timeout", "error"}, NEW ok \in BOOLEAN PROVE Told(ErrRow(kind, ok))
  BY DEF Told, ErrRow, NoRow

LEMMA StepExplained == Typed /\ Explained /\ [Next]_vars => Explained'
<1> SUFFICES ASSUME Typed, Explained, [Next]_vars PROVE Explained'
  OBVIOUS
<1>0. pc \in Points /\ row \in RowRecord /\ rows \in Seq(FileRow)
  BY DEF Typed
<1> USE DEF GoTo, suiteVars, turnVars, daemonVars, fileVars
(* With the file as it is, only the row matters. *)
<1>1. ASSUME rows' = rows, pc' \in {"check", "cost", "row"} => Told(row') PROVE Explained'
  BY <1>1 DEF Explained
<1>2. CASE CreateErr
  BY <1>1, <1>2, ErrRowTold DEF CreateErr
<1>3. CASE OpenErr
  <2>1. PICK ok \in BOOLEAN : row' = ErrRow("error", ok)
    BY <1>3 DEF OpenErr, FinishErr
  <2> QED BY <1>1, <1>3, <2>1, ErrRowTold DEF OpenErr
<1>4. CASE TurnErr
  <2>1. PICK kind \in {"timeout", "error"}, ok \in BOOLEAN : row' = ErrRow(kind, ok)
    BY <1>4 DEF TurnErr, FinishErr
  <2> QED BY <1>1, <1>4, <2>1, ErrRowTold DEF TurnErr
<1>5. CASE Route
  <2>1. PICK ok \in BOOLEAN : \E statuses :
          row' = [NoRow EXCEPT !.verdict = RouteVerdict(statuses),
                       !.kind = RouteKind(RouteVerdict(statuses)), !.wrote = ok,
                       !.passed = RouteVerdict(statuses) = "pass",
                       !.judged = RouteVerdict(statuses) = "pass"]
    BY <1>5 DEF Route
  <2>2. PICK statuses :
          row' = [NoRow EXCEPT !.verdict = RouteVerdict(statuses),
                       !.kind = RouteKind(RouteVerdict(statuses)), !.wrote = ok,
                       !.passed = RouteVerdict(statuses) = "pass",
                       !.judged = RouteVerdict(statuses) = "pass"]
    BY <2>1
  <2> DEFINE v == RouteVerdict(statuses)
             kind == RouteKind(v)
  <2>3. (v = "pass") <=> (kind = "")
    BY DEF RouteVerdict, RouteKind
  <2>4. row' = [NoRow EXCEPT !.verdict = v, !.kind = kind, !.wrote = ok,
                             !.passed = v = "pass", !.judged = v = "pass"]
    BY <2>2
  <2> HIDE DEF v, kind
  <2>5. Told(row')
    BY <2>3, <2>4 DEF NoRow, Told
  <2>6. rows' = rows
    BY <1>5 DEF Route
  <2> QED BY <1>1, <2>5, <2>6
<1>6. CASE Check \/ Cost
  <2>1. row'.judged = row.judged /\ row'.kind = row.kind /\ rows' = rows /\ pc \in {"check", "cost"}
    BY <1>0, <1>6 DEF Check, Cost, RowRecord
  <2> QED BY <1>1, <2>1 DEF Explained, Told
<1>7. CASE Row
  <2> DEFINE new == [task |-> task.id, attempt |-> Name[2], run |-> runs, nth |-> made,
                     passed |-> row.passed, kind |-> row.kind, cost |-> row.cost,
                     snapshot |-> row.snapshot, judged |-> row.judged, wrote |-> row.wrote]
  <2>1. Told(new)
    BY <1>7 DEF Row, Explained, Told
  <2>2. rows' = rows \/ rows' = Append(rows, new)
    BY <1>7 DEF Row
  <2>3. pc' \in {"create", "off"}
    BY <1>7 DEF Row
  <2> HIDE DEF new
  <2>4. CASE rows' = Append(rows, new)
    <3>1. \A k \in 1..Len(rows') : (k \in 1..Len(rows) /\ rows'[k] = rows[k]) \/ rows'[k] = new
      BY <1>0, <2>4
    <3> QED BY <2>1, <2>3, <3>1 DEF Explained
  <2> QED BY <1>1, <2>2, <2>3, <2>4
<1>8. CASE rows' = rows /\ (UNCHANGED <<pc, row>> \/ pc' \in {"create", "snapshot", "turn", "route"})
  BY <1>1, <1>8 DEF Explained
<1> QED
  BY <1>2, <1>3, <1>4, <1>5, <1>6, <1>7, <1>8
     DEF Next, Launch, Open, Snapshot, Turn, Cancel, Traffic, Rollover, Finished, vars

-----------------------------------------------------------------------------
Inductive == Typed /\ Others /\ UnderWay /\ Beside /\ Counted

LEMMA InitInductive == Init => Inductive
  BY InitAll, InitOthers DEF Init, Inductive, Counted, CostWhole

LEMMA StepInductive == Inductive /\ [Next]_vars => Inductive'
<1>1. Others => Worked
  BY DEF Others
<1> QED BY <1>1, StepTyped, StepOthers, StepUnderWay, StepBeside, StepCounted DEF Inductive

LEMMA Invariance == Spec => []Inductive
  BY InitInductive, StepInductive, PTL DEF Spec

(* Every variable keeps its type, whatever the daemon and the faults do. *)
THEOREM TypeCorrect == Spec => []TypeOK
<1>1. Inductive => TypeOK
  <2> SUFFICES ASSUME Inductive PROVE TypeOK
    OBVIOUS
  <2>1. Typed /\ Others
    BY DEF Inductive
  <2>2. row \in RowRecord /\ rows \in Seq(FileRow) /\ seen \in Finding
    BY <2>1 DEF Typed, Others
  <2>3. /\ pc \in Points /\ runs \in 0..MaxRuns /\ made \in Nat
        /\ {cancelled, fresh, rolled} \subseteq BOOLEAN
        /\ before \in Nat \cup {NoStatus}
        /\ transcripts \in [Files -> (0..MaxRuns) \X Nat] /\ {used, spent, own} \subseteq Nat
    BY <2>1 DEF Typed, Others
  <2>4. /\ routed \in Entry /\ log \in Seq(Entry) /\ work \in Works \cup {<<>>}
        /\ traffic \in 0..MaxTraffic /\ rollovers \in 0..MaxRollovers /\ faults \in 0..MaxFaults
    BY <2>1 DEF Others
  <2> QED BY <2>2, <2>3, <2>4 DEF TypeOK, Points, RowRecord, FileRow, Finding
<1> QED BY <1>1, Invariance, PTL

(* After a run no row of it has an earlier run's transcript beside it: it   *)
(* has its own, or that of a later attempt of the run with the same file    *)
(* name, which ids that are the same or are sanitized alike give.           *)
THEOREM RowsHaveTranscripts == Spec => []TranscriptsMatchRows
<1>1. Inductive => TranscriptsMatchRows
  <2> SUFFICES ASSUME Inductive, pc = "off", NEW k \in DOMAIN rows, rows[k].run = runs,
                      rows[k].wrote
               PROVE  \E n \in (rows[k].nth)..(made - 1) : WrittenBy(rows[k].nth, n)
    BY DEF TranscriptsMatchRows, WrittenBy
  <2>1. rows \in Seq(FileRow) /\ made \in Nat /\ k \in 1..Len(rows) /\ rows[k] \in FileRow
    BY DEF Inductive, Typed
  <2>2. rows[k].nth \in Nat
    BY <2>1 DEF FileRow
  <2>3. PICK n \in (rows[k].nth)..made : WrittenBy(rows[k].nth, n) /\ n # made
    BY <2>1, <2>2 DEF Inductive, Beside
  <2>4. n \in (rows[k].nth)..(made - 1)
    BY <2>1, <2>2, <2>3
  <2> QED BY <2>3, <2>4
<1> QED BY <1>1, Invariance, PTL

(* Whatever other clients spend, a row is charged its own turn in full     *)
(* unless the counter was reset between its two snapshots.                 *)
THEOREM ChargedInFull == Spec => []CostWhole
<1>1. Inductive => CostWhole
  BY DEF Inductive, Counted
<1> QED BY <1>1, Invariance, PTL

(* No row passes on evidence that is missing or another dispatch's, or with *)
(* a checker that did not succeed.                                         *)
THEOREM NoUnearnedPass == Spec => []PassIsEarned
<1>1. Init => Inductive /\ Earned
  BY InitInductive DEF Init, Earned, PassIsEarned
<1>2. Inductive /\ Earned /\ [Next]_vars => (Inductive /\ Earned)'
  BY StepInductive, StepEarned DEF Inductive
<1>3. Inductive /\ Earned => PassIsEarned
  BY DEF Earned
<1> QED BY <1>1, <1>2, <1>3, PTL DEF Spec

(* A failing row reports what its agent staged, whatever the order in which *)
(* the trace has the events of parallel calls.                             *)
THEOREM PendingComplete == Spec => []StagedReported
<1>1. Init => Inductive /\ StagedReported
  BY InitInductive DEF Init, StagedReported
<1>2. Inductive /\ StagedReported /\ [Next]_vars => (Inductive /\ StagedReported)'
  BY StepInductive, StepStaged DEF Inductive, Others
<1> QED BY <1>1, <1>2, PTL DEF Spec

(* However long the file, the rows charge no more than was spent. *)
THEOREM NothingChargedTwice == Spec => []CostBounded
<1>1. Init => Inductive /\ Paid
  <2> SUFFICES ASSUME Init PROVE Paid
    BY InitInductive
  <2>1. rows = <<>> /\ spent = 0 /\ pc = "off"
    BY DEF Init
  <2>2. Charges(<<>>) = 0
    <3> DEFINE f == [k \in {k \in DOMAIN <<>> : <<>>[k].snapshot} |-> <<>>[k].cost]
    <3>1. DOMAIN f = {}
      OBVIOUS
    <3>2. Charges(<<>>) = SumFunctionOnSet(f, DOMAIN f)
      BY DEF Charges, SumFunction
    <3> HIDE DEF f
    <3> QED BY <3>1, <3>2, SumEmpty
  <2> QED BY <2>1, <2>2 DEF Paid
<1>2. Inductive /\ Paid /\ [Next]_vars => (Inductive /\ Paid)'
  BY StepInductive, StepPaid DEF Inductive
<1>3. Paid => CostBounded
  BY DEF Paid, CostBounded, Charges
<1> QED BY <1>1, <1>2, <1>3, PTL DEF Spec

(* The card does not depend on the order of the rows, not in a bit of its   *)
(* sums: of any file, also one that several runs wrote to.                 *)
THEOREM CardOfAnyOrder == Spec => []CardOrderFree
<1>1. Inductive => CardOrderFree
  <2> SUFFICES ASSUME Inductive, NEW p \in Bijection(DOMAIN rows, DOMAIN rows)
               PROVE  Build([k \in DOMAIN rows |-> rows[p[k]]]) = Build(rows)
    BY DEF CardOrderFree
  <2>1. rows \in Seq(FileRow)
    BY DEF Inductive, Typed
  <2>2. DOMAIN rows = 1..Len(rows) /\ Len(rows) \in Nat /\ Comparable(rows, Len(rows))
    BY <2>1, FileComparable
  <2>3. p \in Bijection(1..Len(rows), 1..Len(rows))
    BY <2>2
  <2>4. Build([k \in 1..Len(rows) |-> rows[p[k]]]) = Build(rows)
    BY <2>2, <2>3, CardOfRows
  <2> QED BY <2>2, <2>4
<1> QED BY <1>1, Invariance, PTL

(* The attempts of a card are its passes, its failures by kind, and the     *)
(* failures of rows that the checkers judged: these have no kind, and the   *)
(* taxonomy does not show them.  So no failed row is counted twice, and none *)
(* without a kind is anything but judged.                                   *)
THEOREM EveryFailureCounted == Spec => []TaxonomyComplete
<1>1. Init => Inductive /\ Explained
  BY InitInductive DEF Init, Explained
<1>2. Inductive /\ Explained /\ [Next]_vars => (Inductive /\ Explained)'
  BY StepInductive, StepExplained DEF Inductive
<1>3. Inductive /\ Explained => TaxonomyComplete
  <2> SUFFICES ASSUME Inductive, Explained PROVE TaxonomyComplete
    OBVIOUS
  <2>1. rows \in Seq(FileRow)
    BY DEF Inductive, Typed
  <2> DEFINE n == Len(rows)
             J == {m \in 1..n : ~rows[m].passed /\ rows[m].kind = ""}
  <2>2. /\ DOMAIN rows = 1..n /\ n \in Nat /\ Comparable(rows, n)
        /\ \A k \in 1..n : rows[k] \in FileRow
    BY <2>1, FileComparable
  <2>3. {k \in DOMAIN rows : rows[k].judged /\ ~rows[k].passed} = J
    BY <2>2 DEF Explained, Told, FileRow
  <2> HIDE DEF n
  <2>4. Build(rows).attempts =
          Build(rows).passes + SumFunction(Build(rows).failures) + Cardinality(J)
    BY <2>2, CardComplete
  <2> HIDE DEF J
  <2> QED BY <2>3, <2>4 DEF TaxonomyComplete, Quantify
<1> QED BY <1>1, <1>2, <1>3, PTL DEF Spec
=============================================================================
