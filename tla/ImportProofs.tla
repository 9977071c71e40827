---------------------------- MODULE ImportProofs ----------------------------
(***************************************************************************)
(* What a manifest says is so, for any dataset, configurations, number of   *)
(* imports, faults and kills.  The inductive invariant is                  *)
(*   Typed     the types of what the import works on; Others, of the rest   *)
(*   Sourced   items come from the revision that will be recorded           *)
(*   Named     the i-th task is the i-th item's                             *)
(*   Chosen    what was read so far are as many items as will be asked for  *)
(*   Sampling  and with a seed those in the places Algorithm R keeps        *)
(*   Written   the sessions of the tasks emitted so far are in their files  *)
(*   Traced    a manifest's tasks are items of the revision it records      *)
(*   Selected  and those that its configuration asks for                    *)
(* and DataMatches.                                                        *)
(***************************************************************************)
EXTENDS Import, SequenceTheorems, Sums

Reading == {"stream", "page"}
Points == {"off", "resolve", "fetch", "emit"} \cup Reading

Typed ==
  /\ head \in Revisions /\ pc \in Points
  /\ pc # "off" => cfg \in Configs
  /\ pc \in {"fetch", "emit"} \cup Reading => rev \in Revisions
  /\ items \in Seq(Item) /\ n \in Nat
  /\ tasks \in Seq(Task)
  /\ data \in [Paths -> Sessions \cup {Nothing, Torn}]

Rows(r) == {Data[r][i] : i \in 1..MaxItems}

Sourced ==
  /\ pc \in {"emit"} \cup Reading => src = rev
  /\ pc \in {"emit"} \cup Reading => \A i \in 1..Len(items) : items[i] \in Rows(src)
  /\ pc \in {"resolve", "fetch"} => items = <<>> /\ n = 0
  /\ pc \in {"resolve", "fetch"} \cup Reading => tasks = <<>>
  /\ pc \in {"resolve", "fetch"} \cup Reading => Len(items) <= n /\ n <= MaxItems
  /\ Len(items) <= MaxItems

Named ==
  /\ Len(tasks) <= Len(items)
  /\ \A i \in 1..Len(tasks) : tasks[i].item = items[i] /\ tasks[i].id = TaskID(i, items[i].q)

Traced ==
  Saved => /\ manifest.rev \in Revisions
           /\ manifest.tasks \in Seq(Task)
           /\ \A i \in 1..Len(manifest.tasks) : manifest.tasks[i].item \in Rows(manifest.rev)

Matches(ts) ==
  \A i \in 1..Len(ts) : \A j \in 1..Len(ts[i].item.hay) :
    data[Path(ts[i].id, j)] = ts[i].item.hay[j]

Written ==
  pc = "emit" /\ cfg.mode = "context" => Matches(tasks)

-----------------------------------------------------------------------------
(* The smaller of two numbers. *)
LEMMA MinPair ==
  ASSUME NEW a \in Int, NEW b \in Int
  PROVE  Min({a, b}) \in {a, b} /\ Min({a, b}) <= a /\ Min({a, b}) <= b
<1>1. \E x \in {a, b} : \A y \in {a, b} : x <= y
  <2>1. CASE a <= b
    BY <2>1
  <2>2. CASE b <= a
    BY <2>2
  <2> QED BY <2>1, <2>2
<1> QED BY <1>1 DEF Min

LEMMA MaxPair ==
  ASSUME NEW a \in Int, NEW b \in Int
  PROVE  Max({a, b}) \in {a, b}
<1>1. \E x \in {a, b} : \A y \in {a, b} : x >= y
  <2>1. CASE a <= b
    BY <2>1
  <2>2. CASE b <= a
    BY <2>2
  <2> QED BY <2>1, <2>2
<1> QED BY <1>1 DEF Max

(* A page holds rows of the split, no more than there are left. *)
LEMMA PageRows ==
  ASSUME NEW r \in Revisions, NEW limit \in Nat, NEW have \in Nat, NEW m \in Nat,
         m < Len(Data[r]),
         NEW k \in 1..Min({PageSize(limit, have), Len(Data[r]) - m})
  PROVE  /\ m + k <= MaxItems
         /\ SubSeq(Data[r], m + 1, m + k) \in Seq(Item)
         /\ Len(SubSeq(Data[r], m + 1, m + k)) = k
         /\ \A i \in 1..k : SubSeq(Data[r], m + 1, m + k)[i] \in Rows(r)
<1>1. Data[r] \in Seq(Item) /\ Len(Data[r]) = MaxItems /\ MaxItems \in Nat /\ PageCap \in Nat
  BY ImportAssumption
<1>2. PageSize(limit, have) \in Int
  <2>1. Max({1, limit - have}) \in {1, limit - have}
    BY MaxPair
  <2> QED BY <1>1, <2>1 DEF PageSize
<1>3. k \in 1..(MaxItems - m)
  <2> DEFINE a == PageSize(limit, have)
             b == MaxItems - m
  <2>1. a \in Int /\ b \in Int
    BY <1>1, <1>2
  <2> HIDE DEF a, b
  <2>2. Min({a, b}) \in {a, b} /\ Min({a, b}) <= b
    BY <2>1, MinPair
  <2>3. k \in 1..Min({a, b})
    BY <1>1 DEF a, b
  <2>4. k \in 1..b
    BY <2>1, <2>2, <2>3
  <2> QED BY <2>4 DEF b
<1>4. SubSeq(Data[r], m + 1, m + k) = [i \in 1..k |-> Data[r][i + m]]
  BY <1>1, <1>3
<1> QED BY <1>1, <1>3, <1>4 DEF Rows

LEMMA RowOf ==
  ASSUME NEW r \in Revisions, NEW i \in 1..Len(Data[r])
  PROVE  Data[r][i] \in Item /\ Data[r][i] \in Rows(r)
  BY ImportAssumption DEF Rows

(* Rows appended to rows. *)
LEMMA AppendRows ==
  ASSUME NEW r \in Revisions, NEW kept \in Seq(Item), NEW rows \in Seq(Item),
         \A i \in 1..Len(kept) : kept[i] \in Rows(r),
         \A i \in 1..Len(rows) : rows[i] \in Rows(r)
  PROVE  /\ kept \o rows \in Seq(Item) /\ Len(kept \o rows) = Len(kept) + Len(rows)
         /\ \A i \in 1..Len(kept \o rows) : (kept \o rows)[i] \in Rows(r)
<1>1. /\ kept \o rows \in Seq(Item) /\ Len(kept \o rows) = Len(kept) + Len(rows)
      /\ Len(kept) \in Nat /\ Len(rows) \in Nat
  OBVIOUS
<1>2. ASSUME NEW i \in 1..(Len(kept) + Len(rows)) PROVE (kept \o rows)[i] \in Rows(r)
  <2>1. CASE i <= Len(kept)
    BY <1>1, <2>1
  <2>2. CASE i > Len(kept)
    <3>1. i - Len(kept) \in 1..Len(rows) /\ (kept \o rows)[i] = rows[i - Len(kept)]
      BY <1>1, <2>2
    <3> QED BY <3>1
  <2> QED BY <1>1, <2>1, <2>2
<1> QED BY <1>1, <1>2

(* A page appended to what was kept of the pages before it. *)
LEMMA PageKept ==
  ASSUME NEW r \in Revisions, NEW limit \in Nat, NEW m \in Nat, m < Len(Data[r]),
         NEW kept \in Seq(Item), Len(kept) <= m, \A i \in 1..Len(kept) : kept[i] \in Rows(r),
         NEW k \in 1..Min({PageSize(limit, Len(kept)), Len(Data[r]) - m}),
         NEW new, new = kept \o SubSeq(Data[r], m + 1, m + k)
  PROVE  /\ new \in Seq(Item) /\ Len(new) <= m + k /\ m + k <= MaxItems /\ m + k \in Nat
         /\ \A i \in 1..Len(new) : new[i] \in Rows(r)
<1> DEFINE rows == SubSeq(Data[r], m + 1, m + k)
<1>1. Len(kept) \in Nat
  OBVIOUS
<1>2. /\ m + k <= MaxItems /\ rows \in Seq(Item) /\ Len(rows) = k
      /\ \A i \in 1..k : rows[i] \in Rows(r)
  BY <1>1, PageRows
<1> HIDE DEF rows
<1>3. new = kept \o rows
  BY DEF rows
<1>4. /\ new \in Seq(Item) /\ Len(new) = Len(kept) + k
      /\ \A i \in 1..Len(new) : new[i] \in Rows(r)
  BY <1>2, <1>3, AppendRows
<1>5. k \in Nat
  BY <1>2
<1> QED BY <1>1, <1>2, <1>4, <1>5

(* A round of Algorithm R keeps items of the split, one more at most. *)
LEMMA PlaceRows ==
  ASSUME NEW r \in Revisions, NEW kept \in Seq(Item), NEW limit \in Nat, NEW j,
         NEW i \in 1..Len(Data[r]), \A k \in 1..Len(kept) : kept[k] \in Rows(r)
  PROVE  /\ Place(kept, Data[r][i], limit, j) \in Seq(Item)
         /\ Len(Place(kept, Data[r][i], limit, j)) <= Len(kept) + 1
         /\ \A k \in 1..Len(Place(kept, Data[r][i], limit, j)) :
              Place(kept, Data[r][i], limit, j)[k] \in Rows(r)
<1>1. Data[r][i] \in Item /\ Data[r][i] \in Rows(r)
  BY RowOf
<1>2. CASE Place(kept, Data[r][i], limit, j) = Append(kept, Data[r][i])
  BY <1>1, <1>2
<1>3. CASE Place(kept, Data[r][i], limit, j) = [kept EXCEPT ![j + 1] = Data[r][i]]
  <2>1. [kept EXCEPT ![j + 1] = Data[r][i]] \in Seq(Item)
    <3>1. CASE j + 1 \in 1..Len(kept)
      BY <1>1, <3>1, ExceptSeq
    <3>2. CASE j + 1 \notin 1..Len(kept)
      <4>1. kept \in [1..Len(kept) -> Item]
        OBVIOUS
      <4>2. [kept EXCEPT ![j + 1] = Data[r][i]] = kept
        BY <3>2, <4>1
      <4> QED BY <4>2
    <3> QED BY <3>1, <3>2
  <2>2. Len([kept EXCEPT ![j + 1] = Data[r][i]]) = Len(kept)
    BY <1>1
  <2>3. \A k \in 1..Len(kept) : [kept EXCEPT ![j + 1] = Data[r][i]][k] \in Rows(r)
    BY <1>1
  <2> QED BY <1>3, <2>1, <2>2, <2>3
<1>4. CASE Place(kept, Data[r][i], limit, j) = kept
  BY <1>4
<1> QED BY <1>2, <1>3, <1>4 DEF Place

-----------------------------------------------------------------------------
LEMMA InitSourced == Init => Typed /\ Sourced /\ Named /\ Traced /\ Written
  BY ImportAssumption
     DEF Init, Typed, Points, Reading, Sourced, Named, Traced, Saved, Written, Paths

-----------------------------------------------------------------------------
(* The item that is emitted next, and its task. *)
NextItem == items[Next1]
NextTask == [id |-> TaskID(Next1, NextItem.q), item |-> NextItem]

LEMMA NextTyped ==
  ASSUME Typed, Sourced, Named, EmitItem
  PROVE  /\ Next1 \in 1..Len(items) /\ Next1 \in 1..MaxItems /\ Next1 = Len(tasks) + 1
         /\ NextItem \in Item /\ NextItem.hay \in Seq(Sessions)
         /\ Len(NextItem.hay) \in Nat /\ Len(NextItem.hay) <= MaxSessions
         /\ NextTask \in Task
         /\ NextTask.item = NextItem /\ NextTask.id = <<Next1, NextItem.q>>
<1>1. Len(tasks) < Len(items) /\ Len(items) \in Nat /\ Len(tasks) \in Nat
  BY DEF Typed, EmitItem
<1>2. Next1 \in 1..Len(items) /\ Next1 \in 1..MaxItems /\ Next1 = Len(tasks) + 1
  BY <1>1, ImportAssumption DEF Sourced, Next1
<1>3. NextItem \in Item /\ NextItem \in Rows(src) /\ src \in Revisions
  BY <1>2, ImportAssumption DEF Typed, Sourced, NextItem, EmitItem
<1>4. NextItem.hay \in Seq(Sessions) /\ NextItem.q \in Questions
  BY <1>3 DEF Item
<1>5. Len(NextItem.hay) <= MaxSessions
  BY <1>3, ImportAssumption DEF Rows
<1>6. NextTask \in Task
  BY <1>2, <1>3, <1>4 DEF NextTask, Task, TaskID
<1> QED BY <1>2, <1>3, <1>4, <1>5, <1>6 DEF NextTask, TaskID

(* Emitting an item writes its own files only, all of them if its task is   *)
(* added, and marks what it writes.                                        *)
LEMMA EmitWrites ==
  ASSUME Typed, Sourced, Named, EmitItem
  PROVE  /\ data' \in [Paths -> Sessions \cup {Nothing, Torn}]
         /\ \A p \in Paths : p[1] # Next1 => data'[p] = data[p]
         /\ (data' = data /\ dirty' = dirty) \/ dirty' = TRUE
         /\ \/ tasks' = tasks
            \/ /\ tasks' = Append(tasks, NextTask)
               /\ cfg.mode # "memory" =>
                    \A j \in 1..Len(NextItem.hay) :
                      Path(NextTask.id, j) \in Paths =>
                        data'[Path(NextTask.id, j)] = NextItem.hay[j]
         /\ tasks' = tasks \/ pc' = pc
<1>1. CASE /\ data' = data /\ dirty' = dirty
           /\ \/ tasks' = tasks
              \/ tasks' = Append(tasks, NextTask) /\ cfg.mode = "memory" /\ pc' = pc
  BY <1>1 DEF Typed
<1>2. ASSUME NEW k \in 1..Len(NextItem.hay), NEW whole \in BOOLEAN,
             data' = [p \in Paths |->
               IF \E j \in 1..k : p = Path(NextTask.id, j)
               THEN IF p[3] = k /\ ~whole THEN Torn ELSE NextItem.hay[p[3]]
               ELSE data[p]],
             dirty' = TRUE,
             IF k < Len(NextItem.hay) \/ ~whole THEN tasks' = tasks
             ELSE tasks' = Append(tasks, NextTask) /\ pc' = pc
      PROVE  /\ data' \in [Paths -> Sessions \cup {Nothing, Torn}]
             /\ \A p \in Paths : p[1] # Next1 => data'[p] = data[p]
             /\ tasks' # tasks =>
                  \A j \in 1..Len(NextItem.hay) :
                    Path(NextTask.id, j) \in Paths =>
                      data'[Path(NextTask.id, j)] = NextItem.hay[j]
  <2>1. /\ Next1 \in 1..MaxItems
        /\ NextItem.hay \in Seq(Sessions) /\ Len(NextItem.hay) \in Nat
        /\ NextTask.id = <<Next1, NextItem.q>>
    BY NextTyped
  <2>2. \A j : Path(NextTask.id, j)[1] = Next1 /\ Path(NextTask.id, j)[3] = j
    BY <2>1 DEF Path
  <2>3. \A j \in 1..Len(NextItem.hay) : NextItem.hay[j] \in Sessions
    BY <2>1
  <2>4. ASSUME NEW p \in Paths PROVE data'[p] \in Sessions \cup {Nothing, Torn}
    <3>1. data[p] \in Sessions \cup {Nothing, Torn}
      BY DEF Typed
    <3>2. CASE \E j \in 1..k : p = Path(NextTask.id, j)
      <4>1. p[3] \in 1..k
        BY <2>2, <3>2
      <4>2. NextItem.hay[p[3]] \in Sessions
        BY <1>2, <2>1, <2>3, <4>1
      <4> QED BY <1>2, <3>2, <4>2
    <3> QED BY <1>2, <3>1, <3>2
  <2>5. data' \in [Paths -> Sessions \cup {Nothing, Torn}]
    BY <1>2, <2>4
  <2>6. \A p \in Paths : p[1] # Next1 => data'[p] = data[p]
    BY <1>2, <2>2
  <2>7. ASSUME tasks' # tasks, NEW j \in 1..Len(NextItem.hay), Path(NextTask.id, j) \in Paths
        PROVE  data'[Path(NextTask.id, j)] = NextItem.hay[j]
    <3>1. k = Len(NextItem.hay) /\ whole
      BY <1>2, <2>1, <2>7
    <3> QED BY <1>2, <2>2, <2>7, <3>1
  <2> QED BY <2>5, <2>6, <2>7
<1>3. \/ /\ data' = data /\ dirty' = dirty
         /\ \/ tasks' = tasks
            \/ tasks' = Append(tasks, NextTask) /\ cfg.mode = "memory" /\ pc' = pc
      \/ \E k \in 1..Len(NextItem.hay), whole \in BOOLEAN :
           /\ data' = [p \in Paths |->
                IF \E j \in 1..k : p = Path(NextTask.id, j)
                THEN IF p[3] = k /\ ~whole THEN Torn ELSE NextItem.hay[p[3]]
                ELSE data[p]]
           /\ dirty' = TRUE
           /\ IF k < Len(NextItem.hay) \/ ~whole THEN tasks' = tasks
              ELSE tasks' = Append(tasks, NextTask) /\ pc' = pc
  BY DEF EmitItem, NextItem, NextTask
<1> QED BY <1>1, <1>2, <1>3

LEMMA TasksGrow ==
  ASSUME Typed, Sourced, Named, EmitItem
  PROVE  /\ tasks' \in Seq(Task) /\ Len(tasks') <= Len(items)
         /\ \A i \in 1..Len(tasks') :
              tasks'[i].item = items[i] /\ tasks'[i].id = TaskID(i, items[i].q)
<1>1. CASE tasks' = tasks
  BY <1>1 DEF Typed, Named
<1>2. CASE tasks' = Append(tasks, NextTask)
  <2>1. /\ Next1 = Len(tasks) + 1 /\ Next1 \in 1..Len(items) /\ NextTask \in Task
        /\ tasks \in Seq(Task) /\ Len(tasks) \in Nat /\ Len(items) \in Nat
    BY NextTyped DEF Typed
  <2>2. /\ tasks' \in Seq(Task) /\ Len(tasks') = Len(tasks) + 1
        /\ tasks'[Next1] = NextTask
        /\ \A i \in 1..Len(tasks) : tasks'[i] = tasks[i]
    BY <1>2, <2>1
  <2>3. NextTask.item = items[Next1] /\ NextTask.id = TaskID(Next1, items[Next1].q)
    BY DEF NextTask, NextItem
  <2>4. ASSUME NEW i \in 1..Len(tasks')
        PROVE  tasks'[i].item = items[i] /\ tasks'[i].id = TaskID(i, items[i].q)
    <3>1. CASE i = Next1
      BY <2>2, <2>3, <3>1
    <3>2. CASE i # Next1
      <4>1. i \in 1..Len(tasks)
        BY <2>1, <2>2, <3>2
      <4> QED BY <2>2, <4>1 DEF Named
    <3> QED BY <3>1, <3>2
  <2> QED BY <2>1, <2>2, <2>4
<1> QED BY <1>1, <1>2, EmitWrites

-----------------------------------------------------------------------------
(* Reading: the pinned revision is the one that is read, and what is kept  *)
(* are rows of it.                                                         *)
LEMMA StepSourced == Typed /\ Sourced /\ Named /\ [Next]_vars => Typed' /\ Sourced' /\ Named'
<1> SUFFICES ASSUME Typed, Sourced, Named, [Next]_vars PROVE Typed' /\ Sourced' /\ Named'
  OBVIOUS
<1> USE ImportAssumption
    DEF Typed, Points, Reading, Sourced, Named, Fault, fetchVars, diskVars, countVars
<1>1. CASE Move
  BY <1>1 DEF Move
<1>2. CASE Start
  <2>1. cfg' \in Configs /\ cfg'.pin \in Revisions \cup {Unpinned}
    BY <1>2 DEF Start
  <2> QED BY <1>2, <2>1 DEF Start
<1>3. CASE Resolve
  BY <1>3 DEF Resolve
<1>4. CASE Fetch
  BY <1>4 DEF Fetch
<1>5. CASE Decode
  <2>1. /\ src \in Revisions /\ src = rev /\ cfg \in Configs /\ cfg.limit \in Nat
        /\ n + 1 \in 1..Len(Data[src]) /\ tasks = <<>>
    BY <1>5 DEF Decode
  <2>2. /\ items' \in Seq(Item) /\ Len(items') <= Len(items) + 1
        /\ \A k \in 1..Len(items') : items'[k] \in Rows(src)
    <3>1. CASE items' = Append(items, Data[src][n + 1])
      <4>1. Data[src][n + 1] \in Item /\ Data[src][n + 1] \in Rows(src)
        BY <2>1, RowOf
      <4>2. \A k \in 1..Len(items) : items[k] \in Rows(src)
        BY <1>5 DEF Decode
      <4> QED BY <3>1, <4>1, <4>2
    <3>2. CASE items' = Place(items, Data[src][n + 1], cfg.limit, draw[cfg.seed][n + 1])
      <4>1. \A k \in 1..Len(items) : items[k] \in Rows(src)
        BY <1>5 DEF Decode
      <4> DEFINE j == draw[cfg.seed][n + 1]
      <4> HIDE DEF j
      <4>2. items' = Place(items, Data[src][n + 1], cfg.limit, j)
        BY <3>2 DEF j
      <4> QED BY <2>1, <4>1, <4>2, PlaceRows
    <3> QED BY <1>5, <3>1, <3>2 DEF Decode
  <2>3. /\ n' = n + 1 /\ pc' \in {"emit", "stream"} /\ Len(items) <= n
        /\ UNCHANGED <<head, cfg, rev, src, tasks, data>>
    BY <1>5 DEF Decode
  <2> QED BY <2>1, <2>2, <2>3
<1>6. CASE EndOfStream \/ EmptyPage
  BY <1>6 DEF EndOfStream, EmptyPage
(* A page is appended, counted or not. *)
<1>7. ASSUME pc = "page", n < Len(Data[src]), pc' \in {"page", "emit"},
             UNCHANGED <<head, cfg, rev, src, tasks, data>>,
             NEW k \in 1..Min({PageSize(cfg.limit, Len(items)), Len(Data[src]) - n}),
             items' = items \o SubSeq(Data[src], n + 1, n + k),
             n' = n + k \/ (n' = n /\ pc' = "emit")
      PROVE  Typed' /\ Sourced' /\ Named'
  <2>1. /\ src \in Revisions /\ cfg \in Configs /\ cfg.limit \in Nat /\ Len(items) \in Nat
        /\ tasks = <<>> /\ Len(items) <= n
    BY <1>7
  <2>2. \A i \in 1..Len(items) : items[i] \in Rows(src)
    BY <1>7
  <2>3. /\ items' \in Seq(Item) /\ Len(items') <= n + k /\ n + k <= MaxItems /\ n + k \in Nat
        /\ \A i \in 1..Len(items') : items'[i] \in Rows(src)
    BY <1>7, <2>1, <2>2, PageKept
  <2> QED BY <1>7, <2>1, <2>3
<1>8. CASE Page \/ PageUncounted
  BY <1>7, <1>8 DEF Page, PageUncounted
<1>9. CASE FetchErr \/ EmitNone \/ Kill
  BY <1>9 DEF FetchErr, EmitNone, Kill
<1>10. CASE EmitItem
  <2>1. /\ data' \in [Paths -> Sessions \cup {Nothing, Torn}] /\ tasks' \in Seq(Task)
        /\ Len(tasks') <= Len(items)
        /\ \A i \in 1..Len(tasks') :
             tasks'[i].item = items[i] /\ tasks'[i].id = TaskID(i, items[i].q)
    BY <1>10, EmitWrites, TasksGrow
  <2> QED BY <1>10, <2>1 DEF EmitItem
<1>11. CASE Save
  BY <1>11 DEF Save
<1>12. CASE UNCHANGED vars
  BY <1>12 DEF vars
<1> QED
  BY <1>1, <1>2, <1>3, <1>4, <1>5, <1>6, <1>7, <1>8, <1>9, <1>10, <1>11, <1>12
     DEF Next, Finished

-----------------------------------------------------------------------------
(* The types of what Typed leaves out. *)
Manifest == [cfg : Configs, rev : Revisions, tasks : Seq(Task), cut : BOOLEAN]

Others ==
  /\ cfg \in Configs \cup {Nothing}
  /\ rev \in Revisions \cup {Unpinned} /\ src \in Revisions \cup {Unpinned}
  /\ n <= MaxItems /\ cut \in BOOLEAN /\ dirty \in BOOLEAN
  /\ draw \in [Seeds -> Plans(MaxItems)]
  /\ manifest \in {Nothing, Torn} \cup Manifest
  /\ imports \in 0..MaxImports /\ faults \in 0..MaxFaults

LEMMA StepOthers == Typed /\ Sourced /\ Named /\ Others /\ [Next]_vars => Others'
<1> SUFFICES ASSUME Typed, Sourced, Named, Others, [Next]_vars PROVE Others'
  OBVIOUS
<1>0. /\ MaxImports \in Nat /\ MaxFaults \in Nat /\ MaxItems \in Nat /\ n \in Nat
      /\ (pc # "off" => cfg \in Configs) /\ imports \in Nat /\ faults \in Nat
      /\ head \in Revisions
      /\ \A c \in Configs : c.pin \in Revisions \cup {Unpinned} /\ c.limit \in Nat
      /\ \A r \in Revisions : Len(Data[r]) = MaxItems
  BY ImportAssumption DEF Typed, Others
<1> USE DEF fetchVars, diskVars, countVars
<1>1. CASE UNCHANGED <<cfg, fetchVars, draw, dirty, manifest, countVars>>
  BY <1>1 DEF Others
<1>2. CASE Start
  <2>1. /\ cfg' \in Configs /\ rev' = cfg'.pin /\ src' = Unpinned /\ n' = 0 /\ cut' = FALSE
        /\ imports < MaxImports /\ imports' = imports + 1
        /\ UNCHANGED <<draw, dirty, manifest, faults>>
    BY <1>2 DEF Start
  <2>2. rev' \in Revisions \cup {Unpinned} /\ n' <= MaxItems /\ imports' \in 0..MaxImports
    BY <1>0, <2>1
  <2> QED BY <2>1, <2>2 DEF Others
<1>3. CASE Resolve \/ Fetch
  BY <1>0, <1>3 DEF Resolve, Fetch, Others
<1>4. CASE Decode
  <2>1. n + 1 <= MaxItems
    <3>1. src \in Revisions
      BY <1>4 DEF Decode, Typed, Sourced, Reading
    <3> QED BY <1>0, <1>4, <3>1 DEF Decode
  <2> QED BY <1>4, <2>1 DEF Decode, Others
<1>5. CASE EndOfStream \/ EmptyPage \/ FetchErr
  <2>1. /\ cut' \in {cut, TRUE} /\ (faults' = faults \/ (faults < MaxFaults /\ faults' = faults + 1))
        /\ UNCHANGED <<cfg, rev, src, n, dirty, draw, manifest, imports>>
    BY <1>5 DEF EndOfStream, EmptyPage, FetchErr, Fault
  <2>2. faults' \in 0..MaxFaults
    BY <1>0, <2>1 DEF Others
  <2>3. cut' \in BOOLEAN
    BY <2>1 DEF Others
  <2> QED BY <2>1, <2>2, <2>3 DEF Others
<1>6. CASE Page
  <2>1. PICK k \in 1..Min({PageSize(cfg.limit, Len(items)), Len(Data[src]) - n}) :
          n' = n + k /\ items' = items \o SubSeq(Data[src], n + 1, n + k)
    BY <1>6 DEF Page
  <2>2. /\ src \in Revisions /\ cfg \in Configs /\ cfg.limit \in Nat /\ items \in Seq(Item)
        /\ Len(items) <= n /\ n \in Nat /\ n < Len(Data[src])
        /\ \A i \in 1..Len(items) : items[i] \in Rows(src)
    BY <1>0, <1>6 DEF Page, Typed, Sourced, Reading
  <2>3. n + k <= MaxItems
    BY <2>1, <2>2, PageKept
  <2> QED BY <1>6, <2>1, <2>3 DEF Page, Others
<1>7. CASE PageUncounted
  <2>1. cut' \in BOOLEAN
    BY <1>7 DEF PageUncounted, Full
  <2> QED BY <1>0, <1>7, <2>1 DEF PageUncounted, Fault, Others
<1>8. CASE EmitItem
  <2>1. dirty' \in BOOLEAN
    BY <1>8, EmitWrites DEF Others
  <2>2. faults' \in 0..MaxFaults
    BY <1>0, <1>8 DEF EmitItem, Fault, Others
  <2> QED BY <1>8, <2>1, <2>2 DEF EmitItem, Others
<1>9. CASE Save
  <2>1. cfg \in Configs /\ rev \in Revisions /\ tasks \in Seq(Task) /\ cut \in BOOLEAN
    BY <1>9 DEF Save, Typed, Others
  <2>2. manifest' \in Manifest
    BY <1>9, <2>1 DEF Save, Manifest
  <2> QED BY <1>9, <2>2 DEF Save, Others
<1>10. CASE Kill
  BY <1>0, <1>10 DEF Kill, Fault, Others
<1> QED
  BY <1>1, <1>2, <1>3, <1>4, <1>5, <1>6, <1>7, <1>8, <1>9, <1>10
     DEF Next, Move, EmitNone, Finished, vars

-----------------------------------------------------------------------------
(* How many items a configuration asks for. *)
Want(c) == IF c.limit = 0 THEN MaxItems ELSE Min({c.limit, MaxItems})

LEMMA WantIs ==
  ASSUME NEW c \in Configs
  PROVE  /\ c.limit \in Nat /\ Want(c) \in Nat
         /\ Want(c) = IF c.limit = 0 \/ MaxItems <= c.limit THEN MaxItems ELSE c.limit
<1>1. c.limit \in Nat /\ MaxItems \in Nat
  BY ImportAssumption
<1> DEFINE l == c.limit
<1> HIDE DEF l
<1>2. l \in Int /\ MaxItems \in Int
  BY <1>1 DEF l
<1>3. Min({l, MaxItems}) \in {l, MaxItems} /\ Min({l, MaxItems}) <= l
      /\ Min({l, MaxItems}) <= MaxItems
  BY <1>2, MinPair
<1> QED BY <1>1, <1>3 DEF Want, l

(* The sequence s was chosen from the first m items of r in the way of c:  *)
(* the very first, or any, each in one place at most.                      *)
Picked(c, r, s, m) ==
  IF c.method = "rows" \/ c.seed = 0
  THEN \A i \in 1..Len(s) : s[i] = Data[r][i]
  ELSE \E p \in [1..Len(s) -> 1..m] :
         /\ \A i, j \in 1..Len(s) : p[i] = p[j] => i = j
         /\ \A i \in 1..Len(s) : s[i] = Data[r][p[i]]

(* The next item is appended, *)
LEMMA PickedAppend ==
  ASSUME NEW c, NEW r \in Revisions, NEW s \in Seq(Item), NEW m \in Nat,
         NEW item \in Item, item = Data[r][m + 1],
         Picked(c, r, s, m), c.method = "rows" \/ c.seed = 0 => Len(s) = m
  PROVE  Picked(c, r, Append(s, item), m + 1)
<1> DEFINE t == Append(s, item)
<1>1. /\ Len(s) \in Nat /\ Len(t) = Len(s) + 1 /\ t[Len(s) + 1] = item
      /\ \A i \in 1..Len(s) : t[i] = s[i]
  OBVIOUS
<1> HIDE DEF t
<1>2. CASE c.method = "rows" \/ c.seed = 0
  BY <1>1, <1>2 DEF Picked, t
<1>3. CASE ~(c.method = "rows" \/ c.seed = 0)
  <2>1. PICK p \in [1..Len(s) -> 1..m] :
          /\ \A i, j \in 1..Len(s) : p[i] = p[j] => i = j
          /\ \A i \in 1..Len(s) : s[i] = Data[r][p[i]]
    BY <1>3 DEF Picked
  <2> DEFINE q == [i \in 1..Len(t) |-> IF i \in 1..Len(s) THEN p[i] ELSE m + 1]
  <2>2. q \in [1..Len(t) -> 1..(m + 1)]
    BY <1>1, <2>1
  <2>3. \A i, j \in 1..Len(t) : q[i] = q[j] => i = j
    BY <1>1, <2>1
  <2>4. \A i \in 1..Len(t) : t[i] = Data[r][q[i]]
    BY <1>1, <2>1
  <2> HIDE DEF q
  <2> QED BY <1>3, <2>2, <2>3, <2>4 DEF Picked, t
<1> QED BY <1>2, <1>3

(* or takes the place of another, *)
LEMMA PickedReplace ==
  ASSUME NEW c, ~(c.method = "rows" \/ c.seed = 0),
         NEW r \in Revisions, NEW s \in Seq(Item), NEW m \in Nat,
         NEW item \in Item, item = Data[r][m + 1], Picked(c, r, s, m), NEW k \in 1..Len(s)
  PROVE  Picked(c, r, [s EXCEPT ![k] = item], m + 1)
<1> DEFINE t == [s EXCEPT ![k] = item]
<1>1. /\ Len(s) \in Nat /\ Len(t) = Len(s) /\ t[k] = item
      /\ \A i \in 1..Len(s) : i # k => t[i] = s[i]
  OBVIOUS
<1> HIDE DEF t
<1>2. PICK p \in [1..Len(s) -> 1..m] :
        /\ \A i, j \in 1..Len(s) : p[i] = p[j] => i = j
        /\ \A i \in 1..Len(s) : s[i] = Data[r][p[i]]
  BY DEF Picked
<1> DEFINE q == [i \in 1..Len(t) |-> IF i = k THEN m + 1 ELSE p[i]]
<1>3. q \in [1..Len(t) -> 1..(m + 1)]
  BY <1>1, <1>2
<1>4. \A i, j \in 1..Len(t) : q[i] = q[j] => i = j
  BY <1>1, <1>2
<1>5. \A i \in 1..Len(t) : t[i] = Data[r][q[i]]
  BY <1>1, <1>2
<1> HIDE DEF q
<1> QED BY <1>3, <1>4, <1>5 DEF Picked, t

(* or is left. *)
LEMMA PickedStay ==
  ASSUME NEW c, NEW r \in Revisions, NEW s \in Seq(Item), NEW m \in Nat, Picked(c, r, s, m)
  PROVE  Picked(c, r, s, m + 1)
<1>1. \A p \in [1..Len(s) -> 1..m] : p \in [1..Len(s) -> 1..(m + 1)]
  OBVIOUS
<1> QED BY <1>1 DEF Picked

(* A round of Algorithm R, or of a download without a seed. *)
Round(c, r, s, m, j) ==
  IF c.seed = 0 THEN Append(s, Data[r][m + 1]) ELSE Place(s, Data[r][m + 1], c.limit, j)

LEMMA PickedRound ==
  ASSUME NEW c \in Configs, c.method # "rows", NEW r \in Revisions, NEW s \in Seq(Item),
         NEW m \in Nat, m < MaxItems, Picked(c, r, s, m), NEW j \in Nat,
         Len(s) = IF c.limit = 0 \/ m <= c.limit THEN m ELSE c.limit,
         c.seed = 0 => c.limit = 0 \/ m < c.limit
  PROVE  /\ Picked(c, r, Round(c, r, s, m, j), m + 1)
         /\ Len(Round(c, r, s, m, j))
              = IF c.limit = 0 \/ m + 1 <= c.limit THEN m + 1 ELSE c.limit
<1> DEFINE t == Round(c, r, s, m, j)
<1>0. t = IF c.seed = 0 THEN Append(s, Data[r][m + 1]) ELSE Place(s, Data[r][m + 1], c.limit, j)
  BY DEF Round
<1> HIDE DEF t
<1>1. c.limit \in Nat /\ MaxItems \in Nat /\ Len(s) \in Nat
  BY ImportAssumption
<1>2. Data[r][m + 1] \in Item
  <2>1. m + 1 \in 1..Len(Data[r])
    BY <1>1, ImportAssumption
  <2> QED BY <2>1, RowOf
<1> DEFINE item == Data[r][m + 1]
<1>3. ASSUME c.limit = 0 \/ m < c.limit
      PROVE  Picked(c, r, t, m + 1) /\ Len(t) = IF c.limit = 0 \/ m + 1 <= c.limit THEN m + 1 ELSE c.limit
  <2>1. t = Append(s, item) /\ Len(s) = m
    BY <1>0, <1>1, <1>3 DEF Place
  <2>2. Picked(c, r, Append(s, item), m + 1)
    BY <1>2, <2>1, PickedAppend
  <2>3. Len(Append(s, item)) = m + 1
    BY <1>2, <2>1
  <2>4. c.limit = 0 \/ m + 1 <= c.limit
    BY <1>1, <1>3
  <2> QED BY <2>1, <2>2, <2>3, <2>4
<1>4. ASSUME c.limit # 0 /\ c.limit <= m
      PROVE  Picked(c, r, t, m + 1) /\ Len(t) = IF c.limit = 0 \/ m + 1 <= c.limit THEN m + 1 ELSE c.limit
  <2>1. c.seed # 0 /\ Len(s) = c.limit
    BY <1>1, <1>4
  <2>2. CASE j < c.limit
    <3>1. t = [s EXCEPT ![j + 1] = item] /\ j + 1 \in 1..Len(s)
      BY <1>0, <1>1, <1>4, <2>1, <2>2 DEF Place
    <3>2. Picked(c, r, [s EXCEPT ![j + 1] = item], m + 1)
      BY <1>2, <2>1, <3>1, PickedReplace
    <3>3. Len([s EXCEPT ![j + 1] = item]) = Len(s)
      OBVIOUS
    <3>4. ~(c.limit = 0 \/ m + 1 <= c.limit)
      BY <1>1, <1>4
    <3> QED BY <2>1, <3>1, <3>2, <3>3, <3>4
  <2>3. CASE ~(j < c.limit)
    <3>1. t = s
      BY <1>0, <1>1, <1>4, <2>1, <2>3 DEF Place
    <3> QED BY <1>1, <1>4, <2>1, <3>1, PickedStay
  <2> QED BY <2>2, <2>3
<1>5. Picked(c, r, t, m + 1) /\ Len(t) = IF c.limit = 0 \/ m + 1 <= c.limit THEN m + 1 ELSE c.limit
  BY <1>1, <1>3, <1>4
<1> QED BY <1>5 DEF t

(* A page is the rows that come next, of no more than are asked for. *)
LEMMA PickedPage ==
  ASSUME NEW c \in Configs, c.method = "rows", NEW r \in Revisions, NEW s \in Seq(Item),
         Picked(c, r, s, Len(s)), Len(s) < Len(Data[r]), c.limit = 0 \/ Len(s) < c.limit,
         NEW k \in 1..Min({PageSize(c.limit, Len(s)), Len(Data[r]) - Len(s)}),
         NEW t, t = s \o SubSeq(Data[r], Len(s) + 1, Len(s) + k)
  PROVE  /\ Picked(c, r, t, Len(t)) /\ t \in Seq(Item)
         /\ Len(t) = Len(s) + k /\ Len(t) <= MaxItems
         /\ c.limit = 0 \/ Len(t) <= c.limit
<1> DEFINE m == Len(s)
           page == SubSeq(Data[r], m + 1, m + k)
<1>1. /\ c.limit \in Nat /\ m \in Nat /\ MaxItems \in Nat /\ PageCap \in Nat \ {0}
      /\ Data[r] \in Seq(Item) /\ Len(Data[r]) = MaxItems
  BY ImportAssumption
<1>2. PageSize(c.limit, m) \in Nat /\ (c.limit # 0 => PageSize(c.limit, m) <= c.limit - m)
  <2> DEFINE l == c.limit - m
  <2>1. l \in Int /\ (c.limit = 0 \/ 1 <= l)
    BY <1>1
  <2> HIDE DEF l, m
  <2>2. Max({1, l}) \in {1, l}
    BY <2>1, MaxPair
  <2>3. c.limit # 0 => Max({1, l}) = l
    <3>1. CASE l = 1
      BY <2>2, <3>1
    <3>2. CASE l # 1 /\ c.limit # 0
      <4>1. 1 < l /\ l >= 1 /\ l >= l
        BY <2>1, <3>2
      <4> QED BY <2>1, <2>2, <4>1 DEF Max
    <3> QED BY <3>1, <3>2
  <2>4. PageSize(c.limit, m) = IF c.limit > 0 /\ l < PageCap THEN Max({1, l}) ELSE PageCap
    BY DEF PageSize, l
  <2>5. l = c.limit - m
    BY DEF l
  <2> QED BY <1>1, <2>1, <2>3, <2>4, <2>5
<1>3. k \in Nat /\ k <= PageSize(c.limit, m) /\ k <= MaxItems - m /\ 1 <= k
  <2> DEFINE a == PageSize(c.limit, m)
             b == MaxItems - m
  <2>1. a \in Int /\ b \in Int
    BY <1>1, <1>2
  <2> HIDE DEF a, b
  <2>2. Min({a, b}) \in {a, b} /\ Min({a, b}) <= a /\ Min({a, b}) <= b
    BY <2>1, MinPair
  <2>3. k \in 1..Min({a, b})
    BY <1>1 DEF a, b
  <2>4. k \in Nat /\ 1 <= k /\ k <= a /\ k <= b
    BY <2>1, <2>2, <2>3
  <2> QED BY <2>4 DEF a, b
<1>4. /\ page \in Seq(Item) /\ Len(page) = k
      /\ \A i \in 1..k : page[i] = Data[r][m + i]
  <2>1. page = [i \in 1..k |-> Data[r][i + m]]
    BY <1>1, <1>3
  <2>2. m + k <= MaxItems
    BY <1>1, <1>3
  <2>3. \A i \in 1..k : i + m = m + i /\ i + m \in 1..MaxItems
    BY <1>1, <1>3, <2>2
  <2>4. \A i \in 1..MaxItems : Data[r][i] \in Item
    BY <1>1
  <2> HIDE DEF page, m
  <2> QED BY <1>3, <2>1, <2>3, <2>4
<1> HIDE DEF page
<1>5. t = s \o page
  BY DEF page
<1>6. /\ t \in Seq(Item) /\ Len(t) = m + k
      /\ \A i \in 1..m : t[i] = s[i]
      /\ \A i \in (m + 1)..(m + k) : t[i] = page[i - m]
  BY <1>1, <1>3, <1>4, <1>5
<1>7. \A i \in 1..m : s[i] = Data[r][i]
  BY DEF Picked
<1>8. ASSUME NEW i \in 1..(m + k) PROVE t[i] = Data[r][i]
  <2>1. CASE i <= m
    BY <1>1, <1>3, <1>6, <1>7, <2>1
  <2>2. CASE i > m
    <3>1. i - m \in 1..k /\ i \in (m + 1)..(m + k) /\ m + (i - m) = i
      BY <1>1, <1>3, <2>2
    <3> HIDE DEF m
    <3> QED BY <1>4, <1>6, <3>1
  <2> QED BY <1>1, <1>3, <2>1, <2>2
<1>9. Picked(c, r, t, Len(t))
  BY <1>6, <1>8 DEF Picked
<1>10. m + k <= MaxItems /\ (c.limit # 0 => m + k <= c.limit)
  BY <1>1, <1>2, <1>3
<1> QED BY <1>6, <1>9, <1>10

(* What has been chosen so far: when a fetch is over, as many items as were *)
(* asked for, or it was cut off.                                           *)
Chosen ==
  /\ pc \in {"emit"} \cup Reading => Picked(cfg, src, items, n)
  /\ pc = "stream" =>
       /\ cfg.method # "rows"
       /\ Len(items) = IF cfg.limit = 0 \/ n <= cfg.limit THEN n ELSE cfg.limit
       /\ cfg.seed = 0 => cfg.limit = 0 \/ n < cfg.limit
  /\ pc = "page" =>
       cfg.method = "rows" /\ Len(items) = n /\ (cfg.limit = 0 \/ n < cfg.limit)
  /\ pc = "emit" => Len(items) <= Want(cfg) /\ (cut \/ Len(items) = Want(cfg))

LEMMA StepChosen ==
  Typed /\ Sourced /\ Others /\ Chosen /\ [Next]_vars => Chosen'
<1> SUFFICES ASSUME Typed, Sourced, Others, Chosen, [Next]_vars PROVE Chosen'
  OBVIOUS
<1>0. /\ n \in Nat /\ n <= MaxItems /\ MaxItems \in Nat /\ items \in Seq(Item) /\ pc \in Points
      /\ (pc # "off" => cfg \in Configs)
      /\ \A r \in Revisions : Len(Data[r]) = MaxItems
  BY ImportAssumption DEF Typed, Others
<1>1. ASSUME pc # "off"
      PROVE  /\ cfg \in Configs /\ cfg.limit \in Nat /\ Want(cfg) \in Nat
             /\ Want(cfg) = IF cfg.limit = 0 \/ MaxItems <= cfg.limit THEN MaxItems
                            ELSE cfg.limit
  BY <1>0, <1>1, WantIs
<1>2. ASSUME pc \in {"emit"} \cup Reading
      PROVE  src \in Revisions /\ Len(Data[src]) = MaxItems
  BY <1>0, <1>2 DEF Typed, Sourced, Reading
<1> USE DEF Reading
<1>3. CASE pc' \in {"off", "resolve", "fetch"}
  BY <1>3 DEF Chosen
<1>4. CASE UNCHANGED <<pc, cfg, src, items, n, cut>>
  BY <1>4 DEF Chosen
<1>5. CASE Fetch
  <2>1. /\ items' = <<>> /\ n' = 0 /\ cfg' = cfg /\ cfg \in Configs /\ cfg.limit \in Nat
        /\ pc' = IF cfg.method = "rows" THEN "page" ELSE "stream"
    BY <1>1, <1>5 DEF Fetch, Sourced
  <2>2. Picked(cfg, src', <<>>, 0)
    <3>1. Len(<<>>) = 0 /\ <<>> \in [1..0 -> 1..0] /\ 1..0 = {}
      OBVIOUS
    <3> QED BY <3>1 DEF Picked
  <2>3. Len(items') = 0 /\ (cfg.limit = 0 \/ 0 < cfg.limit)
    <3>1. Len(<<>>) = 0
      OBVIOUS
    <3> QED BY <2>1, <3>1
  <2> QED BY <2>1, <2>2, <2>3 DEF Chosen
<1>6. CASE Decode
  <2>1. /\ pc = "stream" /\ n < MaxItems /\ n' = n + 1 /\ UNCHANGED <<cfg, src, cut>>
        /\ items' = IF cfg.seed = 0 THEN Append(items, Data[src][n + 1])
                    ELSE Place(items, Data[src][n + 1], cfg.limit, draw[cfg.seed][n + 1])
        /\ pc' = IF cfg.seed = 0 /\ cfg.limit > 0 /\ Len(items') >= cfg.limit
                 THEN "emit" ELSE "stream"
    BY <1>2, <1>6 DEF Decode, Full
  <2>2. cfg.seed # 0 => draw[cfg.seed][n + 1] \in Nat
    <3> SUFFICES ASSUME cfg.seed # 0 PROVE draw[cfg.seed][n + 1] \in Nat
      OBVIOUS
    <3>1. cfg.seed \in Seeds
      BY <1>1, <2>1, ImportAssumption
    <3>2. draw[cfg.seed] \in [1..MaxItems -> 0..(MaxItems - 1)]
      BY <3>1 DEF Others, Plans
    <3>3. n + 1 \in 1..MaxItems
      BY <1>0, <2>1
    <3> QED BY <1>0, <3>2, <3>3
  <2>3. PICK j \in Nat : items' = Round(cfg, src, items, n, j)
    <3>1. CASE cfg.seed = 0
      BY <2>1, <3>1 DEF Round
    <3>2. CASE cfg.seed # 0
      BY <2>1, <2>2, <3>2 DEF Round
    <3> QED BY <3>1, <3>2
  <2>4. /\ Picked(cfg, src, items, n) /\ cfg.method # "rows" /\ cfg \in Configs /\ src \in Revisions
        /\ Len(items) = IF cfg.limit = 0 \/ n <= cfg.limit THEN n ELSE cfg.limit
        /\ cfg.seed = 0 => cfg.limit = 0 \/ n < cfg.limit
    BY <1>1, <1>2, <2>1 DEF Chosen
  <2>5. /\ Picked(cfg, src, items', n + 1)
        /\ Len(items') = IF cfg.limit = 0 \/ n + 1 <= cfg.limit THEN n + 1 ELSE cfg.limit
    <3>1. n \in Nat /\ n < MaxItems /\ items \in Seq(Item) /\ cfg.method # "rows"
      BY <1>0, <2>1, <2>4
    <3> QED BY <2>3, <2>4, <3>1, PickedRound
  <2>6. cfg.limit \in Nat /\ n + 1 <= MaxItems /\ n + 1 \in Nat
    BY <1>0, <1>1, <2>1
  <2>7. pc' = "emit" => Len(items') = Want(cfg)
    <3> SUFFICES ASSUME pc' = "emit" PROVE Len(items') = Want(cfg)
      OBVIOUS
    <3>1. cfg.seed = 0 /\ cfg.limit > 0 /\ Len(items') >= cfg.limit
      BY <2>1
    <3>2. n < cfg.limit
      BY <2>4, <2>6, <3>1
    <3>3. Len(items') = n + 1 /\ n + 1 = cfg.limit
      BY <1>0, <2>5, <2>6, <3>1, <3>2
    <3> QED BY <1>1, <2>1, <2>6, <3>1, <3>3
  <2>8. pc' = "stream" /\ cfg.seed = 0 => cfg.limit = 0 \/ n + 1 < cfg.limit
    <3> SUFFICES ASSUME pc' = "stream", cfg.seed = 0, cfg.limit # 0 PROVE n + 1 < cfg.limit
      OBVIOUS
    <3>1. Len(items') = n + 1
      BY <1>0, <2>4, <2>5, <2>6
    <3> QED BY <1>0, <2>1, <2>6, <3>1
  <2>9. Want(cfg') = Want(cfg) /\ (pc' = "emit" => Len(items') <= Want(cfg)) /\ pc' \in {"emit", "stream"}
    BY <1>1, <2>1, <2>7 DEF Want
  <2> QED BY <2>1, <2>4, <2>5, <2>7, <2>8, <2>9 DEF Chosen
<1>7. CASE EndOfStream
  <2>1. /\ pc = "stream" /\ pc' = "emit" /\ UNCHANGED <<cfg, src, items, n>>
        /\ n = MaxItems \/ cut' = TRUE
    BY <1>2, <1>7 DEF EndOfStream
  <2>2. Picked(cfg, src, items, n)
    BY <2>1 DEF Chosen
  <2>3. Len(items) = IF cfg.limit = 0 \/ n <= cfg.limit THEN n ELSE cfg.limit
    BY <2>1 DEF Chosen
  <2>4. Len(items) <= Want(cfg) /\ (n = MaxItems => Len(items) = Want(cfg))
    BY <1>0, <1>1, <2>1, <2>3
  <2> QED BY <2>1, <2>2, <2>4 DEF Chosen, Want
<1>8. ASSUME pc = "page", n < Len(Data[src]), UNCHANGED <<cfg, src>>,
             NEW k \in 1..Min({PageSize(cfg.limit, Len(items)), Len(Data[src]) - n}),
             items' = items \o SubSeq(Data[src], n + 1, n + k),
             pc' \in {"page", "emit"}, pc' = "page" => n' = n + k,
             pc' = "page" => ~Full(items'),
             pc' = "emit" => Full(items') \/ cut'
      PROVE  Chosen'
  <2>1. /\ cfg \in Configs /\ cfg.method = "rows" /\ src \in Revisions /\ Len(items) = n
        /\ Picked(cfg, src, items, n) /\ (cfg.limit = 0 \/ n < cfg.limit) /\ cfg.limit \in Nat
    BY <1>1, <1>2, <1>8 DEF Chosen
  <2>2. /\ Picked(cfg, src, items', Len(items')) /\ items' \in Seq(Item)
        /\ Len(items') = n + k /\ Len(items') <= MaxItems
        /\ cfg.limit = 0 \/ Len(items') <= cfg.limit
    BY <1>0, <1>8, <2>1, PickedPage
  <2>3. Picked(cfg, src, items', n')
    BY <2>1, <2>2 DEF Picked
  <2>4. Len(items') \in Nat
    BY <2>2
  <2>5. Full(items') <=> cfg.limit > 0 /\ Len(items') >= cfg.limit
    BY DEF Full
  <2>6. CASE pc' = "page"
    <3>1. cfg.limit = 0 \/ Len(items') < cfg.limit
      BY <1>8, <2>1, <2>4, <2>5, <2>6
    <3> QED BY <1>8, <2>1, <2>2, <2>3, <2>6, <3>1 DEF Chosen
  <2>7. CASE pc' = "emit"
    <3>1. Want(cfg) \in Nat /\ Want(cfg) = IF cfg.limit = 0 \/ MaxItems <= cfg.limit THEN MaxItems
                                           ELSE cfg.limit
      BY <1>1, <1>8
    <3>2. Len(items') <= Want(cfg)
      BY <1>0, <2>1, <2>2, <2>4, <3>1
    <3>3. Full(items') => Len(items') = Want(cfg)
      BY <1>0, <2>1, <2>2, <2>4, <2>5, <3>1, <3>2
    <3>4. Want(cfg)' = Want(cfg)
      BY <1>8 DEF Want
    <3> QED BY <1>8, <2>3, <2>7, <3>2, <3>3, <3>4 DEF Chosen
  <2> QED BY <1>8, <2>6, <2>7
<1>9. CASE Page
  <2>1. PICK k \in 1..Min({PageSize(cfg.limit, Len(items)), Len(Data[src]) - n}) :
          items' = items \o SubSeq(Data[src], n + 1, n + k) /\ n' = n + k
    BY <1>9 DEF Page
  <2> QED BY <1>8, <1>9, <2>1 DEF Page
<1>10. CASE PageUncounted
  <2>1. PICK k \in 1..Min({PageSize(cfg.limit, Len(items)), Len(Data[src]) - n}) :
          items' = items \o SubSeq(Data[src], n + 1, n + k) /\ cut' = ~Full(items')
    BY <1>10 DEF PageUncounted
  <2>2. pc = "page" /\ n < Len(Data[src]) /\ pc' = "emit" /\ UNCHANGED <<cfg, src>>
    BY <1>10 DEF PageUncounted
  <2> QED BY <1>8, <2>1, <2>2
<1>11. CASE EmptyPage
  <2>1. /\ pc = "page" /\ pc' = "emit" /\ UNCHANGED <<cfg, src, items, n>>
        /\ n >= MaxItems \/ cut' = TRUE
    BY <1>2, <1>11 DEF EmptyPage
  <2>2. Picked(cfg, src, items, n) /\ Len(items) = n /\ (cfg.limit = 0 \/ n < cfg.limit)
    BY <2>1 DEF Chosen
  <2>3. Len(items) <= Want(cfg) /\ (n >= MaxItems => Len(items) = Want(cfg))
    BY <1>0, <1>1, <2>1, <2>2
  <2> QED BY <2>1, <2>2, <2>3 DEF Chosen, Want
<1>12. CASE EmitItem
  BY <1>3, <1>4, <1>12 DEF EmitItem, fetchVars
<1> QED
  BY <1>3, <1>4, <1>5, <1>6, <1>7, <1>9, <1>10, <1>11, <1>12
     DEF Next, Move, Start, Resolve, FetchErr, EmitNone, Save, Kill, Finished, fetchVars, vars

(* The manifest keeps what was chosen. *)
Selected ==
  Saved =>
    LET s == Emitted IN
    /\ manifest.rev \in Revisions /\ s \in Seq(Item) /\ Len(s) <= MaxItems
    /\ Picked(manifest.cfg, manifest.rev, s, MaxItems)
    /\ Len(s) <= Want(manifest.cfg) /\ (manifest.cut \/ Len(s) = Want(manifest.cfg))

LEMMA StepSelected ==
  Typed /\ Sourced /\ Named /\ Others /\ Chosen /\ Selected /\ [Next]_vars => Selected'
<1> SUFFICES ASSUME Typed, Sourced, Named, Others, Chosen, Selected, [Next]_vars
             PROVE  Selected'
  OBVIOUS
<1>1. CASE Save
  <2>1. /\ manifest' = [cfg |-> cfg, rev |-> rev, tasks |-> tasks, cut |-> cut]
        /\ pc = "emit" /\ src = rev /\ rev \in Revisions /\ cfg \in Configs
        /\ tasks \in Seq(Task) /\ items \in Seq(Item)
        /\ Len(tasks) = Len(items) /\ Len(items) <= MaxItems
    BY <1>1 DEF Save, Typed, Sourced
  <2>2. manifest'.cfg = cfg /\ manifest'.rev = rev /\ manifest'.tasks = tasks /\ manifest'.cut = cut
    BY <2>1
  <2>3. Emitted' = items
    <3>1. Emitted' = [i \in DOMAIN tasks |-> tasks[i].item]
      BY <2>2 DEF Emitted
    <3>2. DOMAIN tasks = 1..Len(items) /\ items = [i \in 1..Len(items) |-> items[i]]
      BY <2>1
    <3>3. \A i \in 1..Len(items) : tasks[i].item = items[i]
      BY <2>1 DEF Named
    <3> QED BY <3>1, <3>2, <3>3
  <2>4. Picked(cfg, rev, items, MaxItems)
    <3>1. Picked(cfg, src, items, n)
      BY <2>1 DEF Chosen
    <3>2. n \in Nat /\ n <= MaxItems /\ MaxItems \in Nat
      BY ImportAssumption DEF Typed, Others
    <3>3. \A p \in [1..Len(items) -> 1..n] : p \in [1..Len(items) -> 1..MaxItems]
      BY <3>2
    <3> QED BY <2>1, <3>1, <3>3 DEF Picked
  <2>5. Len(items) <= Want(cfg) /\ (cut \/ Len(items) = Want(cfg))
    BY <2>1 DEF Chosen
  <2>6. Want(manifest.cfg)' = Want(cfg)
    BY <2>2 DEF Want
  <2>7. Picked(manifest.cfg, manifest.rev, Emitted, MaxItems)' <=> Picked(cfg, rev, items, MaxItems)
    BY <2>2, <2>3 DEF Picked
  <2> QED BY <2>1, <2>2, <2>3, <2>4, <2>5, <2>6, <2>7 DEF Selected
<1>2. CASE UNCHANGED manifest
  <2>1. Emitted' = Emitted /\ (Saved' <=> Saved)
    BY <1>2 DEF Emitted, Saved
  <2> QED BY <1>2, <2>1 DEF Selected
<1>3. CASE Kill
  <2>1. manifest' = manifest \/ ~Saved'
    BY <1>3 DEF Kill, Saved
  <2> QED BY <1>2, <2>1 DEF Selected
<1> QED
  BY <1>1, <1>2, <1>3
     DEF Next, Move, Start, Resolve, Fetch, Decode, EndOfStream, Page, PageUncounted, EmptyPage,
         FetchErr, EmitItem, EmitNone, Finished, diskVars, vars

-----------------------------------------------------------------------------
(* Only Save and a kill touch the manifest, and Save records the revision  *)
(* the items came from.                                                    *)
LEMMA StepTraced == Typed /\ Sourced /\ Named /\ Traced /\ [Next]_vars => Traced'
<1> SUFFICES ASSUME Typed, Sourced, Named, Traced, [Next]_vars PROVE Traced'
  OBVIOUS
<1>1. CASE Save
  <2>1. /\ manifest' = [cfg |-> cfg, rev |-> rev, tasks |-> tasks, cut |-> cut]
        /\ src = rev /\ rev \in Revisions /\ tasks \in Seq(Task)
        /\ Len(tasks) \in Nat /\ Len(items) \in Nat /\ Len(tasks) = Len(items)
    BY <1>1 DEF Save, Typed, Sourced
  <2>2. \A i \in 1..Len(tasks) : tasks[i].item \in Rows(rev)
    BY <1>1, <2>1 DEF Save, Sourced, Named
  <2>3. /\ manifest'.rev = rev /\ manifest'.tasks = tasks
    BY <2>1
  <2> QED BY <2>1, <2>2, <2>3 DEF Traced
<1>2. CASE Kill
  BY <1>2 DEF Kill, Traced, Saved
<1>3. CASE UNCHANGED manifest
  BY <1>3 DEF Traced, Saved
<1> QED
  BY <1>1, <1>2, <1>3
     DEF Next, Move, Start, Resolve, Fetch, Decode, EndOfStream, Page, PageUncounted, EmptyPage,
         FetchErr, EmitItem, EmitNone, Finished, diskVars, vars

(* The files of the tasks emitted before are those of other items: they    *)
(* survive the next emission.                                              *)
LEMMA EmitMatches ==
  ASSUME Typed, Sourced, Named, EmitItem, Matches(tasks), cfg.mode = "context"
  PROVE  Matches(tasks)'
<1>1. /\ Next1 = Len(tasks) + 1 /\ Len(tasks) \in Nat /\ Len(items) \in Nat
      /\ Next1 \in 1..MaxItems /\ Next1 \in 1..Len(items)
      /\ NextItem.hay \in Seq(Sessions) /\ Len(NextItem.hay) \in Nat
      /\ Len(NextItem.hay) <= MaxSessions /\ NextItem \in Item
      /\ NextTask.item = NextItem /\ NextTask.id = <<Next1, NextItem.q>>
      /\ MaxSessions \in Nat /\ MaxItems \in Nat
  BY NextTyped, ImportAssumption DEF Typed
<1>2. ASSUME NEW i \in 1..Len(tasks), NEW j \in 1..Len(tasks[i].item.hay)
      PROVE  data'[Path(tasks[i].id, j)] = tasks[i].item.hay[j]
  <2>1. /\ tasks[i].item = items[i] /\ tasks[i].id = <<i, items[i].q>>
        /\ items[i] \in Item /\ items[i] \in Rows(src) /\ src \in Revisions
    BY <1>1, ImportAssumption DEF Typed, Sourced, Named, EmitItem, TaskID
  <2>2. items[i].q \in Questions /\ Len(items[i].hay) <= MaxSessions /\ Len(items[i].hay) \in Nat
    BY <2>1, ImportAssumption DEF Item, Rows
  <2>3. Path(tasks[i].id, j) \in Paths /\ Path(tasks[i].id, j)[1] = i /\ i # Next1
    BY <1>1, <2>1, <2>2 DEF Path, Paths
  <2>4. data'[Path(tasks[i].id, j)] = data[Path(tasks[i].id, j)]
    BY <2>3, EmitWrites
  <2> QED BY <2>4 DEF Matches
<1>3. CASE tasks' = tasks
  BY <1>2, <1>3 DEF Matches
<1>4. CASE /\ tasks' = Append(tasks, NextTask)
           /\ \A j \in 1..Len(NextItem.hay) :
                Path(NextTask.id, j) \in Paths => data'[Path(NextTask.id, j)] = NextItem.hay[j]
  <2>1. /\ Len(tasks') = Len(tasks) + 1 /\ tasks'[Next1] = NextTask
        /\ \A i \in 1..Len(tasks) : tasks'[i] = tasks[i]
    BY <1>1, <1>4 DEF Typed
  <2>2. ASSUME NEW i \in 1..Len(tasks'), NEW j \in 1..Len(tasks'[i].item.hay)
        PROVE  data'[Path(tasks'[i].id, j)] = tasks'[i].item.hay[j]
    <3>1. CASE i \in 1..Len(tasks)
      BY <1>2, <2>1, <2>2, <3>1
    <3>2. CASE i = Next1
      <4>1. NextItem.q \in Questions /\ j \in 1..Len(NextItem.hay)
        BY <1>1, <2>1, <2>2, <3>2 DEF Item
      <4>2. Path(NextTask.id, j) \in Paths
        BY <1>1, <4>1 DEF Path, Paths
      <4> QED BY <1>1, <1>4, <2>1, <3>2, <4>1, <4>2
    <3>3. i \in 1..Len(tasks) \/ i = Next1
      BY <1>1, <2>1
    <3> QED BY <3>1, <3>2, <3>3
  <2> QED BY <2>2 DEF Matches
<1> QED BY <1>3, <1>4, EmitWrites

LEMMA StepWritten == Typed /\ Sourced /\ Named /\ Written /\ [Next]_vars => Written'
<1> SUFFICES ASSUME Typed, Sourced, Named, Written, [Next]_vars,
                    pc' = "emit", cfg'.mode = "context"
             PROVE  Matches(tasks)'
  BY DEF Written
<1>1. CASE EmitItem
  BY <1>1, EmitMatches DEF EmitItem, Written
<1>2. CASE pc # "emit" /\ pc # "off" /\ tasks' = tasks
  <2>1. tasks = <<>>
    BY <1>2 DEF Typed, Points, Sourced
  <2> QED BY <1>2, <2>1 DEF Matches
<1>3. CASE pc = "emit" /\ UNCHANGED <<cfg, tasks, data>>
  BY <1>3 DEF Written, Matches
<1> QED
  BY <1>1, <1>2, <1>3
     DEF Next, Move, Start, Resolve, Fetch, Decode, EndOfStream, Page, PageUncounted, EmptyPage,
         FetchErr, EmitNone, Save, Kill, Finished, diskVars, vars

LEMMA StepMatches ==
  Typed /\ Sourced /\ Named /\ Written /\ DataMatches /\ [Next]_vars => DataMatches'
<1> SUFFICES ASSUME Typed, Sourced, Named, Written, DataMatches, [Next]_vars PROVE DataMatches'
  OBVIOUS
<1>1. CASE EmitItem
  <2>1. (data' = data /\ dirty' = dirty) \/ dirty' = TRUE
    BY <1>1, EmitWrites
  <2> QED BY <1>1, <2>1 DEF EmitItem, DataMatches, Saved
<1>2. CASE Save
  <2>1. cfg.mode = "context" => Matches(tasks)
    BY <1>2 DEF Save, Written
  <2>2. /\ manifest'.cfg = cfg /\ manifest'.tasks = tasks /\ data' = data
        /\ DOMAIN tasks = 1..Len(tasks)
    BY <1>2 DEF Save, Typed
  <2>3. ASSUME NEW i \in 1..Len(tasks) PROVE DOMAIN tasks[i].item.hay = 1..Len(tasks[i].item.hay)
    BY <2>3 DEF Typed, Task, Item
  <2> QED BY <2>1, <2>2, <2>3 DEF DataMatches, Matches
<1>3. CASE Kill
  BY <1>3 DEF Kill, DataMatches, Saved
<1>4. CASE UNCHANGED diskVars
  BY <1>4 DEF diskVars, DataMatches, Saved
<1> QED
  BY <1>1, <1>2, <1>3, <1>4
     DEF Next, Move, Start, Resolve, Fetch, Decode, EndOfStream, Page, PageUncounted, EmptyPage,
         FetchErr, EmitNone, Finished, diskVars, vars

-----------------------------------------------------------------------------
(* The recursion of Kept, and its solution. *)
Keeps(d, limit, m, g) ==
  g = [k \in 0..m |-> IF k = 0 THEN <<>> ELSE Place(g[k - 1], k, limit, d[k])]

Keeping(d, limit, m) == CHOOSE g : Keeps(d, limit, m, g)

LEMMA KeptIsLast ==
  ASSUME NEW d, NEW limit, NEW m PROVE Kept(d, limit, m) = Keeping(d, limit, m)[m]
  BY DEF Kept, Keeping, Keeps

LEMMA KeepingExists ==
  ASSUME NEW d, NEW limit, NEW m \in Nat
  PROVE  Keeps(d, limit, m, Keeping(d, limit, m))
<1> DEFINE N == {k \in Nat : \E g : Keeps(d, limit, k, g)}
<1>1. 0 \in N
  <2>1. Keeps(d, limit, 0, [k \in 0..0 |-> <<>>])
    BY DEF Keeps
  <2> QED BY <2>1
<1>2. ASSUME NEW k \in Nat, k \in N PROVE k + 1 \in N
  <2>1. PICK g : Keeps(d, limit, k, g)
    BY <1>2
  <2>0. g = [i \in 0..k |-> IF i = 0 THEN <<>> ELSE Place(g[i - 1], i, limit, d[i])]
    BY <2>1 DEF Keeps
  <2> DEFINE h == [i \in 0..(k + 1) |-> IF i = 0 THEN <<>> ELSE Place(g[i - 1], i, limit, d[i])]
             f == [i \in 0..(k + 1) |-> IF i = 0 THEN <<>> ELSE Place(h[i - 1], i, limit, d[i])]
  <2>2. ASSUME NEW i \in 0..k PROVE h[i] = g[i]
    <3>1. h[i] = IF i = 0 THEN <<>> ELSE Place(g[i - 1], i, limit, d[i])
      OBVIOUS
    <3>2. g[i] = IF i = 0 THEN <<>> ELSE Place(g[i - 1], i, limit, d[i])
      BY <2>0
    <3> QED BY <3>1, <3>2
  <2>3. ASSUME NEW i \in 0..(k + 1) PROVE h[i] = f[i]
    <3>1. h[i] = IF i = 0 THEN <<>> ELSE Place(g[i - 1], i, limit, d[i])
      OBVIOUS
    <3>2. f[i] = IF i = 0 THEN <<>> ELSE Place(h[i - 1], i, limit, d[i])
      OBVIOUS
    <3> HIDE DEF h, f
    <3>3. i # 0 => h[i - 1] = g[i - 1]
      <4>1. i # 0 => i - 1 \in 0..k
        OBVIOUS
      <4> QED BY <2>2, <4>1
    <3> QED BY <3>1, <3>2, <3>3
  <2>4. h = [i \in 0..(k + 1) |-> h[i]] /\ f = [i \in 0..(k + 1) |-> f[i]]
    OBVIOUS
  <2>5. h = f
    <3> HIDE DEF h, f
    <3> QED BY <2>3, <2>4
  <2>6. Keeps(d, limit, k + 1, h)
    <3>1. h = [i \in 0..(k + 1) |-> IF i = 0 THEN <<>> ELSE Place(h[i - 1], i, limit, d[i])]
      BY <2>5
    <3> HIDE DEF h
    <3> QED BY <3>1 DEF Keeps
  <2> QED BY <2>6
<1> HIDE DEF N
<1>3. m \in N
  BY <1>1, <1>2, NatInduct
<1>4. PICK g : Keeps(d, limit, m, g)
  BY <1>3 DEF N
<1> QED BY <1>4 DEF Keeping

(* After one item more: one round. *)
LEMMA KeptSteps ==
  ASSUME NEW d, NEW limit
  PROVE  /\ Kept(d, limit, 0) = <<>>
         /\ \A m \in Nat : Kept(d, limit, m + 1) = Place(Kept(d, limit, m), m + 1, limit, d[m + 1])
<1>1. ASSUME NEW m \in Nat, NEW k \in 0..m
      PROVE  Keeping(d, limit, m)[k]
               = IF k = 0 THEN <<>> ELSE Place(Keeping(d, limit, m)[k - 1], k, limit, d[k])
  <2>1. Keeps(d, limit, m, Keeping(d, limit, m))
    BY KeepingExists
  <2> DEFINE g == Keeping(d, limit, m)
  <2> HIDE DEF g
  <2>2. Keeps(d, limit, m, g)
    BY <2>1 DEF g
  <2>3. g[k] = IF k = 0 THEN <<>> ELSE Place(g[k - 1], k, limit, d[k])
    BY <2>2 DEF Keeps
  <2> QED BY <2>3 DEF g
<1>2. ASSUME NEW m \in Nat PROVE Keeping(d, limit, m + 1)[m] = Keeping(d, limit, m)[m]
  <2> DEFINE N == {k \in Nat : k <= m => Keeping(d, limit, m + 1)[k] = Keeping(d, limit, m)[k]}
  <2>1. 0 \in N
    <3>1. Keeping(d, limit, m + 1)[0] = <<>> /\ Keeping(d, limit, m)[0] = <<>>
      BY <1>1
    <3> QED BY <3>1
  <2>2. ASSUME NEW k \in Nat, k \in N PROVE k + 1 \in N
    <3>1. CASE k + 1 <= m
      <4>1. Keeping(d, limit, m + 1)[k] = Keeping(d, limit, m)[k]
        BY <2>2, <3>1
      <4>2. (k + 1) - 1 = k /\ k + 1 \in 0..(m + 1) /\ k + 1 \in 0..m /\ k + 1 # 0 /\ m + 1 \in Nat
        BY <3>1
      <4>3. Keeping(d, limit, m + 1)[k + 1]
              = Place(Keeping(d, limit, m + 1)[k], k + 1, limit, d[k + 1])
        BY <1>1, <4>2
      <4>4. Keeping(d, limit, m)[k + 1]
              = Place(Keeping(d, limit, m)[k], k + 1, limit, d[k + 1])
        BY <1>1, <4>2
      <4> QED BY <4>1, <4>3, <4>4
    <3> QED BY <3>1
  <2> HIDE DEF N
  <2>3. m \in N
    BY <2>1, <2>2, NatInduct
  <2> QED BY <2>3 DEF N
<1>3. Kept(d, limit, 0) = <<>>
  BY <1>1, KeptIsLast
<1>4. ASSUME NEW m \in Nat
      PROVE  Kept(d, limit, m + 1) = Place(Kept(d, limit, m), m + 1, limit, d[m + 1])
  <2>1. m + 1 \in Nat /\ m + 1 \in 0..(m + 1) /\ m + 1 # 0 /\ (m + 1) - 1 = m
    OBVIOUS
  <2>2. Keeping(d, limit, m + 1)[m + 1]
          = Place(Keeping(d, limit, m + 1)[m], m + 1, limit, d[m + 1])
    BY <1>1, <2>1
  <2> QED BY <1>2, <2>2, KeptIsLast
<1> QED BY <1>3, <1>4

(* What is kept depends on the draws there were. *)
LEMMA KeptSame ==
  ASSUME NEW d, NEW e, NEW limit, NEW m \in Nat, \A k \in 1..m : d[k] = e[k]
  PROVE  Kept(d, limit, m) = Kept(e, limit, m)
<1> DEFINE N == {k \in Nat : k <= m => Kept(d, limit, k) = Kept(e, limit, k)}
<1>1. 0 \in N
  BY KeptSteps
<1>2. ASSUME NEW k \in Nat, k \in N PROVE k + 1 \in N
  <2>1. CASE k + 1 <= m
    <3>1. d[k + 1] = e[k + 1] /\ Kept(d, limit, k) = Kept(e, limit, k)
      BY <1>2, <2>1
    <3>2. /\ Kept(d, limit, k + 1) = Place(Kept(d, limit, k), k + 1, limit, d[k + 1])
          /\ Kept(e, limit, k + 1) = Place(Kept(e, limit, k), k + 1, limit, e[k + 1])
      BY KeptSteps
    <3> QED BY <3>1, <3>2
  <2> QED BY <2>1
<1> HIDE DEF N
<1>3. m \in N
  BY <1>1, <1>2, NatInduct
<1> QED BY <1>3 DEF N

Distinct(s) == \A i, j \in 1..Len(s) : s[i] = s[j] => i = j

(* It is as many places as may be kept, each of them once. *)
LEMMA KeptTyped ==
  ASSUME NEW limit \in Nat \ {0}, NEW m \in Nat, NEW d, \A k \in 1..m : d[k] \in Nat
  PROVE  /\ Kept(d, limit, m) \in Seq(1..m) /\ Distinct(Kept(d, limit, m))
         /\ Len(Kept(d, limit, m)) = IF m <= limit THEN m ELSE limit
<1> DEFINE Fine(k) == /\ Kept(d, limit, k) \in Seq(1..k) /\ Distinct(Kept(d, limit, k))
                      /\ Len(Kept(d, limit, k)) = IF k <= limit THEN k ELSE limit
           N == {k \in Nat : k <= m => Fine(k)}
<1>1. 0 \in N
  <2> DEFINE s == Kept(d, limit, 0)
  <2>1. s = <<>>
    BY KeptSteps
  <2> HIDE DEF s
  <2>2. s \in Seq(1..0) /\ Len(s) = 0
    BY <2>1
  <2>3. Distinct(s)
    BY <2>2 DEF Distinct
  <2>4. Fine(0)
    BY <2>2, <2>3 DEF s
  <2> QED BY <2>4
<1>2. ASSUME NEW k \in Nat, k \in N PROVE k + 1 \in N
  <2>1. SUFFICES ASSUME k + 1 <= m PROVE Fine(k + 1)
    OBVIOUS
  <2> DEFINE s == Kept(d, limit, k)
             t == Kept(d, limit, k + 1)
  <2>2. s \in Seq(1..k) /\ Distinct(s) /\ Len(s) = IF k <= limit THEN k ELSE limit
    BY <1>2, <2>1
  <2>3. t = Place(s, k + 1, limit, d[k + 1])
    BY KeptSteps
  <2>4. d[k + 1] \in Nat
    BY <2>1
  <2> HIDE DEF s, t, N
  <2>5. \A i \in 1..Len(s) : s[i] \in 1..k
    BY <2>2
  <2>6. CASE Len(s) < limit
    <3>1. t = Append(s, k + 1) /\ Len(s) = k
      BY <2>2, <2>3, <2>6 DEF Place
    <3>2. t \in Seq(1..(k + 1)) /\ Len(t) = k + 1
      <4>1. s \in Seq(1..(k + 1))
        BY <2>2, <2>5
      <4> QED BY <3>1, <4>1
    <3>3. \A i \in 1..Len(t) : t[i] = IF i = k + 1 THEN k + 1 ELSE s[i]
      BY <2>2, <3>1
    <3>4. Distinct(t)
      BY <2>2, <2>5, <3>1, <3>2, <3>3 DEF Distinct
    <3> QED BY <2>2, <2>6, <3>1, <3>2, <3>4 DEF t
  <2>7. CASE ~(Len(s) < limit) /\ d[k + 1] < limit
    <3> DEFINE p == d[k + 1] + 1
    <3>1. t = [s EXCEPT ![p] = k + 1] /\ p \in 1..Len(s) /\ Len(s) = limit
      BY <2>2, <2>3, <2>4, <2>7 DEF Place
    <3> HIDE DEF p
    <3>2. t \in Seq(1..(k + 1)) /\ Len(t) = Len(s)
      <4>1. s \in Seq(1..(k + 1))
        BY <2>2, <2>5
      <4> QED BY <3>1, <4>1
    <3>3. \A i \in 1..Len(t) : t[i] = IF i = p THEN k + 1 ELSE s[i]
      BY <2>2, <3>1
    <3>4. Distinct(t)
      BY <2>2, <2>5, <3>1, <3>2, <3>3 DEF Distinct
    <3> QED BY <2>2, <2>7, <3>1, <3>2, <3>4 DEF t
  <2>8. CASE ~(Len(s) < limit) /\ ~(d[k + 1] < limit)
    <3>1. t = s
      BY <2>2, <2>3, <2>8 DEF Place
    <3>2. s \in Seq(1..(k + 1))
      BY <2>2, <2>5
    <3> QED BY <2>2, <2>8, <3>1, <3>2 DEF t
  <2> QED BY <2>6, <2>7, <2>8
<1> HIDE DEF N
<1>3. m \in N
  BY <1>1, <1>2, NatInduct
<1> QED BY <1>3 DEF N

-----------------------------------------------------------------------------
(* Draws of one item more, and of one less. *)
Longer(e, m, j) == [k \in 1..(m + 1) |-> IF k = m + 1 THEN j ELSE e[k]]
Shorter(d, m) == [k \in 1..m |-> d[k]]

LEMMA PlanIs ==
  ASSUME NEW m \in Nat, NEW d
  PROVE  d \in Plans(m) <=> d = [k \in 1..m |-> d[k]] /\ \A k \in 1..m : d[k] \in 0..(k - 1)
<1>1. \A k \in 1..m : 0..(k - 1) \subseteq 0..(m - 1)
  OBVIOUS
<1> QED BY <1>1 DEF Plans, Draws

LEMMA PlansGrow ==
  ASSUME NEW m \in Nat
  PROVE  /\ \A e \in Plans(m), j \in 0..m :
              /\ Longer(e, m, j) \in Plans(m + 1)
              /\ Longer(e, m, j)[m + 1] = j /\ Shorter(Longer(e, m, j), m) = e
         /\ \A d \in Plans(m + 1) :
              /\ Shorter(d, m) \in Plans(m) /\ d[m + 1] \in 0..m
              /\ d = Longer(Shorter(d, m), m, d[m + 1])
<1>1. ASSUME NEW e \in Plans(m), NEW j \in 0..m
      PROVE  /\ Longer(e, m, j) \in Plans(m + 1)
             /\ Longer(e, m, j)[m + 1] = j /\ Shorter(Longer(e, m, j), m) = e
  <2> DEFINE d == Longer(e, m, j)
  <2>1. e = [k \in 1..m |-> e[k]] /\ \A k \in 1..m : e[k] \in 0..(k - 1)
    BY PlanIs
  <2>2. d = [k \in 1..(m + 1) |-> d[k]]
    BY DEF Longer
  <2>3. d[m + 1] = j /\ \A k \in 1..m : d[k] = e[k]
    BY DEF Longer
  <2> HIDE DEF d
  <2>4. \A k \in 1..(m + 1) : d[k] \in 0..(k - 1)
    <3>1. \A k \in 1..m : e[k] \in 0..(k - 1)
      BY <2>1
    <3>2. \A k \in 1..(m + 1) : k = m + 1 \/ k \in 1..m
      OBVIOUS
    <3>3. \A k \in 1..m : d[k] \in 0..(k - 1)
      BY <2>3, <3>1
    <3>4. d[m + 1] \in 0..((m + 1) - 1)
      BY <2>3
    <3> QED BY <3>2, <3>3, <3>4
  <2>5. d \in Plans(m + 1)
    <3>1. m + 1 \in Nat
      OBVIOUS
    <3> QED BY <2>2, <2>4, <3>1, PlanIs, Zenon
  <2>6. Shorter(d, m) = e
    BY <2>1, <2>3 DEF Shorter
  <2> QED BY <2>3, <2>5, <2>6 DEF d
<1>2. ASSUME NEW d \in Plans(m + 1)
      PROVE  /\ Shorter(d, m) \in Plans(m) /\ d[m + 1] \in 0..m
             /\ d = Longer(Shorter(d, m), m, d[m + 1])
  <2>1. d = [k \in 1..(m + 1) |-> d[k]] /\ \A k \in 1..(m + 1) : d[k] \in 0..(k - 1)
    BY PlanIs
  <2> DEFINE e == Shorter(d, m)
  <2>0. e = [k \in 1..m |-> e[k]]
    BY DEF Shorter
  <2>2. \A k \in 1..m : e[k] = d[k]
    BY DEF Shorter
  <2> HIDE DEF e
  <2>3. e \in Plans(m)
    <3>1. \A k \in 1..m : d[k] \in 0..(k - 1)
      BY <2>1
    <3>2. \A k \in 1..m : e[k] \in 0..(k - 1)
      BY <2>2, <3>1
    <3> QED BY <2>0, <3>2, PlanIs, Zenon
  <2>4. d[m + 1] \in 0..m
    BY <2>1
  <2>5. d = Longer(e, m, d[m + 1])
    <3> DEFINE l == Longer(e, m, d[m + 1])
    <3>1. l = [k \in 1..(m + 1) |-> l[k]] /\ \A k \in 1..(m + 1) : l[k] = d[k]
      BY <2>2 DEF Longer
    <3> HIDE DEF l
    <3>2. d = l
      BY <2>1, <3>1
    <3> QED BY <3>2 DEF l
  <2> QED BY <2>3, <2>4, <2>5 DEF e
<1> QED BY <1>1, <1>2

LEMMA PlansFinite == ASSUME NEW m \in Nat PROVE IsFiniteSet(Plans(m))
<1> DEFINE N == {k \in Nat : IsFiniteSet(Plans(k))}
<1>1. 0 \in N
  <2> DEFINE none == [k \in 1..0 |-> 0]
  <2>1. \A d \in Plans(0) : d = none
    BY PlanIs
  <2>2. Plans(0) \in SUBSET {none}
    BY <2>1
  <2>3. IsFiniteSet({none})
    BY FS_Singleton
  <2>4. IsFiniteSet(Plans(0))
    <3> HIDE DEF none
    <3> QED BY <2>2, <2>3, FS_Subset
  <2> QED BY <2>4
<1>2. ASSUME NEW k \in Nat, k \in N PROVE k + 1 \in N
  <2> DEFINE pairs == Plans(k) \X (0..k)
             grow == [x \in pairs |-> Longer(x[1], k, x[2])]
  <2>1. IsFiniteSet(pairs)
    <3>1. IsFiniteSet(0..k)
      BY FS_Interval
    <3> QED BY <1>2, <3>1, FS_Product
  <2>2. grow \in [pairs -> Plans(k + 1)]
    BY PlansGrow
  <2>3. \A d \in Plans(k + 1) : \E x \in pairs : grow[x] = d
    <3> SUFFICES ASSUME NEW d \in Plans(k + 1) PROVE \E x \in pairs : grow[x] = d
      OBVIOUS
    <3>1. <<Shorter(d, k), d[k + 1]>> \in pairs /\ d = Longer(Shorter(d, k), k, d[k + 1])
      BY PlansGrow
    <3>2. grow[<<Shorter(d, k), d[k + 1]>>] = Longer(Shorter(d, k), k, d[k + 1])
      BY <3>1
    <3> QED BY <3>1, <3>2
  <2>4. grow \in Surjection(pairs, Plans(k + 1))
    <3> HIDE DEF grow
    <3> QED BY <2>2, <2>3 DEF Surjection
  <2> HIDE DEF grow
  <2> QED BY <2>1, <2>4, FS_Surjection
<1> HIDE DEF N
<1>3. m \in N
  BY <1>1, <1>2, NatInduct
<1> QED BY <1>3 DEF N

-----------------------------------------------------------------------------
LEMMA PlacesFinite ==
  ASSUME NEW m \in Nat, NEW S \in SUBSET (1..m) PROVE IsFiniteSet(S)
<1>1. IsFiniteSet(1..m)
  BY FS_Interval
<1> QED BY <1>1, FS_Subset

Sample(d, limit, m) == ToSet(Kept(d, limit, m))
Ways(limit, m, S) == {d \in Plans(m) : Sample(d, limit, m) = S}

LEMMA SampleIs ==
  ASSUME NEW limit \in Nat \ {0}, NEW m \in Nat, limit <= m, NEW d \in Plans(m)
  PROVE  /\ Kept(d, limit, m) \in Seq(1..m) /\ Distinct(Kept(d, limit, m))
         /\ Len(Kept(d, limit, m)) = limit
         /\ Sample(d, limit, m) = {Kept(d, limit, m)[i] : i \in 1..limit}
         /\ Sample(d, limit, m) \in kSubset(limit, 1..m)
<1> DEFINE s == Kept(d, limit, m)
           S == Sample(d, limit, m)
<1>1. s \in Seq(1..m) /\ Distinct(s) /\ Len(s) = limit
  <2>1. \A k \in 1..m : d[k] \in Nat
    BY PlanIs
  <2> QED BY <2>1, KeptTyped
<1>2. S = {s[i] : i \in 1..limit}
  <2>1. S = ToSet(s)
    BY DEF Sample
  <2> HIDE DEF s, S
  <2> QED BY <1>1, <2>1 DEF ToSet
<1> HIDE DEF s, S
<1>3. S \in SUBSET (1..m)
  BY <1>1, <1>2
<1>4. Cardinality(S) = limit
  <2> DEFINE b == [i \in 1..limit |-> s[i]]
  <2>1. b \in [1..limit -> S] /\ (\A i, j \in 1..limit : b[i] = b[j] => i = j)
        /\ \A x \in S : \E i \in 1..limit : b[i] = x
    BY <1>1, <1>2 DEF Distinct
  <2> HIDE DEF b
  <2>2. b \in Bijection(1..limit, S)
    BY <2>1 DEF Bijection, Injection, Surjection, IsInjective
  <2>3. IsFiniteSet(1..limit) /\ Cardinality(1..limit) = limit
    BY FS_Interval
  <2> QED BY <2>2, <2>3, FS_Bijection DEF ExistsBijection
<1> QED BY <1>1, <1>2, <1>3, <1>4 DEF s, S, kSubset

(* What one draw more does to a sample that is full. *)
LEMMA SampleGrows ==
  ASSUME NEW limit \in Nat \ {0}, NEW m \in Nat, limit <= m,
         NEW e \in Plans(m), NEW j \in 0..m
  PROVE  Sample(Longer(e, m, j), limit, m + 1)
           = IF j < limit THEN (Sample(e, limit, m) \ {Kept(e, limit, m)[j + 1]}) \cup {m + 1}
             ELSE Sample(e, limit, m)
<1> DEFINE d == Longer(e, m, j)
           s == Kept(e, limit, m)
           t == Kept(d, limit, m + 1)
<1>1. /\ s \in Seq(1..m) /\ Distinct(s) /\ Len(s) = limit
      /\ Sample(e, limit, m) = {s[i] : i \in 1..limit}
  BY SampleIs
<1>2. d \in Plans(m + 1) /\ d[m + 1] = j /\ \A k \in 1..m : d[k] = e[k]
  <2>1. \A k \in 1..m : d[k] = e[k]
    BY DEF Longer
  <2> QED BY <2>1, PlansGrow
<1>3. Kept(d, limit, m) = s
  <2> HIDE DEF d
  <2> QED BY <1>2, KeptSame
<1>4. t = Place(s, m + 1, limit, j)
  <2> HIDE DEF d
  <2> QED BY <1>2, <1>3, KeptSteps
<1>5. Len(t) = limit /\ Sample(d, limit, m + 1) = {t[i] : i \in 1..limit}
  <2> HIDE DEF d
  <2>1. m + 1 \in Nat /\ limit <= m + 1
    OBVIOUS
  <2> QED BY <1>2, <2>1, SampleIs
<1>6. CASE j < limit
  <2> HIDE DEF s, t, d
  <2>1. t = [s EXCEPT ![j + 1] = m + 1] /\ j + 1 \in 1..limit
    BY <1>1, <1>4, <1>6 DEF Place
  <2>2. \A i \in 1..limit : t[i] = IF i = j + 1 THEN m + 1 ELSE s[i]
    BY <1>1, <2>1
  <2>3. \A i \in 1..limit : s[i] = s[j + 1] => i = j + 1
    BY <1>1, <2>1 DEF Distinct
  <2>4. {t[i] : i \in 1..limit} = ({s[i] : i \in 1..limit} \ {s[j + 1]}) \cup {m + 1}
    BY <2>1, <2>2, <2>3
  <2> QED BY <1>1, <1>5, <1>6, <2>4 DEF s, d
<1>7. CASE ~(j < limit)
  <2>1. t = s
    <3> HIDE DEF s, t, d
    <3> QED BY <1>1, <1>4, <1>7 DEF Place
  <2> HIDE DEF s, t, d
  <2> QED BY <1>1, <1>5, <1>7, <2>1 DEF s, d
<1> QED BY <1>6, <1>7

-----------------------------------------------------------------------------
(* A selection without the next place is reached from itself, by the draws  *)
(* that leave it as it is.                                                 *)
LEMMA WaysLeft ==
  ASSUME NEW limit \in Nat \ {0}, NEW m \in Nat, limit <= m,
         NEW S, m + 1 \notin S
  PROVE  Cardinality(Ways(limit, m + 1, S)) = Cardinality(Ways(limit, m, S)) * (m + 1 - limit)
<1> DEFINE W == Ways(limit, m, S)
           V == Ways(limit, m + 1, S)
           J == limit..m
           b == [x \in W \X J |-> Longer(x[1], m, x[2])]
<1>1. \A e \in W : e \in Plans(m) /\ Sample(e, limit, m) = S
  BY DEF Ways
<1>2. \A j \in J : j \in 0..m /\ ~(j < limit)
  OBVIOUS
<1>3. ASSUME NEW e \in W, NEW j \in J PROVE Longer(e, m, j) \in V
  <2>1. Longer(e, m, j) \in Plans(m + 1)
    BY <1>1, <1>2, PlansGrow
  <2>2. Sample(Longer(e, m, j), limit, m + 1) = Sample(e, limit, m)
    BY <1>1, <1>2, SampleGrows
  <2> QED BY <1>1, <2>1, <2>2 DEF Ways
<1>4. ASSUME NEW d \in V PROVE Shorter(d, m) \in W /\ d[m + 1] \in J
  <2> DEFINE e == Shorter(d, m)
             j == d[m + 1]
  <2>1. d \in Plans(m + 1) /\ Sample(d, limit, m + 1) = S
    BY DEF Ways
  <2>2. e \in Plans(m) /\ j \in 0..m /\ d = Longer(e, m, j)
    BY <2>1, PlansGrow
  <2> HIDE DEF e, j
  <2>3. S = IF j < limit THEN (Sample(e, limit, m) \ {Kept(e, limit, m)[j + 1]}) \cup {m + 1}
            ELSE Sample(e, limit, m)
    BY <2>1, <2>2, SampleGrows
  <2>4. ~(j < limit) /\ Sample(e, limit, m) = S
    BY <2>3
  <2>5. e \in W
    BY <2>2, <2>4 DEF Ways
  <2>6. j \in J
    BY <2>2, <2>4
  <2> QED BY <2>5, <2>6 DEF e, j
<1> HIDE DEF W, V, J
<1>5. b \in Bijection(W \X J, V)
  <2>1. b \in [W \X J -> V]
    BY <1>3
  <2>2. ASSUME NEW x \in W \X J, NEW y \in W \X J, b[x] = b[y] PROVE x = y
    <3>1. x = <<x[1], x[2]>> /\ y = <<y[1], y[2]>> /\ x[1] \in W /\ y[1] \in W
          /\ x[2] \in J /\ y[2] \in J
      OBVIOUS
    <3>2. Longer(x[1], m, x[2]) = Longer(y[1], m, y[2])
      BY <2>2
    <3>3. x[1] \in Plans(m) /\ x[2] \in 0..m /\ y[1] \in Plans(m) /\ y[2] \in 0..m
      BY <1>1, <1>2, <3>1
    <3>4. Longer(x[1], m, x[2])[m + 1] = x[2] /\ Shorter(Longer(x[1], m, x[2]), m) = x[1]
      BY <3>3, PlansGrow
    <3>5. Longer(y[1], m, y[2])[m + 1] = y[2] /\ Shorter(Longer(y[1], m, y[2]), m) = y[1]
      BY <3>3, PlansGrow
    <3>6. x[1] = y[1] /\ x[2] = y[2]
      BY <3>2, <3>4, <3>5
    <3> QED BY <3>1, <3>6
  <2>3. ASSUME NEW d \in V PROVE \E x \in W \X J : b[x] = d
    <3>1. <<Shorter(d, m), d[m + 1]>> \in W \X J
      BY <1>4
    <3>2. d = Longer(Shorter(d, m), m, d[m + 1])
      BY PlansGrow DEF V, Ways
    <3>3. b[<<Shorter(d, m), d[m + 1]>>] = Longer(Shorter(d, m), m, d[m + 1])
      BY <3>1
    <3> HIDE DEF b
    <3> QED BY <3>1, <3>2, <3>3
  <2> HIDE DEF b
  <2> QED BY <2>1, <2>2, <2>3 DEF Bijection, Injection, Surjection, IsInjective
<1>6. IsFiniteSet(W) /\ IsFiniteSet(J) /\ Cardinality(J) = m + 1 - limit
  <2>1. IsFiniteSet(W)
    <3>1. W \in SUBSET Plans(m)
      BY DEF W, Ways
    <3> QED BY <3>1, PlansFinite, FS_Subset
  <2>2. IsFiniteSet(J) /\ Cardinality(J) = IF limit > m THEN 0 ELSE m - limit + 1
    BY FS_Interval DEF J
  <2>3. m - limit + 1 = m + 1 - limit /\ ~(limit > m)
    OBVIOUS
  <2> QED BY <2>1, <2>2, <2>3
<1>7. IsFiniteSet(W \X J) /\ Cardinality(W \X J) = Cardinality(W) * Cardinality(J)
  BY <1>6, FS_Product
<1>8. Cardinality(V) = Cardinality(W \X J)
  <2> HIDE DEF b
  <2> QED BY <1>5, <1>7, FS_Bijection DEF ExistsBijection
<1> QED BY <1>6, <1>7, <1>8 DEF W, V

(* A selection with the next place is reached from those that differ from   *)
(* it in that place alone, each by one draw.                               *)
LEMMA WaysChanged ==
  ASSUME NEW limit \in Nat \ {0}, NEW m \in Nat, limit <= m,
         NEW R \in SUBSET (1..m), Cardinality(R) = limit - 1
  PROVE  Cardinality(Ways(limit, m + 1, R \cup {m + 1}))
           = Cardinality({e \in Plans(m) : R \subseteq Sample(e, limit, m)})
<1> DEFINE V == Ways(limit, m + 1, R \cup {m + 1})
           E == {e \in Plans(m) : R \subseteq Sample(e, limit, m)}
           b == [d \in V |-> Shorter(d, m)]
           K(e) == Kept(e, limit, m)
<1>0. m + 1 \notin R /\ \A e \in Plans(m) : m + 1 \notin Sample(e, limit, m)
  BY SampleIs DEF kSubset
<1>1. ASSUME NEW d \in V
      PROVE  /\ Shorter(d, m) \in E /\ d[m + 1] \in 0..(limit - 1)
             /\ d = Longer(Shorter(d, m), m, d[m + 1])
             /\ R = Sample(Shorter(d, m), limit, m) \ {K(Shorter(d, m))[d[m + 1] + 1]}
  <2> DEFINE e == Shorter(d, m)
             j == d[m + 1]
  <2>1. d \in Plans(m + 1) /\ Sample(d, limit, m + 1) = R \cup {m + 1}
    BY DEF Ways
  <2>2. e \in Plans(m) /\ j \in 0..m /\ d = Longer(e, m, j)
    BY <2>1, PlansGrow
  <2> HIDE DEF e, j, K
  <2>3. R \cup {m + 1}
          = IF j < limit THEN (Sample(e, limit, m) \ {K(e)[j + 1]}) \cup {m + 1}
            ELSE Sample(e, limit, m)
    <3>1. e \in Plans(m) /\ j \in 0..m
      BY <2>2
    <3>2. Sample(Longer(e, m, j), limit, m + 1)
            = IF j < limit THEN (Sample(e, limit, m) \ {Kept(e, limit, m)[j + 1]}) \cup {m + 1}
              ELSE Sample(e, limit, m)
      BY ONLY <3>1, SampleGrows, limit \in Nat \ {0}, m \in Nat, limit <= m
    <3>3. K(e)[j + 1] = Kept(e, limit, m)[j + 1]
      BY DEF K
    <3> QED BY <2>1, <2>2, <3>2, <3>3
  <2>4. j < limit
    BY <1>0, <2>2, <2>3
  <2>5. R = Sample(e, limit, m) \ {K(e)[j + 1]}
    BY <1>0, <2>2, <2>3, <2>4
  <2>6. e \in E /\ j \in 0..(limit - 1)
    BY <2>2, <2>4, <2>5
  <2> QED BY <2>2, <2>5, <2>6 DEF e, j
<1>2. ASSUME NEW e \in E PROVE \E d \in V : Shorter(d, m) = e
  <2>1. /\ e \in Plans(m) /\ R \in SUBSET Sample(e, limit, m)
    OBVIOUS
  <2>2. /\ Sample(e, limit, m) \in SUBSET (1..m) /\ Cardinality(Sample(e, limit, m)) = limit
        /\ Sample(e, limit, m) = {K(e)[i] : i \in 1..limit}
    BY <2>1, SampleIs DEF kSubset
  <2>3. IsFiniteSet(Sample(e, limit, m))
    BY <2>2, PlacesFinite
  <2>4. PICK x \in Sample(e, limit, m) \ R : Sample(e, limit, m) \ R = {x}
    <3> DEFINE T == Sample(e, limit, m)
    <3> HIDE DEF T
    <3>1. IsFiniteSet(T) /\ R \in SUBSET T /\ Cardinality(T) = Cardinality(R) + 1
      BY <2>1, <2>2, <2>3 DEF T
    <3>2. \E y \in T \ R : T \ R = {y}
      BY <3>1, OneMore
    <3> QED BY <3>2 DEF T
  <2> HIDE DEF K
  <2>5. PICK i \in 1..limit : K(e)[i] = x
    BY <2>2, <2>4
  <2> DEFINE j == i - 1
             d == Longer(e, m, j)
  <2>6. j \in 0..m /\ j < limit /\ j + 1 = i
    OBVIOUS
  <2>7. d \in Plans(m + 1) /\ Shorter(d, m) = e
    <3> HIDE DEF j
    <3> QED BY <2>1, <2>6, PlansGrow
  <2>8. Sample(d, limit, m + 1) = (Sample(e, limit, m) \ {x}) \cup {m + 1}
    <3> HIDE DEF j
    <3>1. Sample(Longer(e, m, j), limit, m + 1)
            = (Sample(e, limit, m) \ {Kept(e, limit, m)[j + 1]}) \cup {m + 1}
      BY <2>1, <2>6, SampleGrows
    <3> QED BY <2>5, <2>6, <3>1 DEF K
  <2>9. Sample(e, limit, m) \ {x} = R
    BY <2>1, <2>4
  <2>10. d \in V
    <3> HIDE DEF d
    <3> QED BY <2>7, <2>8, <2>9 DEF Ways
  <2> HIDE DEF d
  <2> QED BY <2>7, <2>10
<1>3. ASSUME NEW d \in V, NEW c \in V, Shorter(d, m) = Shorter(c, m) PROVE d = c
  <2> DEFINE e == Shorter(d, m)
             i == d[m + 1] + 1
             k == c[m + 1] + 1
  <2>1. /\ e \in Plans(m) /\ R = Sample(e, limit, m) \ {K(e)[i]}
        /\ R = Sample(e, limit, m) \ {K(e)[k]}
        /\ d = Longer(e, m, d[m + 1]) /\ c = Longer(e, m, c[m + 1])
    <3> HIDE DEF V, K
    <3> QED BY <1>1, <1>3
  <2>2. /\ d[m + 1] \in 0..(limit - 1) /\ c[m + 1] \in 0..(limit - 1)
        /\ i \in 1..limit /\ k \in 1..limit
    <3>1. d[m + 1] \in 0..(limit - 1) /\ c[m + 1] \in 0..(limit - 1)
      BY <1>1
    <3> QED BY <3>1
  <2>3. Distinct(K(e)) /\ Len(K(e)) = limit /\ Sample(e, limit, m) = {K(e)[l] : l \in 1..limit}
    BY <2>1, SampleIs
  <2>4. K(e)[i] \in Sample(e, limit, m) /\ K(e)[k] \in Sample(e, limit, m)
    BY <2>2, <2>3
  <2>5. K(e)[i] = K(e)[k]
    BY <2>1, <2>4
  <2>6. i = k
    <3> HIDE DEF K, e, i, k
    <3> QED BY <2>2, <2>3, <2>5 DEF Distinct
  <2>7. d[m + 1] = c[m + 1]
    BY <2>2, <2>6
  <2> HIDE DEF e
  <2> QED BY <2>1, <2>7
<1>4. b \in Bijection(V, E)
  <2>1. b \in [V -> E]
    BY <1>1
  <2> HIDE DEF V, E
  <2>2. \A x \in V : b[x] = Shorter(x, m)
    OBVIOUS
  <2> HIDE DEF b
  <2>3. \A x, y \in V : b[x] = b[y] => x = y
    BY <1>3, <2>2
  <2>4. \A y \in E : \E x \in V : b[x] = y
    BY <1>2, <2>2
  <2> QED BY <2>1, <2>3, <2>4 DEF Bijection, Injection, Surjection, IsInjective
<1>5. IsFiniteSet(V)
  <2>1. V \in SUBSET Plans(m + 1)
    BY DEF Ways
  <2>2. m + 1 \in Nat
    OBVIOUS
  <2> HIDE DEF V
  <2> QED BY <2>1, <2>2, PlansFinite, FS_Subset
<1>6. Cardinality(E) = Cardinality(V)
  <2> HIDE DEF b, V, E
  <2> QED BY <1>4, <1>5, FS_Bijection DEF ExistsBijection
<1> QED BY <1>6

(* Those that have all of R, if every selection is reached in w ways.       *)
LEMMA WaysBeyond ==
  ASSUME NEW limit \in Nat \ {0}, NEW m \in Nat, limit <= m,
         NEW R \in SUBSET (1..m), Cardinality(R) = limit - 1, NEW w \in Nat,
         \A S \in kSubset(limit, 1..m) : Cardinality(Ways(limit, m, S)) = w
  PROVE  Cardinality({e \in Plans(m) : R \subseteq Sample(e, limit, m)}) = (m + 1 - limit) * w
<1> DEFINE E == {e \in Plans(m) : R \subseteq Sample(e, limit, m)}
           T == (1..m) \ R
           last == [e \in E |-> CHOOSE x \in T : Sample(e, limit, m) = R \cup {x}]
           f == [x \in T |-> Cardinality({e \in E : last[e] = x})]
<1>1. ASSUME NEW e \in E PROVE \E x \in T : Sample(e, limit, m) = R \cup {x}
  <2> DEFINE S == Sample(e, limit, m)
  <2>1. S \in SUBSET (1..m) /\ Cardinality(S) = limit /\ R \in SUBSET S
    BY SampleIs DEF kSubset
  <2> HIDE DEF S
  <2>2. IsFiniteSet(S) /\ Cardinality(S) = Cardinality(R) + 1
    <3>1. IsFiniteSet(S)
      BY <2>1, PlacesFinite
    <3>2. limit = (limit - 1) + 1
      OBVIOUS
    <3> QED BY <2>1, <3>1, <3>2
  <2>3. \E x \in S \ R : S \ R = {x}
    BY <2>1, <2>2, OneMore
  <2>4. \E x \in T : S = R \cup {x}
    BY <2>1, <2>3
  <2> QED BY <2>4 DEF S
<1>2. \A e \in E : last[e] \in T /\ Sample(e, limit, m) = R \cup {last[e]}
  BY <1>1
<1>3. last \in [E -> T]
  BY <1>1
<1> HIDE DEF last
<1>4. ASSUME NEW x \in T PROVE f[x] = w
  <2>1. {e \in E : last[e] = x} = Ways(limit, m, R \cup {x})
    <3>1. ASSUME NEW e \in E, last[e] = x PROVE e \in Ways(limit, m, R \cup {x})
      BY <1>2, <3>1 DEF Ways
    <3>2. ASSUME NEW e \in Ways(limit, m, R \cup {x}) PROVE e \in E /\ last[e] = x
      <4>1. e \in E /\ Sample(e, limit, m) = R \cup {x}
        BY DEF Ways
      <4>2. R \cup {x} = R \cup {last[e]} /\ last[e] \in T
        BY <1>2, <4>1
      <4> QED BY <4>1, <4>2
    <3> QED BY <3>1, <3>2
  <2>2. R \cup {x} \in kSubset(limit, 1..m)
    <3>1. IsFiniteSet(R) /\ x \notin R
      BY PlacesFinite
    <3>2. Cardinality(R \cup {x}) = Cardinality(R) + 1
      BY <3>1, FS_AddElement
    <3>3. Cardinality(R \cup {x}) = limit
      BY <3>2
    <3> QED BY <3>3 DEF kSubset
  <2>3. Cardinality(Ways(limit, m, R \cup {x})) = w
    BY <2>2
  <2> QED BY <2>1, <2>3
<1>5. IsFiniteSet(E)
  BY PlansFinite, FS_Subset
<1>6. IsFiniteSet(T) /\ Cardinality(T) = m + 1 - limit
  <2>1. IsFiniteSet(1..m) /\ Cardinality(1..m) = m
    BY FS_Interval
  <2>2. (1..m) \cap R = R
    OBVIOUS
  <2>3. IsFiniteSet(T) /\ Cardinality(T) = Cardinality(1..m) - Cardinality((1..m) \cap R)
    BY <2>1, FS_Difference
  <2> HIDE DEF T
  <2>4. Cardinality(T) = m - (limit - 1)
    BY <2>1, <2>2, <2>3
  <2> QED BY <2>3, <2>4
<1> HIDE DEF E, T
<1>7. SumFunction(f) = Cardinality(E)
  <2> HIDE DEF f
  <2>1. SumFunction([x \in T |-> Cardinality({e \in E : last[e] = x})]) = Cardinality(E)
    BY <1>3, <1>5, <1>6, SumOfClasses
  <2> QED BY <2>1 DEF f
<1>8. SumFunction(f) = Cardinality(T) * w
  <2>1. SumFunction(f) = SumFunctionOnSet(f, T)
    BY DEF SumFunction
  <2> HIDE DEF f
  <2>2. SumFunctionOnSet(f, T) = Cardinality(T) * w
    BY <1>4, <1>6, SumConstant
  <2> QED BY <2>1, <2>2
<1> QED BY <1>6, <1>7, <1>8 DEF E

(* Every selection is reached in the same number of ways. *)
Even(limit, m) ==
  \E w \in Nat : \A S \in kSubset(limit, 1..m) : Cardinality(Ways(limit, m, S)) = w

LEMMA EvenSteps ==
  ASSUME NEW limit \in Nat \ {0}, NEW m \in Nat, limit <= m, Even(limit, m)
  PROVE  Even(limit, m + 1)
<1>1. PICK w \in Nat : \A S \in kSubset(limit, 1..m) : Cardinality(Ways(limit, m, S)) = w
  BY DEF Even
<1> DEFINE c == m + 1 - limit
           v == w * c
<1>2. c \in Nat /\ v \in Nat /\ v = c * w
  <2>1. c \in Nat
    OBVIOUS
  <2> HIDE DEF c
  <2> QED BY <2>1
<1>3. ASSUME NEW S \in kSubset(limit, 1..(m + 1)) PROVE Cardinality(Ways(limit, m + 1, S)) = v
  <2>1. S \in SUBSET (1..(m + 1)) /\ Cardinality(S) = limit
    BY DEF kSubset
  <2>2. CASE m + 1 \notin S
    <3>1. S \in SUBSET (1..m)
      BY <2>1, <2>2
    <3>2. Cardinality(Ways(limit, m, S)) = w
      BY <1>1, <2>1, <3>1 DEF kSubset
    <3>3. Cardinality(Ways(limit, m + 1, S)) = Cardinality(Ways(limit, m, S)) * (m + 1 - limit)
      BY <2>2, WaysLeft
    <3> QED BY <3>2, <3>3
  <2>3. CASE m + 1 \in S
    <3> DEFINE R == S \ {m + 1}
    <3>1. R \in SUBSET (1..m) /\ S = R \cup {m + 1}
      BY <2>1, <2>3
    <3>2. Cardinality(R) = limit - 1
      <4>1. IsFiniteSet(S)
        <5>1. m + 1 \in Nat
          OBVIOUS
        <5> QED BY <2>1, <5>1, PlacesFinite
      <4>2. Cardinality(R) = Cardinality(S) - 1
        BY <2>3, <4>1, FS_RemoveElement
      <4> QED BY <2>1, <4>2
    <3> HIDE DEF R
    <3>3. Cardinality(Ways(limit, m + 1, R \cup {m + 1}))
            = Cardinality({e \in Plans(m) : R \subseteq Sample(e, limit, m)})
      BY <3>1, <3>2, WaysChanged
    <3>4. Cardinality({e \in Plans(m) : R \subseteq Sample(e, limit, m)}) = (m + 1 - limit) * w
      BY <1>1, <3>1, <3>2, WaysBeyond
    <3> QED BY <1>2, <3>1, <3>3, <3>4
  <2> QED BY <2>2, <2>3
<1> HIDE DEF v
<1> QED BY <1>2, <1>3 DEF Even

LEMMA AlwaysEven ==
  ASSUME NEW limit \in Nat \ {0}, NEW m \in Nat, limit <= m
  PROVE  Even(limit, m)
<1> DEFINE N == {k \in Nat : Even(limit, limit + k)}
<1>1. 0 \in N
  <2> DEFINE W == Ways(limit, limit, 1..limit)
             w == Cardinality(W)
  <2>1. w \in Nat
    <3>1. W \in SUBSET Plans(limit)
      BY DEF Ways
    <3> HIDE DEF W
    <3>2. IsFiniteSet(W)
      BY <3>1, PlansFinite, FS_Subset
    <3> QED BY <3>2, FS_CardinalityType
  <2>2. \A S \in kSubset(limit, 1..limit) : S = 1..limit
    <3>1. IsFiniteSet(1..limit) /\ Cardinality(1..limit) = limit
      BY FS_Interval
    <3> QED BY <3>1, FS_Subset DEF kSubset
  <2>3. \A S \in kSubset(limit, 1..limit) : Cardinality(Ways(limit, limit, S)) = w
    BY <2>2
  <2>4. Even(limit, limit) /\ limit + 0 = limit
    <3> HIDE DEF w
    <3> QED BY <2>1, <2>3 DEF Even
  <2> QED BY <2>4
<1>2. ASSUME NEW k \in Nat, k \in N PROVE k + 1 \in N
  <2> DEFINE p == limit + k
  <2>1. p \in Nat /\ limit <= p /\ limit + (k + 1) = p + 1 /\ Even(limit, p)
    BY <1>2
  <2> HIDE DEF p
  <2>2. Even(limit, p + 1)
    BY <2>1, EvenSteps
  <2> QED BY <2>1, <2>2
<1>3. m - limit \in Nat /\ limit + (m - limit) = m
  OBVIOUS
<1> HIDE DEF N
<1>4. m - limit \in N
  BY <1>1, <1>2, <1>3, NatInduct
<1> QED BY <1>3, <1>4 DEF N

(* So each has its share of the draws. *)
LEMMA FairShare ==
  ASSUME NEW limit \in Nat \ {0}, NEW m \in Nat, limit <= m,
         NEW S \in kSubset(limit, 1..m)
  PROVE  Cardinality(Ways(limit, m, S)) * Cardinality(kSubset(limit, 1..m))
           = Cardinality(Plans(m))
<1> DEFINE K == kSubset(limit, 1..m)
           D == Plans(m)
           h == [d \in D |-> Sample(d, limit, m)]
           f == [T \in K |-> Cardinality({d \in D : h[d] = T})]
<1>1. PICK w \in Nat : \A T \in K : Cardinality(Ways(limit, m, T)) = w
  BY AlwaysEven DEF Even
<1>2. IsFiniteSet(K) /\ IsFiniteSet(D)
  <2>1. IsFiniteSet(SUBSET (1..m))
    <3>1. IsFiniteSet(1..m)
      BY FS_Interval
    <3> QED BY <3>1, FS_SUBSET
  <2>2. K \in SUBSET SUBSET (1..m)
    BY DEF kSubset
  <2> HIDE DEF K
  <2> QED BY <2>1, <2>2, FS_Subset, PlansFinite
<1>3. h \in [D -> K]
  BY SampleIs
<1>4. \A T \in K : f[T] = w
  <2>1. \A T \in K : {d \in D : h[d] = T} = Ways(limit, m, T)
    BY DEF Ways
  <2> HIDE DEF h, K
  <2> QED BY <1>1, <2>1
<1> HIDE DEF h, K, D
<1>5. SumFunction(f) = Cardinality(D)
  <2>1. SumFunction([T \in K |-> Cardinality({d \in D : h[d] = T})]) = Cardinality(D)
    BY <1>2, <1>3, SumOfClasses
  <2> QED BY <2>1
<1>6. SumFunction(f) = SumFunctionOnSet(f, K)
  BY DEF SumFunction
<1> HIDE DEF f
<1>7. SumFunctionOnSet(f, K) = Cardinality(K) * w
  BY <1>2, <1>4, SumConstant
<1>8. Cardinality(K) \in Nat
  BY <1>2, FS_CardinalityType
<1>9. Cardinality(Ways(limit, m, S)) = w
  BY <1>1 DEF K
<1>10. w * Cardinality(K) = Cardinality(D)
  BY <1>5, <1>6, <1>7, <1>8
<1> QED BY <1>9, <1>10 DEF K, D

-----------------------------------------------------------------------------
(* The items read so far are those in the places that Algorithm R keeps.    *)
Drawn(s, r, t) == Len(s) = Len(t) /\ \A i \in 1..Len(t) : s[i] = Data[r][t[i]]

Sampling ==
  pc = "stream" /\ cfg.seed # 0 /\ cfg.limit # 0 =>
    Drawn(items, src, Kept(draw[cfg.seed], cfg.limit, n))

LEMMA DrawnRound ==
  ASSUME NEW s \in Seq(Item), NEW r \in Revisions, NEW t \in Seq(Nat), Drawn(s, r, t),
         NEW limit \in Nat \ {0}, NEW k \in Nat, Data[r][k] \in Item, NEW j \in Nat
  PROVE  Drawn(Place(s, Data[r][k], limit, j), r, Place(t, k, limit, j))
<1> DEFINE item == Data[r][k]
           u == Place(s, item, limit, j)
           v == Place(t, k, limit, j)
<1>1. Len(s) = Len(t) /\ Len(t) \in Nat /\ \A i \in 1..Len(t) : s[i] = Data[r][t[i]]
  BY DEF Drawn
<1>2. CASE Len(t) < limit
  <2>1. u = Append(s, item) /\ v = Append(t, k)
    BY <1>1, <1>2 DEF Place
  <2> HIDE DEF item, u, v
  <2>2. Len(u) = Len(t) + 1 /\ Len(v) = Len(t) + 1
    BY <1>1, <2>1 DEF item
  <2>3. ASSUME NEW i \in 1..Len(v) PROVE u[i] = Data[r][v[i]]
    <3>1. CASE i = Len(t) + 1
      <4>1. u[i] = item /\ v[i] = k
        BY <1>1, <2>1, <3>1
      <4> QED BY <4>1 DEF item
    <3>2. CASE i \in 1..Len(t)
      <4>1. u[i] = s[i] /\ v[i] = t[i]
        BY <1>1, <2>1, <3>2
      <4> QED BY <1>1, <3>2, <4>1
    <3> QED BY <1>1, <2>2, <3>1, <3>2
  <2> QED BY <2>2, <2>3 DEF Drawn, u, v, item
<1>3. CASE ~(Len(t) < limit) /\ j < limit
  <2>1. u = [s EXCEPT ![j + 1] = item] /\ v = [t EXCEPT ![j + 1] = k] /\ j + 1 \in 1..Len(t)
    BY <1>1, <1>3 DEF Place
  <2> HIDE DEF item, u, v
  <2>2. Len(u) = Len(t) /\ Len(v) = Len(t)
    BY <1>1, <2>1
  <2>3. ASSUME NEW i \in 1..Len(v) PROVE u[i] = Data[r][v[i]]
    <3>1. CASE i = j + 1
      <4>1. u[i] = item /\ v[i] = k
        BY <1>1, <2>1, <3>1
      <4> QED BY <4>1 DEF item
    <3>2. CASE i # j + 1
      <4>1. u[i] = s[i] /\ v[i] = t[i]
        BY <1>1, <2>1, <2>2, <3>2
      <4> QED BY <1>1, <2>2, <4>1
    <3> QED BY <3>1, <3>2
  <2> QED BY <2>2, <2>3 DEF Drawn, u, v, item
<1>4. CASE ~(Len(t) < limit) /\ ~(j < limit)
  BY <1>1, <1>4 DEF Place, Drawn
<1> QED BY <1>2, <1>3, <1>4

LEMMA StepSampling ==
  Typed /\ Others /\ Sourced /\ Sampling /\ [Next]_vars => Sampling'
<1> SUFFICES ASSUME Typed, Others, Sourced, Sampling, [Next]_vars,
                    pc' = "stream", cfg'.seed # 0, cfg'.limit # 0
             PROVE  Drawn(items, src, Kept(draw[cfg.seed], cfg.limit, n))'
  BY DEF Sampling
<1>1. CASE UNCHANGED <<pc, cfg, items, src, draw, n>>
  BY <1>1 DEF Sampling
<1>2. CASE Fetch
  <2>1. items' = <<>> /\ n' = 0
    BY <1>2 DEF Fetch, Sourced
  <2> DEFINE t == Kept(draw[cfg.seed], cfg.limit, n)'
  <2>2. t = <<>>
    BY <2>1, KeptSteps
  <2> HIDE DEF t
  <2>3. Len(items') = Len(t) /\ Len(t) = 0
    BY <2>1, <2>2
  <2>4. \A i \in 1..Len(t) : items'[i] = Data[src'][t[i]]
    BY <2>3
  <2> QED BY <2>3, <2>4 DEF Drawn, t
<1>3. CASE Decode
  <2> DEFINE d == draw[cfg.seed]
             t == Kept(d, cfg.limit, n)
  <2>1. /\ cfg \in Configs /\ cfg.seed \in Seeds /\ cfg.limit \in Nat \ {0}
        /\ items \in Seq(Item) /\ n \in Nat /\ n < MaxItems /\ MaxItems \in Nat
        /\ src \in Revisions /\ n + 1 \in 1..Len(Data[src])
    <3>1. cfg \in Configs /\ cfg' = cfg /\ src \in Revisions /\ n < Len(Data[src])
      BY <1>3 DEF Decode, Typed, Sourced, Reading
    <3>2. cfg.seed \in {0} \cup Seeds /\ cfg.limit \in Nat /\ MaxItems \in Nat
          /\ Len(Data[src]) = MaxItems
      BY <3>1, ImportAssumption
    <3> QED BY <3>1, <3>2 DEF Typed
  <2>2. d \in Plans(MaxItems)
    BY <2>1 DEF Others
  <2>3. \A k \in 1..MaxItems : d[k] \in Nat
    BY <2>1, <2>2, PlanIs
  <2>4. /\ items' = Place(items, Data[src][n + 1], cfg.limit, d[n + 1])
        /\ n' = n + 1 /\ UNCHANGED <<cfg, src, draw>> /\ pc = "stream"
    BY <1>3, <2>1, ImportAssumption DEF Decode
  <2>5. Kept(d, cfg.limit, n + 1) = Place(t, n + 1, cfg.limit, d[n + 1])
    BY <2>1, KeptSteps
  <2>6. Drawn(items, src, t)
    BY <2>1, <2>4 DEF Sampling
  <2>7. t \in Seq(Nat)
    <3>1. \A k \in 1..n : d[k] \in Nat
      BY <2>1, <2>3
    <3> HIDE DEF d
    <3>2. t \in Seq(1..n)
      BY <2>1, <3>1, KeptTyped
    <3> HIDE DEF t
    <3> QED BY <2>1, <3>2
  <2>8. d[n + 1] \in Nat /\ Data[src][n + 1] \in Item
    BY <2>1, <2>3, RowOf
  <2> HIDE DEF t, d
  <2>9. Drawn(Place(items, Data[src][n + 1], cfg.limit, d[n + 1]), src,
              Place(t, n + 1, cfg.limit, d[n + 1]))
    <3>1. n + 1 \in Nat
      BY <2>1
    <3> QED BY <2>1, <2>6, <2>7, <2>8, <3>1, DrawnRound
  <2>10. Drawn(items', src', Kept(d, cfg.limit, n + 1))
    BY <2>4, <2>5, <2>9
  <2> QED BY <2>4, <2>10 DEF d
<1> QED
  BY <1>1, <1>2, <1>3
     DEF Next, Move, Start, Resolve, EndOfStream, Page, PageUncounted, EmptyPage, FetchErr,
         EmitItem, EmitNone, Save, Kill, Finished, vars, fetchVars

LEMMA SampledFairly == Typed /\ Others /\ Sourced /\ Sampling => SamplingUniform
<1> SUFFICES ASSUME Typed, Others, Sourced, Sampling,
                    pc = "stream", cfg.seed # 0, cfg.limit \in 1..n
             PROVE  /\ ToSet(items) = {Data[src][k] : k \in Sample(draw[cfg.seed], cfg.limit, n)}
                    /\ \A S \in kSubset(cfg.limit, 1..n) :
                         Cardinality(Ways(cfg.limit, n, S)) * Cardinality(kSubset(cfg.limit, 1..n))
                           = Cardinality(Plans(n))
  BY DEF SamplingUniform, Sample, Ways
<1>1. /\ n \in Nat /\ cfg.limit \in Nat \ {0} /\ cfg.limit <= n /\ n <= MaxItems
      /\ cfg.seed \in Seeds /\ items \in Seq(Item) /\ MaxItems \in Nat
  <2>1. cfg \in Configs /\ n \in Nat /\ n <= MaxItems /\ items \in Seq(Item)
    BY DEF Typed, Sourced, Reading
  <2> QED BY <2>1, ImportAssumption
<1> DEFINE d == draw[cfg.seed]
           t == Kept(d, cfg.limit, n)
<1>2. Drawn(items, src, t)
  BY <1>1 DEF Sampling
<1>3. \A k \in 1..n : d[k] \in Nat
  <2>1. d \in Plans(MaxItems)
    BY <1>1 DEF Others
  <2>2. \A k \in 1..MaxItems : d[k] \in Nat
    BY <1>1, <2>1, PlanIs
  <2> QED BY <1>1, <2>2
<1>4. t \in Seq(1..n)
  <2> HIDE DEF d
  <2> QED BY <1>1, <1>3, KeptTyped
<1>5. Sample(d, cfg.limit, n) = {t[i] : i \in 1..Len(t)}
  <2>1. Sample(d, cfg.limit, n) = ToSet(t)
    BY DEF Sample
  <2> HIDE DEF t, d
  <2> QED BY <1>4, <2>1 DEF ToSet
<1>6. ToSet(items) = {items[i] : i \in 1..Len(items)}
  BY <1>1 DEF ToSet
<1>7. ToSet(items) = {Data[src][k] : k \in Sample(d, cfg.limit, n)}
  <2> HIDE DEF t, d
  <2> QED BY <1>2, <1>5, <1>6 DEF Drawn
<1>8. ASSUME NEW S \in kSubset(cfg.limit, 1..n)
      PROVE  Cardinality(Ways(cfg.limit, n, S)) * Cardinality(kSubset(cfg.limit, 1..n))
               = Cardinality(Plans(n))
  BY <1>1, FairShare
<1> QED BY <1>7, <1>8

-----------------------------------------------------------------------------
LEMMA InitOthers == Init => Others /\ Chosen /\ Selected /\ Sampling
<1> SUFFICES ASSUME Init PROVE Others /\ Chosen /\ Selected /\ Sampling
  OBVIOUS
<1>1. MaxItems \in Nat /\ MaxImports \in Nat /\ MaxFaults \in Nat
  BY ImportAssumption
<1>2. /\ cfg = Nothing /\ rev = Unpinned /\ src = Unpinned /\ n = 0 /\ cut \in BOOLEAN
      /\ dirty \in BOOLEAN /\ draw \in [Seeds -> Plans(MaxItems)] /\ manifest = Nothing
      /\ imports = 0 /\ faults = 0 /\ pc = "off"
  BY DEF Init
<1>3. Others
  BY <1>1, <1>2 DEF Others
<1>4. Chosen /\ Selected /\ Sampling
  BY <1>2 DEF Chosen, Reading, Selected, Saved, Sampling
<1> QED BY <1>3, <1>4

Inductive ==
  /\ Typed /\ Others /\ Sourced /\ Named /\ Chosen /\ Sampling
  /\ Traced /\ Selected /\ Written /\ DataMatches

LEMMA Invariance == Spec => []Inductive
<1>1. Init => Inductive
  <2>1. Init => DataMatches
    BY DEF Init, DataMatches, Saved
  <2> QED BY <2>1, InitSourced, InitOthers DEF Inductive
<1>2. Inductive /\ [Next]_vars => Inductive'
  BY StepSourced, StepOthers, StepChosen, StepSampling, StepTraced, StepSelected, StepWritten, StepMatches
     DEF Inductive
<1> QED BY <1>1, <1>2, PTL DEF Spec

(* Every variable keeps its type, whatever the hub serves. *)
THEOREM TypeCorrect == Spec => []TypeOK
<1>1. Inductive => TypeOK
  <2> SUFFICES ASSUME Typed, Others, Named PROVE TypeOK
    BY DEF Inductive
  <2>1. /\ head \in Revisions
        /\ pc \in {"off", "resolve", "fetch", "stream", "page", "emit"}
        /\ items \in Seq(Item) /\ tasks \in Seq(Task) /\ Len(tasks) <= Len(items)
        /\ data \in [Paths -> Sessions \cup {Nothing, Torn}] /\ n \in Nat
    BY DEF Typed, Points, Reading, Named
  <2>2. /\ cfg \in Configs \cup {Nothing} /\ {rev, src} \subseteq Revisions \cup {Unpinned}
        /\ cut \in BOOLEAN /\ dirty \in BOOLEAN /\ draw \in [Seeds -> Plans(MaxItems)]
        /\ imports \in 0..MaxImports /\ faults \in 0..MaxFaults
    BY DEF Others
  <2>3. n \in 0..MaxItems
    BY <2>1, ImportAssumption DEF Others
  <2>4. manifest \in {Nothing, Torn} \cup
          [cfg : Configs, rev : Revisions, tasks : Seq(Task), cut : BOOLEAN]
    BY DEF Others, Manifest
  <2> QED BY <2>1, <2>2, <2>3, <2>4 DEF TypeOK
<1> QED BY <1>1, Invariance, PTL

(* A manifest has as many items as its configuration asks for and the split *)
(* has, none twice, and without a seed the first ones, however the hub cuts *)
(* its pages.  With a seed it does not say which: the rows method ignores   *)
(* the seed.                                                               *)
THEOREM AsAskedFor == Spec => []Selection
<1>1. Inductive => Selection
  <2> SUFFICES ASSUME Selected, Others, Saved PROVE Selection
    BY DEF Inductive, Selection
  <2> DEFINE s == Emitted
             all == Data[manifest.rev]
             c == manifest.cfg
  <2>1. /\ manifest.rev \in Revisions /\ s \in Seq(Item) /\ Len(s) <= MaxItems
        /\ Picked(c, manifest.rev, s, MaxItems)
        /\ Len(s) <= Want(c) /\ (manifest.cut \/ Len(s) = Want(c))
    BY DEF Selected
  <2>2. all \in Seq(Item) /\ Len(all) = MaxItems /\ MaxItems \in Nat
    BY <2>1, ImportAssumption
  <2>3. Want(c) = IF c.limit = 0 THEN Len(all) ELSE Min({c.limit, Len(all)})
    BY <2>2 DEF Want
  <2> HIDE DEF s, c
  <2>4. /\ Len(s) \in Nat /\ DOMAIN s = 1..Len(s)
    BY <2>1
  <2>5. DOMAIN all = 1..MaxItems
    <3> HIDE DEF all
    <3> QED BY <2>2
  <2>6. CASE c.method = "rows" \/ c.seed = 0
    <3>1. \A i \in 1..Len(s) : s[i] = all[i]
      BY <2>1, <2>6 DEF Picked
    <3> HIDE DEF all
    <3>2. Len(s) <= Len(all)
      BY <2>1, <2>2
    <3>3. SubSeq(s, 1, Len(s)) = [i \in 1..Len(s) |-> s[i]]
      BY <2>1, <2>4
    <3>4. SubSeq(all, 1, Len(s)) = [i \in 1..Len(s) |-> all[i]]
      BY <2>2, <2>4, <3>2
    <3>5. SubSeq(s, 1, Len(s)) = SubSeq(all, 1, Len(s))
      BY <3>1, <3>3, <3>4
    <3>6. IsPrefix(s, all)
      BY <3>2, <3>5 DEF IsPrefix
    <3>7. IF c.seed = 0 THEN IsPrefix(s, all)
          ELSE \E p \in Injection(DOMAIN s, DOMAIN all) : \A i \in DOMAIN s : s[i] = all[p[i]]
      <4> DEFINE p == [i \in 1..Len(s) |-> i]
      <4>1. p \in Injection(DOMAIN s, DOMAIN all)
        BY <2>1, <2>2, <2>4, <2>5 DEF Injection, IsInjective
      <4>2. \A i \in DOMAIN s : s[i] = all[p[i]]
        BY <2>4, <3>1
      <4> QED BY <3>6, <4>1, <4>2
    <3> QED BY <2>1, <2>3, <3>7 DEF Selection, s, all, c
  <2>7. CASE ~(c.method = "rows" \/ c.seed = 0)
    <3>1. PICK p \in [1..Len(s) -> 1..MaxItems] :
            /\ \A i, j \in 1..Len(s) : p[i] = p[j] => i = j
            /\ \A i \in 1..Len(s) : s[i] = all[p[i]]
      BY <2>1, <2>7 DEF Picked
    <3>2. p \in Injection(DOMAIN s, DOMAIN all)
      BY <2>4, <2>5, <3>1 DEF Injection, IsInjective
    <3>3. \A i \in DOMAIN s : s[i] = all[p[i]]
      BY <2>4, <3>1
    <3> QED BY <2>1, <2>3, <2>7, <3>2, <3>3 DEF Selection, s, all, c
  <2> QED BY <2>6, <2>7
<1> QED BY <1>1, Invariance, PTL

(* Every item of a manifest is in the revision the manifest records,       *)
(* wherever the dataset moves while it is fetched.                         *)
THEOREM RevisionIsRecorded == Spec => []RecordedRevision
<1>1. Inductive => RecordedRevision
  <2> SUFFICES ASSUME Typed, Traced, Saved
               PROVE  ToSet(Emitted) \subseteq ToSet(Data[manifest.rev])
    BY DEF Inductive, RecordedRevision
  <2>1. /\ manifest.rev \in Revisions /\ manifest.tasks \in Seq(Task)
        /\ \A i \in 1..Len(manifest.tasks) : manifest.tasks[i].item \in Rows(manifest.rev)
    BY DEF Traced
  <2>2. DOMAIN manifest.tasks = 1..Len(manifest.tasks)
    BY <2>1
  <2>3. DOMAIN Data[manifest.rev] = 1..MaxItems
    <3> DEFINE all == Data[manifest.rev]
    <3>1. all \in Seq(Item) /\ Len(all) = MaxItems
      BY <2>1, ImportAssumption
    <3> HIDE DEF all
    <3>2. DOMAIN all = 1..Len(all)
      BY <3>1
    <3> QED BY <3>1, <3>2 DEF all
  <2> QED BY <2>1, <2>2, <2>3 DEF ToSet, Emitted, Rows
<1> QED BY <1>1, Invariance, PTL

(* The files named by the tasks of a manifest hold those tasks' sessions   *)
(* unless a later import broke off: files of an earlier import under the   *)
(* same names do no harm, and no item overwrites another's.                *)
THEOREM DataIsOwn == Spec => []DataMatches
<1>1. Inductive => DataMatches
  BY DEF Inductive
<1> QED BY <1>1, Invariance, PTL

(* The sample is fair: whatever the limit and the number of items read,    *)
(* each selection of as many places is that of the same number of draws,   *)
(* and the items kept are those of the selection that was drawn.           *)
THEOREM SampleIsUniform == Spec => []SamplingUniform
<1>1. Inductive => SamplingUniform
  BY SampledFairly DEF Inductive
<1> QED BY <1>1, Invariance, PTL
=============================================================================
