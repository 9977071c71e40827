-------------------------------- MODULE Import --------------------------------
(***************************************************************************)
(* "meept-bench lmeval": fetch a split of a dataset, write the sessions of  *)
(* each item into a data directory, then a manifest with one task per item. *)
(* Imports run one after the other, with different configurations, over the *)
(* same data directory and the same manifest; the dataset moves meanwhile.  *)
(*                                                                         *)
(* The dataset hub is external: it serves any revision as it was, but it    *)
(* may answer with an error, break a download off, or serve short pages.    *)
(* A session is a value; how it is rendered, the prompt and the choice of   *)
(* the checker are left out.  A signal fails the request under way and is   *)
(* ignored later, so only a kill ends an emission early.                    *)
(***************************************************************************)
EXTENDS Naturals, Sequences, FiniteSetsExt, SequencesExt

CONSTANTS
  Data,        \* the items of the split, by revision
  MaxItems,    \* in the split
  Questions, Sessions,
  MaxSessions, \* of an item
  Configs,     \* configurations: method, pin, limit, seed, mode
  Seeds,       \* those other than 0
  Unpinned,    \* the empty revision
  PageCap,     \* bound: rows the server puts on one page
  MaxImports,  \* bound
  MaxFaults,   \* bound: requests and writes that fail, kills
  Nothing, Torn

Revisions == DOMAIN Data
Item == [q : Questions, hay : Seq(Sessions)]

ASSUME ImportAssumption ==
  /\ 1 \in Revisions /\ Revisions \subseteq Nat \ {0} /\ Unpinned \notin Revisions
  /\ {MaxItems, MaxSessions} \subseteq Nat
  /\ \A r \in Revisions :
       /\ Data[r] \in Seq(Item) /\ Len(Data[r]) = MaxItems
       /\ \A i \in 1..MaxItems : Len(Data[r][i].hay) <= MaxSessions
  /\ Configs \subseteq [method : {"download", "rows"}, pin : Revisions \cup {Unpinned},
                        limit : Nat, seed : {0} \cup Seeds, mode : {"context", "memory"}]
  /\ Seeds \subseteq Nat \ {0}
  /\ PageCap \in Nat \ {0} /\ MaxImports \in Nat /\ MaxFaults \in Nat
  /\ {Nothing, Torn} \cap Sessions = {}

VARIABLES
  head,      \* the latest revision of the dataset
  pc, cfg,
  rev,       \* the revision FetchResolved returns
  src,       \* the revision the items are read from
  items,
  n,         \* items decoded, or the offset of the next page
  draw,      \* what rand.New(seed) yields for the n-th item; never changes
  tasks,     \* those emitted so far
  cut,       \* the fetch stopped before the end of the split without an error
  data,      \* the session files
  manifest,
  dirty,     \* session files were written since the manifest was
  imports, faults

fetchVars == <<rev, src, items, n, cut>>
diskVars  == <<data, manifest, dirty>>
countVars == <<imports, faults>>
vars == <<head, pc, cfg, fetchVars, draw, tasks, diskVars, countVars>>

-----------------------------------------------------------------------------
(* Mutant: Intn before the counter is incremented. *)
DrawsBefore(k) == 0..(IF k = 1 THEN 0 ELSE k - 2)

(* rng.Intn(n) for the n-th item. *)
Draws(k) == 0..(k - 1)

Plans(len) == {d \in [1..len -> 0..(len - 1)] : \A k \in 1..len : d[k] \in Draws(k)}

(* One round of Algorithm R with j drawn; without a limit all is kept. *)
Place(kept, item, limit, j) ==
  IF limit = 0 \/ Len(kept) < limit THEN Append(kept, item)
  ELSE IF j < limit THEN [kept EXCEPT ![j + 1] = item]
  ELSE kept

(* pageSize: rows asked for. *)
PageSize(limit, have) ==
  IF limit > 0 /\ limit - have < PageCap THEN Max({1, limit - have}) ELSE PageCap

Full(kept) == cfg.limit > 0 /\ Len(kept) >= cfg.limit

(* Mutant: a task is named for its question alone. *)
TaskIDPlain(i, q) == <<1, q>>

(* taskID: the index and the hash of the question. *)
TaskID(i, q) == <<i, q>>

Paths == (1..MaxItems) \X Questions \X (1..MaxSessions)

Path(id, j) == <<id[1], id[2], j>>

Init ==
  /\ head = 1 /\ pc = "off" /\ cfg = Nothing
  /\ rev = Unpinned /\ src = Unpinned /\ items = <<>> /\ n = 0 /\ cut = FALSE
  /\ draw \in [Seeds -> Plans(MaxItems)]
  /\ tasks = <<>>
  /\ data = [p \in Paths |-> Nothing] /\ manifest = Nothing /\ dirty = FALSE
  /\ imports = 0 /\ faults = 0

Fault == faults < MaxFaults /\ faults' = faults + 1

-----------------------------------------------------------------------------
(* The dataset gets a new revision. *)
Move ==
  /\ head + 1 \in Revisions
  /\ head' = head + 1
  /\ UNCHANGED <<pc, cfg, fetchVars, draw, tasks, diskVars, countVars>>

(* lmevalCmd with a configuration file. *)
Start ==
  /\ pc = "off" /\ imports < MaxImports
  /\ imports' = imports + 1
  /\ cfg' \in Configs
  /\ rev' = cfg'.pin /\ src' = Unpinned /\ items' = <<>> /\ n' = 0 /\ cut' = FALSE
  /\ tasks' = <<>>
  /\ pc' = IF cfg'.pin = Unpinned THEN "resolve" ELSE "fetch"
  /\ UNCHANGED <<head, draw, diskVars, faults>>

(* resolveRevision: the latest sha. *)
Resolve ==
  /\ pc = "resolve"
  /\ rev' = head /\ pc' = "fetch"
  /\ UNCHANGED <<head, cfg, src, items, n, cut, draw, tasks, diskVars, countVars>>

(* Mutant: FetchResolved does not pin what it resolved, Fetch resolves again. *)
FetchUnpinned ==
  /\ pc = "fetch"
  /\ src' = IF cfg.pin = Unpinned THEN head ELSE rev
  /\ pc' = IF cfg.method = "rows" THEN "page" ELSE "stream"
  /\ UNCHANGED <<head, cfg, rev, items, n, cut, draw, tasks, diskVars, countVars>>

(* Fetch with the pinned revision; a download lists the tree and opens the *)
(* file.                                                                   *)
Fetch ==
  /\ pc = "fetch"
  /\ src' = rev
  /\ pc' = IF cfg.method = "rows" THEN "page" ELSE "stream"
  /\ UNCHANGED <<head, cfg, rev, items, n, cut, draw, tasks, diskVars, countVars>>

(* The next item of the array.  Without a seed the limit ends the download. *)
Decode ==
  /\ pc = "stream" /\ n < Len(Data[src])
  /\ n' = n + 1
  /\ items' = IF cfg.seed = 0 THEN Append(items, Data[src][n'])
              ELSE Place(items, Data[src][n'], cfg.limit, draw[cfg.seed][n'])
  /\ pc' = IF cfg.seed = 0 /\ Full(items') THEN "emit" ELSE "stream"
  /\ UNCHANGED <<head, cfg, rev, src, cut, draw, tasks, diskVars, countVars>>

(* dec.More is false at the end of the array, and when the connection      *)
(* breaks between two items.                                               *)
EndOfStream ==
  /\ pc = "stream"
  /\ IF n = Len(Data[src]) THEN UNCHANGED <<cut, faults>> ELSE cut' = TRUE /\ Fault
  /\ pc' = "emit"
  /\ UNCHANGED <<head, cfg, rev, src, items, n, draw, tasks, diskVars, imports>>

(* Mutant: the offset advances by what was asked for. *)
PageByLength ==
  /\ pc = "page" /\ n < Len(Data[src])
  /\ LET want == PageSize(cfg.limit, Len(items)) IN
       /\ \E k \in 1..Min({want, Len(Data[src]) - n}) :
            items' = items \o SubSeq(Data[src], n + 1, n + k)
       /\ n' = n + want
  /\ pc' = IF Full(items') THEN "emit" ELSE "page"
  /\ UNCHANGED <<head, cfg, rev, src, cut, draw, tasks, diskVars, countVars>>

(* A page of /rows: as many rows as the server likes. *)
Page ==
  /\ pc = "page" /\ n < Len(Data[src])
  /\ \E k \in 1..Min({PageSize(cfg.limit, Len(items)), Len(Data[src]) - n}) :
       /\ items' = items \o SubSeq(Data[src], n + 1, n + k)
       /\ n' = n + k
  /\ pc' = IF Full(items') THEN "emit" ELSE "page"
  /\ UNCHANGED <<head, cfg, rev, src, cut, draw, tasks, diskVars, countVars>>

(* A page that does not say how many rows it has ends the fetch. *)
PageUncounted ==
  /\ pc = "page" /\ n < Len(Data[src]) /\ Fault
  /\ \E k \in 1..Min({PageSize(cfg.limit, Len(items)), Len(Data[src]) - n}) :
       /\ items' = items \o SubSeq(Data[src], n + 1, n + k)
       /\ cut' = ~Full(items')
  /\ pc' = "emit"
  /\ UNCHANGED <<head, cfg, rev, src, n, draw, tasks, diskVars, imports>>

(* A page without rows: the end of the split, or an error object, whose    *)
(* HTTP status nobody looks at.                                            *)
EmptyPage ==
  /\ pc = "page"
  /\ IF n >= Len(Data[src]) THEN UNCHANGED <<cut, faults>> ELSE cut' = TRUE /\ Fault
  /\ pc' = "emit"
  /\ UNCHANGED <<head, cfg, rev, src, items, n, draw, tasks, diskVars, imports>>

(* Any other failure of a request, or a signal: lmevalCmd exits with 1. *)
FetchErr ==
  /\ pc \in {"resolve", "fetch", "stream", "page"}
  /\ Fault /\ pc' = "off"
  /\ UNCHANGED <<head, cfg, fetchVars, draw, tasks, diskVars, imports>>

-----------------------------------------------------------------------------
Next1 == Len(tasks) + 1

(* Emit: the session files of the next item, written in place, and its task. *)
EmitItem ==
  /\ pc = "emit" /\ Len(tasks) < Len(items)
  /\ LET it == items[Next1]
         id == TaskID(Next1, it.q)
     IN IF cfg.mode = "memory"
          THEN /\ tasks' = Append(tasks, [id |-> id, item |-> it])
               /\ UNCHANGED <<pc, data, dirty, faults>>
        ELSE IF it.hay = <<>>
          THEN pc' = "off" /\ UNCHANGED <<tasks, data, dirty, faults>>
        ELSE \E k \in 1..Len(it.hay), whole \in BOOLEAN :
          LET stop == k < Len(it.hay) \/ ~whole IN
          /\ data' = [p \in Paths |->
               IF \E j \in 1..k : p = Path(id, j)
               THEN IF p[3] = k /\ ~whole THEN Torn ELSE it.hay[p[3]]
               ELSE data[p]]
          /\ dirty' = TRUE
          /\ IF stop THEN Fault /\ pc' = "off" /\ UNCHANGED tasks
             ELSE /\ tasks' = Append(tasks, [id |-> id, item |-> it])
                  /\ UNCHANGED <<pc, faults>>
  /\ UNCHANGED <<head, cfg, fetchVars, draw, manifest, imports>>

(* Emit refuses to emit nothing. *)
EmitNone ==
  /\ pc = "emit" /\ items = <<>>
  /\ pc' = "off"
  /\ UNCHANGED <<head, cfg, fetchVars, draw, tasks, diskVars, countVars>>

(* writeManifestIndented: the manifest is written last, and in place. *)
Save ==
  /\ pc = "emit" /\ items # <<>> /\ Len(tasks) = Len(items)
  /\ manifest' = [cfg |-> cfg, rev |-> rev, tasks |-> tasks, cut |-> cut]
  /\ dirty' = FALSE
  /\ pc' = "off"
  /\ UNCHANGED <<head, cfg, fetchVars, draw, tasks, data, countVars>>

(* The process is killed, before or while it writes the manifest. *)
Kill ==
  /\ pc # "off" /\ Fault /\ pc' = "off"
  /\ manifest' = manifest \/ (pc = "emit" /\ Len(tasks) = Len(items) /\ manifest' = Torn)
  /\ UNCHANGED <<head, cfg, fetchVars, draw, tasks, data, dirty, imports>>

Finished == pc = "off" /\ imports = MaxImports /\ UNCHANGED vars

Next ==
  \/ Move \/ Start \/ Resolve \/ Fetch \/ Decode \/ EndOfStream \/ Page \/ PageUncounted
  \/ EmptyPage \/ FetchErr \/ EmitItem \/ EmitNone \/ Save \/ Kill \/ Finished

Spec == Init /\ [][Next]_vars
-----------------------------------------------------------------------------
Task == [id : (1..MaxItems) \X Questions, item : Item]

TypeOK ==
  /\ head \in Revisions
  /\ pc \in {"off", "resolve", "fetch", "stream", "page", "emit"}
  /\ cfg \in Configs \cup {Nothing}
  /\ {rev, src} \subseteq Revisions \cup {Unpinned}
  /\ items \in Seq(Item) /\ n \in 0..MaxItems /\ cut \in BOOLEAN
  /\ draw \in [Seeds -> Plans(MaxItems)]
  /\ tasks \in Seq(Task) /\ Len(tasks) <= Len(items)
  /\ data \in [Paths -> Sessions \cup {Nothing, Torn}] /\ dirty \in BOOLEAN
  /\ manifest \in {Nothing, Torn} \cup
       [cfg : Configs, rev : Revisions, tasks : Seq(Task), cut : BOOLEAN]
  /\ imports \in 0..MaxImports /\ faults \in 0..MaxFaults

Saved == manifest \notin {Nothing, Torn}

Emitted == [i \in DOMAIN manifest.tasks |-> manifest.tasks[i].item]

(* Every row of the benchmark can be traced to its data: the items of a    *)
(* manifest are those of the revision it records, although the dataset may *)
(* have moved between the requests.                                        *)
RecordedRevision ==
  Saved => ToSet(Emitted) \subseteq ToSet(Data[manifest.rev])

(* What both methods give: without a seed the first items of the split,    *)
(* with a seed as many items, none of them twice; fewer only if the split   *)
(* is shorter or the fetch was cut off.  (Which items a seed should select  *)
(* is in SeedSamples: fetchRows does not look at the seed.)                 *)
Selection ==
  Saved =>
    LET all  == Data[manifest.rev]
        c    == manifest.cfg
        want == IF c.limit = 0 THEN Len(all) ELSE Min({c.limit, Len(all)})
    IN /\ IF c.seed = 0 THEN IsPrefix(Emitted, all)
          ELSE \E p \in Injection(DOMAIN Emitted, DOMAIN all) :
                 \A i \in DOMAIN Emitted : Emitted[i] = all[p[i]]
       /\ Len(Emitted) <= want /\ (manifest.cut \/ Len(Emitted) = want)

(* The files a task of the manifest names hold the sessions of its own     *)
(* item, whatever earlier imports left in the directory, as long as no     *)
(* later import broke off after it had begun to write.                     *)
DataMatches ==
  Saved /\ ~dirty /\ manifest.cfg.mode = "context" =>
    \A i \in DOMAIN manifest.tasks :
      LET t == manifest.tasks[i] IN
      \A j \in DOMAIN t.item.hay : data[Path(t.id, j)] = t.item.hay[j]

(* The places of the first m items that Algorithm R keeps if d is drawn. *)
Kept(d, limit, m) ==
  LET kept[k \in 0..m] ==
        IF k = 0 THEN <<>> ELSE Place(kept[k - 1], k, limit, d[k])
  IN kept[m]

(* LONGMEMEVAL.md: with a seed a manifest holds the sample that it draws    *)
(* from the whole split, by whatever method the items were fetched.         *)
SeedSamples ==
  Saved /\ manifest.cfg.seed # 0 /\ ~manifest.cut =>
    LET all  == Data[manifest.rev]
        kept == Kept(draw[manifest.cfg.seed], manifest.cfg.limit, Len(all))
    IN Emitted = [i \in DOMAIN kept |-> all[kept[i]]]

(* Algorithm R is fair: after any number of items it has as many of them as *)
(* it may keep, and each such selection is that of the same share of the    *)
(* draws there may have been.                                               *)
SamplingUniform ==
  pc = "stream" /\ cfg.seed # 0 /\ cfg.limit \in 1..n =>
    LET Sample(d) == ToSet(Kept(d, cfg.limit, n))
        Ways(S) == Cardinality({d \in Plans(n) : Sample(d) = S})
        selections == kSubset(cfg.limit, 1..n)
    IN /\ ToSet(items) = {Data[src][k] : k \in Sample(draw[cfg.seed])}
       /\ \A S \in selections : Ways(S) * Cardinality(selections) = Cardinality(Plans(n))
=============================================================================
