---------------------------- MODULE MemoryProofs ----------------------------
(***************************************************************************)
(* The memory of the bot, for any number of processes, subjects, blocks    *)
(* and jobs: core blocks lose no note, the version history of the items is *)
(* linked consistently and a chain, what is revoked is left alone, and     *)
(* check-ins keep their distance.                                          *)
(***************************************************************************)
EXTENDS Memory, TLAPS, FiniteSetTheorems

(***************************************************************************)
(* Core blocks.                                                            *)
(***************************************************************************)
\* The advisory lock admits one editor to a block, and what it has read is
\* what the block holds until it writes.
Locked ==
    /\ \A d, e \in Editor : editing[d] = editing[e] /\ editing[d] # NoBlock => d = e
    /\ \A e \in Editor : editing[e] # NoBlock => view[e] = content[editing[e]]

CoreInv == CoreTypeOK /\ Locked /\ NotesAreKept

\* The end of a transaction releases one lock.
LEMMA UnlockFacts ==
  ASSUME CoreTypeOK, NEW e \in Editor, Unlock(e)
  PROVE  /\ editing' \in [Editor -> Block \cup {NoBlock}]
         /\ view' \in [Editor -> SUBSET Note]
         /\ editing'[e] = NoBlock
         /\ \A d \in Editor : d # e => editing'[d] = editing[d] /\ view'[d] = view[d]
BY DEF CoreTypeOK, Unlock

\* A write by the editor that holds the block.
LEMMA WriteKeepsInv ==
  ASSUME CoreInv, NEW e \in Editor, NEW b \in Block, editing[e] = b, notes < MaxNotes,
         NEW next \in SUBSET Note, NEW limit \in Budgets \cup {ToolBudget} \cup {budget[b]},
         NEW ghost, Write(b, next, limit, ghost), next = ghost, Unlock(e)
  PROVE  CoreInv'
<1> USE CoreAssumption DEF CoreInv
<1>1. limit \in Budgets \cup {0, ToolBudget} /\ b # NoBlock
  BY DEF CoreTypeOK
<1>2. content' = [content EXCEPT ![b] = next] /\ kept' = [kept EXCEPT ![b] = next]
  BY DEF Write
<1>3. budget' = [budget EXCEPT ![b] = limit] /\ Cardinality(next) <= limit
  BY DEF Write
<1>4. content' \in [Block -> SUBSET Note] /\ kept' \in [Block -> SUBSET Note]
  BY <1>2 DEF CoreTypeOK
<1>5. budget' \in [Block -> Budgets \cup {0, ToolBudget}]
  BY <1>1, <1>3 DEF CoreTypeOK
<1>6. notes' \in 0..MaxNotes
  BY DEF Write, CoreTypeOK
<1>7. CoreTypeOK'
  BY <1>4, <1>5, <1>6, UnlockFacts DEF CoreTypeOK
<1>8. Locked'
  <2>1. ASSUME NEW d \in Editor, editing'[d] # NoBlock
        PROVE  d # e /\ editing'[d] = editing[d] /\ view'[d] = view[d] /\ editing[d] # b
    BY <2>1, UnlockFacts, <1>1 DEF Locked
  <2>2. ASSUME NEW d \in Editor, editing'[d] # NoBlock PROVE view'[d] = content'[editing'[d]]
    BY <2>1, <2>2, <1>2 DEF Locked, CoreTypeOK
  <2> QED
    BY <2>1, <2>2 DEF Locked
<1>9. NotesAreKept'
  <2>1. ASSUME NEW a \in Block, a # b PROVE /\ content'[a] = content[a] /\ kept'[a] = kept[a]
                                            /\ budget'[a] = budget[a]
    BY <2>1, <1>2, <1>3 DEF CoreTypeOK
  <2>2. content'[b] = next /\ kept'[b] = next /\ budget'[b] = limit
    BY <1>2, <1>3 DEF CoreTypeOK
  <2> QED
    BY <1>3, <2>1, <2>2 DEF NotesAreKept
<1> QED
  BY <1>7, <1>8, <1>9

\* Every step on the core blocks keeps their invariant.
LEMMA CoreSteps ==
  ASSUME CoreInv, CoreNext
  PROVE  CoreInv'
<1> USE CoreAssumption DEF CoreInv
<1>a. ASSUME notes < MaxNotes PROVE notes + 1 \in Note
  BY <1>a DEF Note, CoreTypeOK
<1>1. ASSUME NEW e \in Editor, NEW b \in Block, LockAndRead(e, b) PROVE CoreInv'
  <2>1. CoreTypeOK'
    BY <1>1 DEF LockAndRead, CoreTypeOK
  <2>2. Locked'
    BY <1>1 DEF LockAndRead, CoreTypeOK, Locked
  <2> QED
    BY <1>1, <2>1, <2>2 DEF LockAndRead, NotesAreKept
<1>2. ASSUME NEW e \in Editor, NEW b \in Block, Append(e, b) PROVE CoreInv'
  <2>1. editing[e] = b /\ notes < MaxNotes /\ Unlock(e)
    BY <1>2 DEF Append
  <2>2. view[e] = content[b] /\ content[b] = kept[b] /\ content[b] \in SUBSET Note
    BY <2>1 DEF Locked, NotesAreKept, CoreTypeOK
  <2>3. view[e] \cup {notes + 1} \in SUBSET Note
    BY <1>a, <2>1, <2>2
  <2>4. AppendBudget(b) \in Budgets \cup {ToolBudget} \cup {budget[b]}
    BY DEF AppendBudget
  <2>5. Write(b, view[e] \cup {notes + 1}, AppendBudget(b), kept[b] \cup {notes + 1})
    BY <1>2 DEF Append
  <2> QED
    BY <2>1, <2>2, <2>3, <2>4, <2>5, WriteKeepsInv
<1>3. ASSUME NEW e \in Editor, NEW b \in Block, NEW next \in SUBSET Note,
             NEW limit \in Budgets \cup {ToolBudget}, Replace(e, b, next, limit)
      PROVE  CoreInv'
  BY <1>3, WriteKeepsInv DEF Replace
<1>4. ASSUME NEW e \in Editor, NEW b \in Block, MemoryReplace(e, b) \/ ReplaceCoreBlock(e, b)
      PROVE  CoreInv'
  <2>1. notes + 1 \in Note
    BY <1>4, <1>a DEF MemoryReplace, ReplaceCoreBlock, Replace
  <2>2. {notes + 1} \in SUBSET Note /\ {} \in SUBSET Note
    BY <2>1
  <2> QED
    BY <1>3, <1>4, <2>2 DEF MemoryReplace, ReplaceCoreBlock
<1>5. ASSUME NEW e \in Editor, NEW b \in Block, WriteFails(e, b) PROVE CoreInv'
  <2>1. Unlock(e) /\ UNCHANGED <<content, budget, notes, kept>>
    BY <1>5 DEF WriteFails
  <2>2. CoreTypeOK' /\ Locked'
    BY <2>1, UnlockFacts DEF CoreTypeOK, Locked
  <2> QED
    BY <2>1, <2>2 DEF NotesAreKept
<1> QED
  BY <1>1, <1>2, <1>4, <1>5 DEF CoreNext

\* CoreBlockRepository: whatever tools and operators write at the same time,
\* a block holds exactly what was appended since it was last replaced, within
\* its token budget, for any number of editors, blocks and notes.
THEOREM NoNoteIsLost == Spec => []NotesAreKept
<1>1. Init => CoreInv
  BY CoreAssumption DEF Init, CoreInit, CoreInv, CoreTypeOK, Locked, NotesAreKept
<1>2. CoreInv /\ [Next]_vars => CoreInv'
  <2>1. ASSUME CoreInv, UNCHANGED coreVars PROVE CoreInv'
    BY <2>1 DEF CoreInv, CoreTypeOK, Locked, NotesAreKept, coreVars
  <2> QED
    BY <2>1, CoreSteps DEF Next, CoreStep, ItemStep, HeartbeatStep, vars
<1>3. CoreInv => NotesAreKept
  BY DEF CoreInv
<1> QED
  BY <1>1, <1>2, <1>3, PTL DEF Spec

(***************************************************************************)
(* Memory items.                                                           *)
(***************************************************************************)
\* The processes inside a job.
Busy == {p \in Proc : step[p] # "idle"}

\* A job that will write has its time, and a decision about a row names one.
JobFacts ==
    \A p \in Proc :
        /\ step[p] \in {"apply", "upsert", "lock", "forget"} => stamp[p] \in Time
        /\ op[p] \in {"UPDATE", "DELETE"} => target[p] \in Item

\* Every job that is not over may still insert one row.
Room == count + Cardinality(Busy) <= jobs

\* Rows are created in order.
Fresh == \A i \in Item : i > count => at[i] = None /\ by[i] = 0

Jobs == JobTypeOK /\ JobFacts /\ Room
Rows == RowTypeOK /\ Fresh /\ LinksAgree
ItemsInv == Jobs /\ Rows

\* The jobs that are not over are finitely many, and fewer when one ends.
LEMMA BusyFacts ==
  ASSUME JobTypeOK, NEW p \in Proc, NEW s, step' = [step EXCEPT ![p] = s]
  PROVE  /\ IsFiniteSet(Busy) /\ Cardinality(Busy) \in Nat
         /\ step[p] = "idle" /\ s # "idle" => Cardinality(Busy') = Cardinality(Busy) + 1
         /\ step[p] # "idle" /\ s # "idle" => Cardinality(Busy') = Cardinality(Busy)
         /\ step[p] # "idle" /\ s = "idle" => Cardinality(Busy') = Cardinality(Busy) - 1
<1>1. IsFiniteSet(Busy)
  BY MemoryAssumption, FS_Subset DEF Busy
<1>2. Cardinality(Busy) \in Nat
  BY <1>1, FS_CardinalityType
<1>3. CASE step[p] = "idle" /\ s # "idle"
  <2>1. Busy' = Busy \cup {p} /\ p \notin Busy
    BY <1>3 DEF Busy, JobTypeOK
  <2> QED
    BY <1>1, <1>2, <1>3, <2>1, FS_AddElement
<1>4. CASE step[p] # "idle" /\ s # "idle"
  <2>1. Busy' = Busy
    BY <1>4 DEF Busy, JobTypeOK
  <2> QED
    BY <1>1, <1>2, <1>4, <2>1
<1>5. CASE step[p] # "idle" /\ s = "idle"
  <2>1. Busy' = Busy \ {p} /\ p \in Busy
    BY <1>5 DEF Busy, JobTypeOK
  <2> QED
    BY <1>1, <1>2, <1>5, <2>1, FS_RemoveElement
<1>6. CASE step[p] = "idle" /\ s = "idle"
  BY <1>1, <1>2, <1>6
<1> QED
  BY <1>3, <1>4, <1>5, <1>6

\* A job ends: the job's own state is reset and there is room for one row.
LEMMA JobOverFacts ==
  ASSUME Jobs, RowTypeOK, NEW p \in Proc, step[p] # "idle", JobOver(p),
         UNCHANGED <<clock, once, jobs>>, overlapped' \in BOOLEAN, loose' \subseteq Subject,
         count' \in {count, count + 1}
  PROVE  Jobs' /\ count < MaxJobs
<1> USE DEF Jobs
<1>1. /\ IsFiniteSet(Busy) /\ Cardinality(Busy) \in Nat
      /\ Cardinality(Busy') = Cardinality(Busy) - 1
  BY BusyFacts DEF JobOver
<1>2. Cardinality(Busy) # 0
  BY <1>1, FS_EmptySet DEF Busy
<1>3. count \in Nat /\ jobs \in Nat /\ MaxJobs \in Nat /\ jobs <= MaxJobs
  BY MemoryAssumption DEF RowTypeOK, JobTypeOK
<1>4. count + Cardinality(Busy) <= jobs
  BY DEF Room
<1>5. count < MaxJobs
  BY <1>1, <1>2, <1>3, <1>4
<1>6. Room'
  <2>1. count' + Cardinality(Busy') <= jobs
    BY <1>1, <1>3, <1>4
  <2> QED
    BY <2>1 DEF Room
<1>7. /\ step' \in [Proc -> {"idle", "decide", "apply", "upsert", "lock", "forget"}]
      /\ op' \in [Proc -> {"NOOP", "ADD", "UPDATE", "DELETE"}]
  BY DEF JobOver, JobTypeOK
<1>8. where' \in [Proc -> Boundary \cup {None}] /\ seen' \in [Proc -> SUBSET Item]
  BY DEF JobOver, JobTypeOK
<1>9. target' \in [Proc -> 0..MaxJobs] /\ stamp' \in [Proc -> 0..MaxTime]
  BY MemoryAssumption DEF JobOver, JobTypeOK
<1>10. JobTypeOK'
  BY <1>7, <1>8, <1>9 DEF JobTypeOK
<1>11. JobFacts'
  <2>1. ASSUME NEW q \in Proc, q # p
        PROVE  step'[q] = step[q] /\ op'[q] = op[q] /\ target'[q] = target[q] /\ stamp'[q] = stamp[q]
    BY <2>1 DEF JobOver, JobTypeOK
  <2>2. step'[p] = "idle" /\ op'[p] = "NOOP"
    BY DEF JobOver, JobTypeOK
  <2> QED
    BY <2>1, <2>2 DEF JobFacts
<1> QED
  BY <1>5, <1>6, <1>10, <1>11

\* merge_item leaves a candidate and the rows that are like it.
LEMMA MergeItemFacts ==
  ASSUME JobTypeOK, JobFacts, NEW p \in Proc, NEW b \in Boundary, MergeItem(p, b)
  PROVE  /\ step' = [step EXCEPT ![p] = "decide"]
         /\ step' \in [Proc -> {"idle", "decide", "apply", "upsert", "lock", "forget"}]
         /\ where' \in [Proc -> Boundary \cup {None}]
         /\ seen' \in [Proc -> SUBSET Item]
         /\ UNCHANGED <<op, target, stamp>>
         /\ JobFacts'
<1>1. step' = [step EXCEPT ![p] = "decide"] /\ UNCHANGED <<op, target, stamp>>
  BY DEF MergeItem
<1>2. step' \in [Proc -> {"idle", "decide", "apply", "upsert", "lock", "forget"}]
  BY <1>1 DEF JobTypeOK
<1>3. where' \in [Proc -> Boundary \cup {None}]
  BY DEF MergeItem, JobTypeOK
<1>4. seen' \in [Proc -> SUBSET Item]
  BY DEF MergeItem, JobTypeOK, SimilarForMerge
<1>5. JobFacts'
  BY <1>1 DEF JobFacts, JobTypeOK
<1> QED
  BY <1>1, <1>2, <1>3, <1>4, <1>5

\* A job begins.
LEMMA JobBeginsFacts ==
  ASSUME Jobs, RowTypeOK, NEW p \in Proc, JobBegins(p), NEW s, s # "idle",
         step' = [step EXCEPT ![p] = s], UNCHANGED count
  PROVE  jobs' \in 0..MaxJobs /\ Room'
<1>1. Cardinality(Busy) \in Nat /\ Cardinality(Busy') = Cardinality(Busy) + 1
  BY BusyFacts DEF JobBegins, Jobs
<1>2. /\ count \in Nat /\ jobs \in Nat /\ MaxJobs \in Nat
      /\ jobs < MaxJobs /\ jobs' = jobs + 1 /\ count + Cardinality(Busy) <= jobs
  BY MemoryAssumption DEF RowTypeOK, Jobs, JobTypeOK, Room, JobBegins
<1>3. count' + Cardinality(Busy') <= jobs' /\ jobs' \in 0..MaxJobs
  BY <1>1, <1>2
<1> QED
  BY <1>3 DEF Room

\* _insert with the invalidation of the row it supersedes keeps the history
\* linked in both directions.
LEMMA InsertKeepsRows ==
  ASSUME Rows, count < MaxJobs, NEW b \in Boundary \cup {None}, NEW kind \in BOOLEAN,
         NEW old \in 0..MaxJobs, NEW now \in Time, Insert(b, kind, old, now),
         old # 0 => at[old] = b /\ b # None
  PROVE  Rows'
<1> USE MemoryAssumption DEF Rows
<1> DEFINE new == count + 1
<1>0. new \in Item /\ count \in Nat /\ count' = new
  BY DEF Insert, RowTypeOK, Item
<1>1. /\ at' = [at EXCEPT ![new] = b] /\ rel' = [rel EXCEPT ![new] = kind]
      /\ prev' = [prev EXCEPT ![new] = old] /\ UNCHANGED revoked
  BY DEF Insert
<1>2. invalid' = [i \in Item |-> IF i = old THEN now ELSE invalid[i]]
  BY DEF Insert
<1>3. by' = [i \in Item |-> IF i = old THEN new ELSE by[i]]
  BY DEF Insert
<1>4. /\ at \in [Item -> Boundary \cup {None}] /\ rel \in [Item -> BOOLEAN]
      /\ prev \in [Item -> 0..MaxJobs] /\ by \in [Item -> 0..MaxJobs]
      /\ invalid \in [Item -> 0..MaxTime] /\ revoked \in [Item -> 0..MaxTime]
  BY DEF RowTypeOK
<1> HIDE DEF new
<1>5. RowTypeOK'
  <2>1. now \in 0..MaxTime /\ now # 0 /\ new \in 0..MaxJobs
    BY <1>0 DEF Time, Item
  <2>2. /\ at' \in [Item -> Boundary \cup {None}] /\ rel' \in [Item -> BOOLEAN]
        /\ prev' \in [Item -> 0..MaxJobs]
    BY ONLY <1>1, <1>4, <1>0, b \in Boundary \cup {None}, kind \in BOOLEAN, old \in 0..MaxJobs
  <2>3. by' \in [Item -> 0..MaxJobs] /\ invalid' \in [Item -> 0..MaxTime]
    BY ONLY <1>2, <1>3, <1>4, <2>1
  <2> QED
    BY <1>0, <1>1, <1>4, <2>1, <2>2, <2>3 DEF RowTypeOK
<1>6. old # 0 => old \in Item /\ old <= count
  BY <1>0 DEF Fresh, Item
<1>7. Fresh'
  <2>1. ASSUME NEW i \in Item, i > new PROVE at'[i] = None /\ by'[i] = 0
    <3>1. i > count /\ i # new /\ i # old
      BY <1>0, <1>6, <2>1 DEF new, Item
    <3> QED
      BY <1>1, <1>3, <1>4, <3>1 DEF Fresh
  <2> QED
    BY <1>0, <2>1 DEF Fresh
<1>8. LinksAgree'
  <2>1. ASSUME NEW i \in Item, by'[i] # 0, i = old
        PROVE  /\ at'[i] # None /\ at'[by'[i]] = at'[i]
               /\ by'[i] > i /\ prev'[by'[i]] = i /\ invalid'[i] # 0
    <3>1. by'[i] = new /\ invalid'[i] = now /\ now # 0
      BY <1>2, <1>3, <2>1 DEF Time
    <3>2. i <= count /\ i # new /\ i # 0
      BY <1>0, <1>6, <2>1 DEF new, Item
    <3>3. at'[new] = b /\ prev'[new] = old /\ at'[i] = at[i]
      BY <1>0, <1>1, <1>4, <3>2
    <3>4. new > i
      BY <1>0, <3>2 DEF new, Item
    <3> QED
      BY <2>1, <3>1, <3>2, <3>3, <3>4
  <2>2. ASSUME NEW i \in Item, by'[i] # 0, i # old
        PROVE  /\ at'[i] # None /\ at'[by'[i]] = at'[i]
               /\ by'[i] > i /\ prev'[by'[i]] = i /\ invalid'[i] # 0
    <3>1. by'[i] = by[i] /\ invalid'[i] = invalid[i] /\ by[i] # 0
      BY <1>2, <1>3, <2>2
    <3>2. /\ at[i] # None /\ at[by[i]] = at[i]
          /\ by[i] > i /\ prev[by[i]] = i /\ invalid[i] # 0
      BY <3>1 DEF LinksAgree
    <3>3. by[i] \in Item
      <4>1. by[i] \in 0..MaxJobs
        BY ONLY <1>4, i \in Item
      <4> QED
        BY ONLY <3>1, <4>1, MemoryAssumption DEF Item
    <3>a. ~(i > count) /\ ~(by[i] > count)
      BY ONLY Fresh, <3>2, <3>3, i \in Item DEF Fresh
    <3>4. i <= count /\ by[i] <= count
      BY ONLY <1>0, <3>3, <3>a, i \in Item, MemoryAssumption DEF Item
    <3>5. i # new /\ by[i] # new
      BY <1>0, <3>4 DEF new
    <3>6. at'[i] = at[i] /\ at'[by[i]] = at[by[i]] /\ prev'[by[i]] = prev[by[i]]
      BY <1>1, <1>4, <3>3, <3>5
    <3> QED
      BY <3>1, <3>2, <3>6
  <2> QED
    BY <2>1, <2>2 DEF LinksAgree
<1> QED
  BY <1>5, <1>7, <1>8

\* Revoking rows touches nothing else.
LEMMA RevokeKeepsRows ==
  ASSUME Rows, NEW now \in Time, NEW R, Revoke(R, now)
  PROVE  Rows'
<1>1. now \in 0..MaxTime
  BY MemoryAssumption DEF Time
<1>2. revoked' \in [Item -> 0..MaxTime]
  BY <1>1 DEF Revoke, Rows, RowTypeOK
<1> QED
  BY <1>2 DEF Revoke, Rows, RowTypeOK, Fresh, LinksAgree

\* A merge decision: a target of it is a row that was shown.
LEMMA DecideKeepsJobs ==
  ASSUME ItemsInv, NEW p \in Proc, DecideMerge(p)
  PROVE  Jobs'
<1> USE MemoryAssumption DEF ItemsInv, Jobs, Rows
<1>1. PICK d \in Decisions(p) : /\ op' = [op EXCEPT ![p] = d[1]]
                                /\ target' = [target EXCEPT ![p] = d[2]]
  BY DEF DecideMerge
<1>2. /\ d[1] \in {"ADD", "UPDATE", "DELETE"} /\ d[2] \in 0..MaxJobs
      /\ d[1] \in {"UPDATE", "DELETE"} => d[2] \in Item
  <2>1. seen[p] \subseteq Item
    BY DEF JobTypeOK
  <2> QED
    BY <1>1, <2>1 DEF Decisions, Item
<1>3. /\ step' = [step EXCEPT ![p] = "apply"] /\ stamp' = [stamp EXCEPT ![p] = clock]
      /\ seen' = [seen EXCEPT ![p] = {}] /\ step[p] = "decide"
      /\ UNCHANGED <<where, count, clock, once, jobs, overlapped, loose>>
  BY DEF DecideMerge, rowVars
<1>4. /\ step' \in [Proc -> {"idle", "decide", "apply", "upsert", "lock", "forget"}]
      /\ seen' \in [Proc -> SUBSET Item]
  BY <1>3 DEF JobTypeOK
<1>5. clock \in Time /\ clock \in 0..MaxTime
  BY DEF JobTypeOK, Time
<1>6. stamp' \in [Proc -> 0..MaxTime]
  BY <1>3, <1>5 DEF JobTypeOK
<1>7. op' \in [Proc -> {"NOOP", "ADD", "UPDATE", "DELETE"}] /\ target' \in [Proc -> 0..MaxJobs]
  BY <1>1, <1>2 DEF JobTypeOK
<1>8. JobTypeOK'
  BY <1>3, <1>4, <1>6, <1>7 DEF JobTypeOK
<1>9. JobFacts'
  <2>1. ASSUME NEW q \in Proc, q # p
        PROVE  step'[q] = step[q] /\ op'[q] = op[q] /\ target'[q] = target[q] /\ stamp'[q] = stamp[q]
    BY <1>1, <1>3, <2>1 DEF JobTypeOK
  <2>2. stamp'[p] = clock /\ op'[p] = d[1] /\ target'[p] = d[2]
    BY <1>1, <1>3 DEF JobTypeOK
  <2> QED
    BY <1>2, <1>5, <2>1, <2>2 DEF JobFacts
<1>10. Room'
  <2>1. UNCHANGED Busy
    BY <1>3 DEF Busy, JobTypeOK
  <2> QED
    BY <1>3, <2>1 DEF Room
<1> QED
  BY <1>8, <1>9, <1>10

\* The upsert takes its snapshot.
LEMMA UpsertReadsKeepsJobs ==
  ASSUME ItemsInv, NEW p \in Proc, UpsertReads(p)
  PROVE  Jobs'
<1> USE DEF ItemsInv, Jobs, Rows
<1>1. /\ step' = [step EXCEPT ![p] = "lock"] /\ step[p] = "upsert"
      /\ seen' = [seen EXCEPT ![p] = Relationships(where[p], stamp[p])]
      /\ UNCHANGED <<where, op, target, stamp, count, clock, once, jobs, overlapped, loose>>
  BY DEF UpsertReads, rowVars
<1>2. Relationships(where[p], stamp[p]) \subseteq Item
  BY DEF Relationships
<1>3. seen' \in [Proc -> SUBSET Item]
  BY <1>1, <1>2 DEF JobTypeOK
<1>4. step' \in [Proc -> {"idle", "decide", "apply", "upsert", "lock", "forget"}]
  BY <1>1 DEF JobTypeOK
<1>5. JobTypeOK'
  BY <1>1, <1>3, <1>4 DEF JobTypeOK
<1>6. JobFacts'
  BY <1>1 DEF JobFacts, JobTypeOK
<1>7. Room'
  <2>1. UNCHANGED Busy
    BY <1>1 DEF Busy, JobTypeOK
  <2> QED
    BY <1>1, <2>1 DEF Room
<1> QED
  BY <1>5, <1>6, <1>7

\* Jobs that merge a candidate begin.
LEMMA MergeBegins ==
  ASSUME ItemsInv, NEW p \in Proc, NEW b \in Boundary, JobBegins(p), MergeItem(p, b),
         UNCHANGED <<rowVars, clock, overlapped, loose>>, once' \subseteq OnceKey
  PROVE  ItemsInv'
<1> USE DEF ItemsInv, Jobs, Rows
<1>1. jobs' \in 0..MaxJobs /\ Room'
  BY JobBeginsFacts, MergeItemFacts DEF rowVars
<1>2. JobTypeOK' /\ JobFacts'
  BY <1>1, MergeItemFacts DEF JobTypeOK
<1>3. RowTypeOK' /\ Fresh' /\ LinksAgree'
  BY DEF rowVars, RowTypeOK, Fresh, LinksAgree
<1> QED
  BY <1>1, <1>2, <1>3

\* upsert_relationship is called.
LEMMA UpsertBegins ==
  ASSUME ItemsInv, NEW p \in Proc, NEW s \in Subject, UpsertRelationship(p, s)
  PROVE  ItemsInv'
<1> USE MemoryAssumption DEF ItemsInv, Jobs, Rows
<1>1. /\ JobBegins(p) /\ step' = [step EXCEPT ![p] = "upsert"]
      /\ where' = [where EXCEPT ![p] = s] /\ stamp' = [stamp EXCEPT ![p] = clock]
      /\ UNCHANGED <<seen, op, target, rowVars, clock, once, overlapped, loose>>
  BY DEF UpsertRelationship
<1>2. jobs' \in 0..MaxJobs /\ Room'
  BY <1>1, JobBeginsFacts DEF rowVars
<1>3. clock \in Time /\ clock \in 0..MaxTime /\ s \in Boundary
  BY DEF JobTypeOK, Time, Boundary
<1>4. step' \in [Proc -> {"idle", "decide", "apply", "upsert", "lock", "forget"}]
  BY <1>1 DEF JobTypeOK
<1>5. where' \in [Proc -> Boundary \cup {None}] /\ stamp' \in [Proc -> 0..MaxTime]
  BY <1>1, <1>3 DEF JobTypeOK
<1>6. JobTypeOK'
  BY <1>1, <1>2, <1>4, <1>5 DEF JobTypeOK
<1>7. JobFacts'
  BY <1>1, <1>3 DEF JobFacts, JobTypeOK
<1>8. RowTypeOK' /\ Fresh' /\ LinksAgree'
  BY <1>1 DEF rowVars, RowTypeOK, Fresh, LinksAgree
<1> QED
  BY <1>2, <1>6, <1>7, <1>8

\* /forget takes its snapshot.
LEMMA ForgetBegins ==
  ASSUME ItemsInv, NEW p \in Proc, NEW s \in Subject, NEW c \in Conversation, Forget(p, s, c)
  PROVE  ItemsInv'
<1> USE MemoryAssumption DEF ItemsInv, Jobs, Rows
<1>1. /\ JobBegins(p) /\ step' = [step EXCEPT ![p] = "forget"]
      /\ where' = [where EXCEPT ![p] = s] /\ stamp' = [stamp EXCEPT ![p] = clock]
      /\ UNCHANGED <<op, target, rowVars, clock, once, overlapped, loose>>
  BY DEF Forget
<1>2. jobs' \in 0..MaxJobs /\ Room'
  BY <1>1, JobBeginsFacts DEF rowVars
<1>3. clock \in Time /\ clock \in 0..MaxTime /\ s \in Boundary
  BY DEF JobTypeOK, Time, Boundary
<1>4. step' \in [Proc -> {"idle", "decide", "apply", "upsert", "lock", "forget"}]
  BY <1>1 DEF JobTypeOK
<1>5. where' \in [Proc -> Boundary \cup {None}] /\ stamp' \in [Proc -> 0..MaxTime]
  BY <1>1, <1>3 DEF JobTypeOK
<1>6. seen' \in [Proc -> SUBSET Item]
  BY DEF Forget, JobTypeOK
<1>7. JobTypeOK'
  BY <1>1, <1>2, <1>4, <1>5, <1>6 DEF JobTypeOK
<1>8. JobFacts'
  BY <1>1, <1>3 DEF JobFacts, JobTypeOK
<1>9. RowTypeOK' /\ Fresh' /\ LinksAgree'
  BY <1>1 DEF rowVars, RowTypeOK, Fresh, LinksAgree
<1> QED
  BY <1>2, <1>7, <1>8, <1>9

\* What apply_merge adds to the history: a relationship row is a subject's.
LEMMA MergeHistory ==
  ASSUME ItemsInv, NEW p \in Proc, ApplyMerge(p)
  PROVE  overlapped' \in BOOLEAN /\ loose' \subseteq Subject /\ loose \subseteq loose'
<1>1. overlapped \in BOOLEAN /\ loose \subseteq Subject
  BY DEF ItemsInv, Jobs, JobTypeOK
<1>2. overlapped' \in BOOLEAN
  <2>1. ASSUME UNCHANGED overlapped PROVE overlapped' \in BOOLEAN
    BY <1>1, <2>1
  <2>2. ASSUME UNCHANGED <<rowVars, overlapped, loose>> PROVE UNCHANGED overlapped
    BY <2>2
  <2> QED
    BY <2>1, <2>2, Zenon DEF ApplyMerge
<1>3. ASSUME NEW kind \in Kinds(where[p]), NEW extra, extra => kind, Loosen(where[p], extra)
      PROVE  loose' \subseteq Subject /\ loose \subseteq loose'
  BY <1>1, <1>3 DEF Kinds, Loosen
<1>4. ASSUME UNCHANGED loose PROVE loose' \subseteq Subject /\ loose \subseteq loose'
  BY <1>1, <1>4
<1>5. ASSUME NEW kind \in Kinds(where[p]), Loosen(where[p], kind)
      PROVE  loose' \subseteq Subject /\ loose \subseteq loose'
  BY <1>3, <1>5
<1>6. ASSUME NEW kind \in Kinds(where[p]), Loosen(where[p], kind /\ ~rel[target[p]])
      PROVE  loose' \subseteq Subject /\ loose \subseteq loose'
  BY <1>3, <1>6
<1> QED
  BY <1>2, <1>4, <1>5, <1>6 DEF ApplyMerge

\* apply_merge: what was decided is applied only to a row that, locked, is
\* still active and of the boundary.
LEMMA ApplyMergeKeepsInv ==
  ASSUME ItemsInv, NEW p \in Proc, ApplyMerge(p)
  PROVE  ItemsInv'
<1> USE MemoryAssumption DEF ItemsInv
<1>1. step[p] = "apply" /\ JobOver(p) /\ UNCHANGED <<clock, once, jobs>>
  BY DEF ApplyMerge
<1>2. stamp[p] \in Time /\ where[p] \in Boundary \cup {None}
  BY <1>1 DEF Jobs, JobFacts, JobTypeOK
<1>3. /\ RowTypeOK /\ overlapped' \in BOOLEAN /\ loose' \subseteq Subject
      /\ Kinds(where[p]) \subseteq BOOLEAN
  BY MergeHistory DEF Rows, Kinds
<1>4. CASE /\ op[p] = "ADD"
           /\ \E kind \in Kinds(where[p]) : Insert(where[p], kind, 0, stamp[p])
  <2>1. PICK kind \in BOOLEAN : Insert(where[p], kind, 0, stamp[p])
    BY <1>3, <1>4
  <2>2. count' \in {count, count + 1}
    BY <2>1 DEF Insert
  <2>3. Jobs' /\ count < MaxJobs
    BY <1>1, <1>3, <2>2, JobOverFacts
  <2>4. 0 \in 0..MaxJobs
    OBVIOUS
  <2> QED
    BY <1>2, <2>1, <2>3, <2>4, InsertKeepsRows
<1>5. CASE /\ op[p] = "UPDATE" /\ TargetQualifies(p)
           /\ \E kind \in Kinds(where[p]) : Insert(where[p], kind, target[p], stamp[p])
  <2>1. target[p] \in Item /\ target[p] \in 0..MaxJobs
    BY <1>5 DEF Jobs, JobFacts, JobTypeOK
  <2>2. PICK kind \in BOOLEAN : Insert(where[p], kind, target[p], stamp[p])
    BY <1>3, <1>5
  <2>3. at[target[p]] = where[p] /\ where[p] # None
    BY <1>5 DEF TargetQualifies, Active
  <2>4. count' \in {count, count + 1}
    BY <2>2 DEF Insert
  <2>5. Jobs' /\ count < MaxJobs
    BY <1>1, <1>3, <2>4, JobOverFacts
  <2> QED
    BY <1>2, <2>1, <2>2, <2>3, <2>5, InsertKeepsRows
<1>6. CASE /\ op[p] = "DELETE" /\ TargetQualifies(p)
           /\ invalid' = [invalid EXCEPT ![target[p]] = stamp[p]]
           /\ by' = [by EXCEPT ![target[p]] = 0]
           /\ UNCHANGED <<at, rel, prev, revoked, count, overlapped, loose>>
  <2>1. Jobs'
    BY <1>1, <1>3, <1>6, JobOverFacts
  <2>2. stamp[p] \in 0..MaxTime /\ stamp[p] # 0 /\ 0 \in 0..MaxJobs
    BY <1>2 DEF Time
  <2>3. invalid' \in [Item -> 0..MaxTime] /\ by' \in [Item -> 0..MaxJobs]
    BY <1>3, <1>6, <2>2 DEF RowTypeOK
  <2>4. RowTypeOK' /\ Fresh'
    BY <1>3, <1>6, <2>3 DEF Rows, RowTypeOK, Fresh
  <2>5. ASSUME NEW i \in Item, by'[i] # 0
        PROVE  by'[i] = by[i] /\ (invalid[i] # 0 => invalid'[i] # 0)
    BY <1>3, <1>6, <2>2, <2>5 DEF RowTypeOK
  <2>6. LinksAgree'
    BY <1>6, <2>5 DEF Rows, LinksAgree
  <2> QED
    BY <2>1, <2>4, <2>6 DEF Rows
<1>7. CASE UNCHANGED <<rowVars, overlapped, loose>>
  <2>1. Jobs'
    BY <1>1, <1>3, <1>7, JobOverFacts DEF rowVars
  <2> QED
    BY <1>7, <2>1 DEF Rows, rowVars, RowTypeOK, Fresh, LinksAgree
<1> QED
  BY <1>4, <1>5, <1>6, <1>7 DEF ApplyMerge

\* upsert_relationship: the row it invalidates is an active one of the subject.
LEMMA UpsertKeepsInv ==
  ASSUME ItemsInv, NEW p \in Proc, UpsertApplies(p)
  PROVE  ItemsInv'
<1> USE MemoryAssumption DEF ItemsInv
<1>1. step[p] = "lock" /\ JobOver(p) /\ UNCHANGED <<clock, once, jobs, loose>>
  BY DEF UpsertApplies
<1>2. /\ stamp[p] \in Time /\ where[p] \in Boundary \cup {None} /\ RowTypeOK
      /\ loose' \subseteq Subject
  BY <1>1 DEF Jobs, JobFacts, JobTypeOK, Rows
<1>3. PICK old \in IF UpsertLocks(p) = {} THEN {0} ELSE Newest(UpsertLocks(p)) :
           /\ Insert(where[p], TRUE, old, stamp[p])
           /\ overlapped' = \/ overlapped
                            \/ Relationships(where[p], stamp[p]) \ seen[p] # {}
                            \/ old # 0 /\ invalid[old] > stamp[p]
  BY DEF UpsertApplies
<1>4. overlapped' \in BOOLEAN
  BY <1>3, Zenon
<1>5. count' \in {count, count + 1}
  BY <1>3 DEF Insert
<1>6. Jobs' /\ count < MaxJobs
  BY <1>1, <1>2, <1>4, <1>5, JobOverFacts
<1>7. old = 0 \/ old \in Relationships(where[p], stamp[p])
  BY <1>3 DEF Newest, UpsertLocks
<1>8. old \in 0..MaxJobs /\ (old # 0 => at[old] = where[p] /\ where[p] # None)
  BY <1>7 DEF Relationships, Active, Item
<1>9. TRUE \in BOOLEAN
  OBVIOUS
<1> QED
  BY <1>2, <1>3, <1>6, <1>8, <1>9, InsertKeepsRows

\* run_lifecycle: deleting a row also clears the references to it.
LEMMA LifecycleKeepsInv ==
  ASSUME ItemsInv, RunLifecycle
  PROVE  ItemsInv'
<1> USE MemoryAssumption DEF ItemsInv
<1> DEFINE D == {i \in Item : revoked[i] # 0 /\ revoked[i] < clock}
<1>1. PICK faded \in SUBSET {i \in Item : at[i] # None /\ revoked[i] = 0 /\ invalid[i] = 0} :
        /\ jobs < MaxJobs /\ jobs' = jobs + 1
        /\ at' = [i \in Item |-> IF i \in D THEN None ELSE at[i]]
        /\ rel' = [i \in Item |-> IF i \in D THEN FALSE ELSE rel[i]]
        /\ prev' = [i \in Item |-> IF i \in D THEN 0 ELSE prev[i]]
        /\ revoked' = [i \in Item |-> IF i \in D THEN 0 ELSE revoked[i]]
        /\ invalid' = [i \in Item |->
               CASE i \in faded -> clock [] i \in D -> 0 [] OTHER -> invalid[i]]
        /\ by' = [i \in Item |-> IF {i, by[i]} \cap D # {} THEN 0 ELSE by[i]]
        /\ UNCHANGED <<count, clock, once, jobVars, overlapped, loose>>
  BY DEF RunLifecycle
<1>2. RowTypeOK /\ Fresh /\ LinksAgree /\ JobTypeOK /\ JobFacts /\ Room
  BY DEF Rows, Jobs
<1> HIDE DEF D
<1>3. clock \in 0..MaxTime /\ clock # 0
  BY <1>2 DEF JobTypeOK, Time
<1>4. RowTypeOK'
  <2>1. at' \in [Item -> Boundary \cup {None}] /\ rel' \in [Item -> BOOLEAN]
    BY <1>1, <1>2 DEF RowTypeOK
  <2>2. prev' \in [Item -> 0..MaxJobs] /\ by' \in [Item -> 0..MaxJobs]
    BY <1>1, <1>2 DEF RowTypeOK
  <2>3. revoked' \in [Item -> 0..MaxTime] /\ invalid' \in [Item -> 0..MaxTime]
    BY <1>1, <1>2, <1>3 DEF RowTypeOK
  <2> QED
    BY <1>1, <1>2, <2>1, <2>2, <2>3 DEF RowTypeOK
<1>5. Fresh'
  BY <1>1, <1>2 DEF Fresh
<1>6. LinksAgree'
  <2>1. ASSUME NEW i \in Item, by'[i] # 0
        PROVE  /\ at'[i] # None /\ at'[by'[i]] = at'[i]
               /\ by'[i] > i /\ prev'[by'[i]] = i /\ invalid'[i] # 0
    <3>1. i \notin D /\ by[i] \notin D /\ by'[i] = by[i] /\ by[i] # 0
      BY <1>1, <2>1
    <3>2. by[i] \in Item
      BY <1>2, <3>1 DEF RowTypeOK, Item
    <3>3. /\ at[i] # None /\ at[by[i]] = at[i]
          /\ by[i] > i /\ prev[by[i]] = i /\ invalid[i] # 0
      BY <1>2, <3>1 DEF LinksAgree
    <3>4. at'[i] = at[i] /\ at'[by[i]] = at[by[i]] /\ prev'[by[i]] = prev[by[i]]
      BY <1>1, <3>1, <3>2
    <3>5. i \notin faded
      BY <1>1, <3>3
    <3>6. invalid'[i] = invalid[i]
      BY <1>1, <3>1, <3>5
    <3> QED
      BY <3>1, <3>3, <3>4, <3>6
  <2> QED
    BY <2>1 DEF LinksAgree
<1>7. Jobs'
  <2>1. UNCHANGED Busy
    BY <1>1 DEF Busy, jobVars
  <2>2. IsFiniteSet(Busy)
    BY FS_Subset DEF Busy
  <2>3. Cardinality(Busy) \in Nat
    BY <2>2, FS_CardinalityType
  <2>4. count \in Nat /\ jobs \in Nat /\ count + Cardinality(Busy) <= jobs /\ jobs' \in 0..MaxJobs
    BY <1>1, <1>2 DEF RowTypeOK, JobTypeOK, Room
  <2>5. count + Cardinality(Busy) <= jobs + 1
    BY <2>3, <2>4
  <2>6. Room'
    BY <1>1, <2>1, <2>5 DEF Room
  <2>7. JobTypeOK' /\ JobFacts'
    BY <1>1, <1>2, <2>4 DEF JobTypeOK, JobFacts, jobVars
  <2> QED
    BY <2>6, <2>7 DEF Jobs
<1> QED
  BY <1>4, <1>5, <1>6, <1>7 DEF Rows

\* The operator revokes a row, which is a job of one step.
LEMMA RevokeMemoryKeepsInv ==
  ASSUME ItemsInv, NEW i \in Item, RevokeMemory(i)
  PROVE  ItemsInv'
<1> USE MemoryAssumption DEF ItemsInv
<1>1. /\ jobs < MaxJobs /\ jobs' = jobs + 1 /\ Revoke({i}, clock)
      /\ UNCHANGED <<clock, once, jobVars, overlapped, loose>>
  BY DEF RevokeMemory
<1>2. RowTypeOK /\ JobTypeOK /\ JobFacts /\ Room /\ clock \in Time
  BY DEF Rows, Jobs, JobTypeOK
<1>3. Rows'
  BY <1>1, <1>2, RevokeKeepsRows
<1>4. UNCHANGED <<Busy, count>>
  BY <1>1 DEF Busy, jobVars, Revoke
<1>5. IsFiniteSet(Busy)
  BY FS_Subset DEF Busy
<1>6. Cardinality(Busy) \in Nat
  BY <1>5, FS_CardinalityType
<1>7. count \in Nat /\ jobs \in Nat /\ count + Cardinality(Busy) <= jobs /\ jobs' \in 0..MaxJobs
  BY <1>1, <1>2 DEF RowTypeOK, JobTypeOK, Room
<1>8. count + Cardinality(Busy) <= jobs + 1
  BY <1>6, <1>7
<1>9. Room'
  BY <1>1, <1>4, <1>8 DEF Room
<1>10. JobTypeOK' /\ JobFacts'
  BY <1>1, <1>2, <1>7 DEF JobTypeOK, JobFacts, jobVars
<1> QED
  BY <1>3, <1>9, <1>10 DEF Jobs

\* Every step on the memory items keeps their invariant.
LEMMA ItemSteps ==
  ASSUME ItemsInv, ItemsNext
  PROVE  ItemsInv'
<1> USE MemoryAssumption DEF ItemsInv
<1>a. /\ RowTypeOK /\ JobTypeOK /\ once \subseteq OnceKey
      /\ overlapped \in BOOLEAN /\ loose \subseteq Subject
  BY DEF Rows, Jobs, JobTypeOK
<1>b. ASSUME UNCHANGED rowVars PROVE Rows'
  BY <1>b DEF Rows, rowVars, RowTypeOK, Fresh, LinksAgree
<1>c. Subject \subseteq Boundary /\ Conversation \subseteq Boundary /\ Global \in Boundary
  BY DEF Boundary
<1>1. ASSUME NEW p \in Proc, NEW s \in Subject, NEW c \in Conversation, ExtractAndStore(p, s, c)
      PROVE  ItemsInv'
  BY <1>1, <1>a, <1>c, MergeBegins DEF ExtractAndStore, Candidates
<1>2. ASSUME NEW p \in Proc, NEW s \in Subject, NEW c \in Conversation, FlushHistory(p, s, c)
      PROVE  ItemsInv'
  <2>1. once' \subseteq OnceKey
    BY <1>2, <1>a DEF FlushHistory, OnceKey
  <2> QED
    BY <1>2, <1>c, <2>1, MergeBegins DEF FlushHistory, Candidates
<1>3. ASSUME NEW p \in Proc, Consolidate(p) PROVE ItemsInv'
  <2>1. once' \subseteq OnceKey
    BY <1>3, <1>a DEF Consolidate, OnceKey
  <2>2. PICK x \in Contexts : \E b \in {x[1], x[2], Global} : MergeItem(p, b)
    BY <1>3 DEF Consolidate
  <2>3. x[1] \in Subject /\ x[2] \in Conversation
    BY <2>2 DEF Contexts
  <2> QED
    BY <1>3, <1>c, <2>1, <2>2, <2>3, MergeBegins DEF Consolidate
<1>4. ASSUME NEW p \in Proc, NEW s \in Subject, EditRelationship(p, s) PROVE ItemsInv'
  BY <1>4, UpsertBegins DEF EditRelationship
<1>5. ASSUME NEW p \in Proc, LearnPersonality(p) PROVE ItemsInv'
  <2>1. PICK c \in Conversation : LearnContext(p, c)
    BY <1>5 DEF LearnPersonality, GroupContexts
  <2>2. Members[c] \subseteq Subject
    OBVIOUS
  <2> QED
    BY <1>a, <1>c, <2>1, <2>2, MergeBegins, UpsertBegins DEF LearnContext
<1>6. ASSUME NEW p \in Proc, NEW s \in Subject, NEW c \in Conversation, Forget(p, s, c)
      PROVE  ItemsInv'
  BY <1>6, ForgetBegins
<1>7. ASSUME NEW p \in Proc, DecideMerge(p) PROVE ItemsInv'
  BY <1>7, <1>b, DecideKeepsJobs DEF DecideMerge
<1>8. ASSUME NEW p \in Proc, UpsertReads(p) PROVE ItemsInv'
  BY <1>8, <1>b, UpsertReadsKeepsJobs DEF UpsertReads
<1>9. ASSUME NEW p \in Proc, MergeNoop(p) \/ JobCrashes(p) PROVE ItemsInv'
  <2>1. /\ step[p] # "idle" /\ JobOver(p)
        /\ UNCHANGED <<rowVars, clock, once, jobs, overlapped, loose>>
    BY <1>9 DEF MergeNoop, JobCrashes
  <2>2. Jobs'
    BY <1>a, <2>1, JobOverFacts DEF rowVars
  <2> QED
    BY <1>b, <2>1, <2>2
<1>10. ASSUME NEW p \in Proc, RevokeFor(p) PROVE ItemsInv'
  <2>1. step[p] = "forget" /\ JobOver(p) /\ UNCHANGED <<clock, once, jobs, overlapped, loose>>
    BY <1>10 DEF RevokeFor
  <2>2. stamp[p] \in Time
    BY <2>1 DEF Jobs, JobFacts
  <2>3. Rows'
    BY <1>10, <2>2, RevokeKeepsRows DEF RevokeFor
  <2>4. count' \in {count, count + 1}
    BY <1>10 DEF RevokeFor, Revoke
  <2>5. Jobs'
    BY <1>a, <2>1, <2>4, JobOverFacts
  <2> QED
    BY <2>3, <2>5
<1>11. ASSUME Tick PROVE ItemsInv'
  <2>1. /\ clock' \in Time /\ once' \subseteq OnceKey
        /\ UNCHANGED <<rowVars, jobs, jobVars, overlapped, loose>>
    BY <1>11, <1>a DEF Tick, JobTypeOK, Time
  <2>2. UNCHANGED <<Busy, count>>
    BY <2>1 DEF Busy, jobVars, rowVars
  <2>3. Jobs'
    BY <2>1, <2>2 DEF Jobs, JobTypeOK, JobFacts, Room, jobVars
  <2> QED
    BY <1>b, <2>1, <2>3
<1> QED
  BY <1>1, <1>2, <1>3, <1>4, <1>5, <1>6, <1>7, <1>8, <1>9, <1>10, <1>11, ApplyMergeKeepsInv,
     UpsertKeepsInv, LifecycleKeepsInv, RevokeMemoryKeepsInv DEF ItemsNext

\* The inductive invariant of the memory items holds in every run.
THEOREM ItemsInvariant == Spec => []ItemsInv
<1>1. Init => ItemsInv
  <2> SUFFICES ASSUME Init PROVE ItemsInv
    OBVIOUS
  <2>1. RowTypeOK /\ Fresh /\ LinksAgree
    BY MemoryAssumption DEF Init, ItemsInit, RowTypeOK, Fresh, LinksAgree, Item
  <2>2. JobTypeOK
    <3>0. /\ clock = 1 /\ jobs = 0 /\ once = {} /\ overlapped = FALSE /\ loose = {}
          /\ target = [p \in Proc |-> 0] /\ stamp = [p \in Proc |-> 0]
      BY DEF Init, ItemsInit
    <3>1. clock \in Time /\ jobs \in 0..MaxJobs
      BY ONLY <3>0, MemoryAssumption DEF Time
    <3>a. once \subseteq OnceKey /\ overlapped \in BOOLEAN /\ loose \subseteq Subject
      BY <3>0
    <3>2. target \in [Proc -> 0..MaxJobs] /\ stamp \in [Proc -> 0..MaxTime]
      BY ONLY <3>0, MemoryAssumption
    <3>3. /\ step \in [Proc -> {"idle", "decide", "apply", "upsert", "lock", "forget"}]
          /\ op \in [Proc -> {"NOOP", "ADD", "UPDATE", "DELETE"}]
      BY DEF Init, ItemsInit
    <3>4. where \in [Proc -> Boundary \cup {None}] /\ seen \in [Proc -> SUBSET Item]
      BY DEF Init, ItemsInit
    <3> QED
      BY <3>1, <3>a, <3>2, <3>3, <3>4 DEF JobTypeOK
  <2>j. JobFacts
    BY DEF Init, ItemsInit, JobFacts
  <2>3. Busy = {} /\ count = 0 /\ jobs = 0
    BY DEF Init, ItemsInit, Busy
  <2>4. Room
    BY <2>3, FS_EmptySet DEF Room
  <2> QED
    BY <2>1, <2>2, <2>4, <2>j DEF ItemsInv, Rows, Jobs
<1>2. ItemsInv /\ [Next]_vars => ItemsInv'
  <2>1. ASSUME ItemsInv, UNCHANGED itemVars PROVE ItemsInv'
    BY <2>1 DEF ItemsInv, Jobs, Rows, JobTypeOK, JobFacts, Room, Busy, RowTypeOK, Fresh,
                LinksAgree, itemVars, rowVars, jobVars
  <2> QED
    BY <2>1, ItemSteps DEF Next, CoreStep, ItemStep, HeartbeatStep, vars
<1> QED
  BY <1>1, <1>2, PTL DEF Spec

\* apply_merge, upsert_relationship and run_lifecycle: the row that
\* invalidated a memory is a later one of the same boundary and names it as
\* its predecessor, for any number of processes and jobs.
THEOREM HistoryIsLinked == Spec => []LinksAgree
<1>1. ItemsInv => LinksAgree
  BY DEF ItemsInv, Rows
<1> QED
  BY <1>1, ItemsInvariant, PTL


\* What a step may do to a memory that is revoked.
Frozen ==
    \A i \in Item : revoked[i] # 0 =>
        \/ at'[i] = None
        \/ /\ revoked'[i] = revoked[i] /\ invalid'[i] = invalid[i]
           /\ by'[i] \in {by[i], 0}
           /\ count' # count => prev'[count'] # i

\* _insert leaves a revoked row alone if the row it supersedes is not one.
LEMMA InsertFreezes ==
  ASSUME RowTypeOK, count < MaxJobs, NEW b, NEW kind, NEW old, NEW now,
         Insert(b, kind, old, now), old # 0 => revoked[old] = 0
  PROVE  Frozen
<1>1. count + 1 \in Item /\ 0 \notin Item
  BY MemoryAssumption DEF RowTypeOK, Item
<1>2. /\ count' = count + 1 /\ prev' = [prev EXCEPT ![count + 1] = old] /\ UNCHANGED revoked
      /\ invalid' = [i \in Item |-> IF i = old THEN now ELSE invalid[i]]
      /\ by' = [i \in Item |-> IF i = old THEN count + 1 ELSE by[i]]
  BY DEF Insert
<1>3. prev'[count'] = old
  BY <1>1, <1>2 DEF RowTypeOK
<1>4. ASSUME NEW i \in Item, revoked[i] # 0 PROVE i # old
  BY <1>1, <1>4
<1> QED
  BY <1>2, <1>3, <1>4 DEF Frozen

\* revoke_for and the operator revoke rows that are not revoked yet.
LEMMA RevokeFreezes ==
  ASSUME NEW R, \A i \in R : revoked[i] = 0, NEW now, Revoke(R, now)
  PROVE  Frozen
BY DEF Revoke, Frozen

\* apply_merge: the locked row is tested again.
LEMMA ApplyMergeFreezes ==
  ASSUME ItemsInv, NEW p \in Proc, ApplyMerge(p)
  PROVE  Frozen
<1>1. step[p] = "apply" /\ JobOver(p) /\ UNCHANGED <<clock, once, jobs>>
  BY DEF ApplyMerge
<1>2. RowTypeOK /\ Jobs /\ count \in Nat
  BY DEF ItemsInv, Rows, RowTypeOK
<1>3. ASSUME NEW kind, NEW old, Insert(where[p], kind, old, stamp[p]) PROVE count < MaxJobs
  <2>1. count' \in {count, count + 1}
    BY <1>3 DEF Insert
  <2> QED
    BY <1>1, <1>2, <2>1, MergeHistory, JobOverFacts
<1>4. CASE op[p] = "ADD" /\ \E kind \in Kinds(where[p]) : Insert(where[p], kind, 0, stamp[p])
  BY <1>2, <1>3, <1>4, InsertFreezes
<1>5. CASE /\ op[p] = "UPDATE" /\ TargetQualifies(p)
           /\ \E kind \in Kinds(where[p]) : Insert(where[p], kind, target[p], stamp[p])
  <2>1. revoked[target[p]] = 0
    BY <1>5 DEF TargetQualifies, Active
  <2> QED
    BY <1>2, <1>3, <1>5, <2>1, InsertFreezes
<1>6. CASE /\ op[p] = "DELETE" /\ TargetQualifies(p)
           /\ invalid' = [invalid EXCEPT ![target[p]] = stamp[p]]
           /\ by' = [by EXCEPT ![target[p]] = 0]
           /\ UNCHANGED <<at, rel, prev, revoked, count, overlapped, loose>>
  <2>1. revoked[target[p]] = 0
    BY <1>6 DEF TargetQualifies, Active
  <2> QED
    BY <1>2, <1>6, <2>1 DEF Frozen, RowTypeOK
<1>7. CASE UNCHANGED rowVars
  BY <1>7 DEF Frozen, rowVars
<1> QED
  BY <1>4, <1>5, <1>6, <1>7 DEF ApplyMerge

\* upsert_relationship locks rows that are still active.
LEMMA UpsertFreezes ==
  ASSUME ItemsInv, NEW p \in Proc, UpsertApplies(p)
  PROVE  Frozen
<1>1. step[p] = "lock" /\ JobOver(p) /\ UNCHANGED <<clock, once, jobs, loose>>
  BY DEF UpsertApplies
<1>2. RowTypeOK /\ Jobs /\ loose' \subseteq Subject
  BY <1>1 DEF ItemsInv, Rows, Jobs, JobTypeOK
<1>3. PICK old \in IF UpsertLocks(p) = {} THEN {0} ELSE Newest(UpsertLocks(p)) :
           /\ Insert(where[p], TRUE, old, stamp[p])
           /\ overlapped' = \/ overlapped
                            \/ Relationships(where[p], stamp[p]) \ seen[p] # {}
                            \/ old # 0 /\ invalid[old] > stamp[p]
  BY DEF UpsertApplies
<1>4. overlapped' \in BOOLEAN
  BY <1>3, Zenon
<1>5. count' \in {count, count + 1}
  BY <1>3 DEF Insert
<1>6. count < MaxJobs
  BY <1>1, <1>2, <1>4, <1>5, JobOverFacts
<1>7. old # 0 => revoked[old] = 0
  BY <1>3 DEF Newest, UpsertLocks, Relationships, Active
<1> QED
  BY <1>2, <1>3, <1>6, <1>7, InsertFreezes

\* apply_merge, upsert_relationship, revoke_for and run_lifecycle: a memory
\* that is revoked is never revised, superseded or brought back, only deleted,
\* for any number of processes and jobs.
THEOREM ForgottenStaysForgotten == Spec => RevokedIsFrozen
<1>1. ASSUME UNCHANGED rowVars PROVE Frozen
  BY <1>1 DEF Frozen, rowVars
<1>2. ASSUME ItemsInv, ItemsNext PROVE Frozen
  <2>1. ASSUME NEW p \in Proc, RevokeFor(p) PROVE Frozen
    BY <2>1, RevokeFreezes DEF RevokeFor
  <2>2. ASSUME NEW i \in Item, RevokeMemory(i) PROVE Frozen
    BY <2>2, RevokeFreezes DEF RevokeMemory
  <2>3. ASSUME RunLifecycle PROVE Frozen
    <3> DEFINE D == {i \in Item : revoked[i] # 0 /\ revoked[i] < clock}
    <3>1. PICK faded \in SUBSET {i \in Item : at[i] # None /\ revoked[i] = 0 /\ invalid[i] = 0} :
            /\ at' = [i \in Item |-> IF i \in D THEN None ELSE at[i]]
            /\ revoked' = [i \in Item |-> IF i \in D THEN 0 ELSE revoked[i]]
            /\ invalid' = [i \in Item |->
                   CASE i \in faded -> clock [] i \in D -> 0 [] OTHER -> invalid[i]]
            /\ by' = [i \in Item |-> IF {i, by[i]} \cap D # {} THEN 0 ELSE by[i]]
            /\ UNCHANGED count
      BY <2>3 DEF RunLifecycle
    <3> HIDE DEF D
    <3>2. ASSUME NEW i \in Item, revoked[i] # 0, i \notin D
          PROVE  /\ revoked'[i] = revoked[i] /\ invalid'[i] = invalid[i]
                 /\ by'[i] \in {by[i], 0}
      BY <3>1, <3>2
    <3>3. ASSUME NEW i \in Item, i \in D PROVE at'[i] = None
      BY <3>1, <3>3
    <3> QED
      BY <3>1, <3>2, <3>3 DEF Frozen
  <2>4. ASSUME NEW p \in Proc, LearnPersonality(p) PROVE UNCHANGED rowVars
    BY <2>4 DEF LearnPersonality, LearnContext, UpsertRelationship
  <2>5. ASSUME NEW p \in Proc, NEW s \in Subject, EditRelationship(p, s) PROVE UNCHANGED rowVars
    BY <2>5 DEF EditRelationship, UpsertRelationship
  <2>6. ASSUME NEW p \in Proc, NEW s \in Subject, NEW c \in Conversation,
               ExtractAndStore(p, s, c) \/ FlushHistory(p, s, c) \/ Forget(p, s, c)
        PROVE  UNCHANGED rowVars
    BY <2>6 DEF ExtractAndStore, FlushHistory, Forget
  <2>7. ASSUME NEW p \in Proc,
               \/ Consolidate(p) \/ DecideMerge(p) \/ MergeNoop(p)
               \/ UpsertReads(p) \/ JobCrashes(p)
        PROVE  UNCHANGED rowVars
    BY <2>7 DEF Consolidate, DecideMerge, MergeNoop, UpsertReads, JobCrashes
  <2>8. Tick => UNCHANGED rowVars
    BY DEF Tick
  <2> QED
    BY <1>1, <1>2, <2>1, <2>2, <2>3, <2>4, <2>5, <2>6, <2>7, <2>8, ApplyMergeFreezes,
       UpsertFreezes DEF ItemsNext
<1>3. ItemsInv /\ [Next]_vars => [Frozen]_itemVars
  BY <1>2 DEF Next, CoreStep, ItemStep, HeartbeatStep, vars
<1>4. [Frozen]_itemVars
        <=> [\A i \in Item : revoked[i] # 0 =>
               \/ at'[i] = None
               \/ /\ revoked'[i] = revoked[i] /\ invalid'[i] = invalid[i]
                  /\ by'[i] \in {by[i], 0}
                  /\ count' # count => prev'[count'] # i]_itemVars
  BY DEF Frozen
<1> QED
  BY <1>3, <1>4, ItemsInvariant, PTL DEF Spec, RevokedIsFrozen

(***************************************************************************)
(* One version of a memory.                                                *)
(***************************************************************************)
\* The times that jobs carry and rows bear are past ones.
Timely ==
    /\ \A p \in Proc : stamp[p] <= clock
    /\ \A i \in Item : invalid[i] <= clock

\* A row that was replaced is invalid, or deleted.
Replaced ==
    \A i \in Item :
        /\ prev[i] <= count
        /\ prev[i] # 0 => at[prev[i]] = None \/ invalid[prev[i]] # 0

\* A version history is a chain: no row is replaced twice.
OneSuccessor == \A i, j \in Item : prev[i] # 0 /\ prev[i] = prev[j] => i = j

\* A boundary has one relationship row that stands, unless a merge made one.
Standing(i) == at[i] # None /\ rel[i] /\ revoked[i] = 0 /\ invalid[i] = 0
OneRelationship ==
    \A i, j \in Item :
        at[i] = at[j] /\ at[i] \notin loose /\ Standing(i) /\ Standing(j) => i = j

VersionInv ==
    /\ Timely
    /\ Replaced
    /\ overlapped \/ (OneSuccessor /\ OneRelationship)

\* A step that inserts nothing, and after which a row is deleted or what it was,
\* perhaps revoked or invalid now.
LEMMA QuietVersions ==
  ASSUME ItemsInv, VersionInv, clock' \in Nat, clock' >= clock,
         UNCHANGED <<count, overlapped, loose>>,
         \A p \in Proc : stamp'[p] \in {0, stamp[p], clock},
         \A i \in Item :
            \/ at'[i] = None /\ prev'[i] = 0 /\ invalid'[i] = 0
            \/ /\ at'[i] = at[i] /\ rel'[i] = rel[i] /\ prev'[i] = prev[i]
               /\ revoked[i] # 0 => revoked'[i] # 0
               /\ invalid'[i] = invalid[i] \/ (invalid'[i] # 0 /\ invalid'[i] \in 0..clock)
  PROVE  VersionInv'
<1> USE MemoryAssumption DEF VersionInv
<1>1. /\ clock \in Nat /\ count \in Nat
      /\ \A p \in Proc : stamp[p] \in Nat
      /\ \A i \in Item : invalid[i] \in Nat /\ prev[i] \in 0..MaxJobs
  BY DEF ItemsInv, Jobs, Rows, JobTypeOK, RowTypeOK, Time
<1>2. Timely'
  <2>1. ASSUME NEW p \in Proc PROVE stamp'[p] <= clock'
    BY <1>1 DEF Timely
  <2>2. ASSUME NEW i \in Item PROVE invalid'[i] <= clock'
    BY <1>1 DEF Timely
  <2> QED
    BY <2>1, <2>2 DEF Timely
<1>3. Replaced'
  <2> SUFFICES ASSUME NEW i \in Item
               PROVE  /\ prev'[i] <= count
                      /\ prev'[i] # 0 => at'[prev'[i]] = None \/ invalid'[prev'[i]] # 0
    BY DEF Replaced
  <2>1. CASE prev'[i] = 0
    BY <1>1, <2>1
  <2>2. CASE prev'[i] # 0
    <3>1. prev'[i] = prev[i] /\ prev[i] \in Item
      BY <1>1, <2>2 DEF Item
    <3>2. prev[i] <= count /\ (at[prev[i]] = None \/ invalid[prev[i]] # 0)
      BY <2>2, <3>1 DEF Replaced
    <3> QED
      BY <3>1, <3>2
  <2> QED
    BY <2>1, <2>2
<1>4. ASSUME OneSuccessor PROVE OneSuccessor'
  BY <1>4 DEF OneSuccessor
<1>5. ASSUME OneRelationship PROVE OneRelationship'
  <2>1. ASSUME NEW i \in Item, Standing(i)' PROVE Standing(i) /\ at'[i] = at[i]
    BY <2>1 DEF Standing
  <2> QED
    BY <1>5, <2>1 DEF OneRelationship
<1> QED
  BY <1>2, <1>3, <1>4, <1>5

\* A step that changes no row.
LEMMA SameVersions ==
  ASSUME ItemsInv, VersionInv, clock' \in Nat, clock' >= clock,
         UNCHANGED <<rowVars, overlapped, loose>>,
         \A p \in Proc : stamp'[p] \in {0, stamp[p], clock}
  PROVE  VersionInv'
BY QuietVersions DEF rowVars

\* What jobs do to their stamps and the clock to itself.
LEMMA StampFacts ==
  ASSUME ItemsInv, NEW p \in Proc
  PROVE  /\ clock \in Nat /\ clock >= clock
         /\ JobOver(p) => \A q \in Proc : stamp'[q] \in {0, stamp[q], clock}
         /\ stamp' = [stamp EXCEPT ![p] = clock] =>
              \A q \in Proc : stamp'[q] \in {0, stamp[q], clock}
BY DEF ItemsInv, Jobs, JobTypeOK, JobOver, Time

\* An insert keeps the histories chains: the row it supersedes had no successor,
\* and a relationship supersedes the one that stands.
LEMMA InsertVersions ==
  ASSUME ItemsInv, VersionInv, count < MaxJobs, NEW p \in Proc, stamp[p] \in Time,
         NEW b \in Boundary \cup {None}, NEW kind \in BOOLEAN, NEW old \in 0..MaxJobs,
         Insert(b, kind, old, stamp[p]), JobOver(p), clock' = clock,
         old # 0 => at[old] = b /\ b # None, loose \subseteq loose',
         \/ overlapped'
         \/ /\ ~overlapped
            /\ old # 0 => invalid[old] = 0
            /\ kind /\ b \notin loose' => \A i \in Item : Standing(i) /\ at[i] = b => i = old
  PROVE  VersionInv'
<1> USE MemoryAssumption DEF VersionInv
<1>1. /\ clock \in Nat /\ count \in Nat
      /\ at \in [Item -> Boundary \cup {None}] /\ rel \in [Item -> BOOLEAN]
      /\ prev \in [Item -> 0..MaxJobs] /\ invalid \in [Item -> 0..MaxTime]
  BY DEF ItemsInv, Jobs, Rows, JobTypeOK, RowTypeOK, Time
<1>2. PICK new \in Item : count' = new /\ new = count + 1
  BY <1>1 DEF Insert, Item
<1>3. \A i \in Item : /\ at'[i] = IF i = new THEN b ELSE at[i]
                      /\ rel'[i] = IF i = new THEN kind ELSE rel[i]
                      /\ prev'[i] = IF i = new THEN old ELSE prev[i]
                      /\ invalid'[i] = IF i = old THEN stamp[p] ELSE invalid[i]
                      /\ revoked'[i] = revoked[i]
  BY <1>1, <1>2 DEF Insert
<1>4. stamp[p] # 0 /\ stamp[p] \in Nat /\ stamp[p] <= clock
  BY DEF Time, Timely
<1>5. old # 0 => old \in Item /\ old <= count
  <2>1. old # 0 => old \in Item
    BY DEF Item
  <2>2. Fresh
    BY DEF ItemsInv, Rows
  <2> QED
    BY <1>1, <2>1, <2>2 DEF Fresh, Item
<1>6. old # new
  BY <1>1, <1>2, <1>5
<1>7. Timely'
  <2>1. \A q \in Proc : stamp'[q] <= clock
    BY StampFacts, <1>1 DEF Timely
  <2>2. \A i \in Item : invalid'[i] <= clock
    BY <1>3, <1>4 DEF Timely
  <2> QED
    BY <2>1, <2>2 DEF Timely
<1>8. \A i \in Item : prev[i] <= count /\ prev[i] # new
  <2>1. \A i \in Item : prev[i] <= count /\ prev[i] \in Nat
    BY <1>1 DEF Replaced
  <2> QED
    BY <1>1, <1>2, <2>1
<1>9. Replaced'
  <2> SUFFICES ASSUME NEW i \in Item
               PROVE  /\ prev'[i] <= new
                      /\ prev'[i] # 0 => at'[prev'[i]] = None \/ invalid'[prev'[i]] # 0
    BY <1>2 DEF Replaced
  <2>1. CASE i = new
    <3>1. prev'[i] = old /\ old <= new
      BY <1>1, <1>2, <1>3, <1>5, <2>1
    <3> QED
      BY <1>3, <1>4, <1>5, <3>1
  <2>2. CASE i # new
    <3>1. prev'[i] = prev[i] /\ prev[i] <= new /\ prev[i] # new /\ prev[i] \in 0..MaxJobs
      BY <1>1, <1>2, <1>3, <1>8, <2>2
    <3>2. ASSUME prev[i] # 0 PROVE at'[prev[i]] = None \/ invalid'[prev[i]] # 0
      <4>1. prev[i] \in Item /\ (at[prev[i]] = None \/ invalid[prev[i]] # 0)
        BY <3>1, <3>2 DEF Replaced, Item
      <4> QED
        BY <1>3, <1>4, <3>1, <4>1
    <3> QED
      BY <3>1, <3>2
  <2> QED
    BY <2>1, <2>2
<1>10. ASSUME ~overlapped' PROVE OneSuccessor' /\ OneRelationship'
  <2>1. /\ OneSuccessor /\ OneRelationship
        /\ old # 0 => invalid[old] = 0
        /\ kind /\ b \notin loose' => \A i \in Item : Standing(i) /\ at[i] = b => i = old
    BY <1>10
  <2>2. \A i \in Item : old # 0 => prev[i] # old
    BY <2>1 DEF Replaced
  <2>3. OneSuccessor'
    BY <1>2, <1>3, <2>1, <2>2 DEF OneSuccessor
  <2>4. ASSUME NEW i \in Item, i # new, Standing(i)'
        PROVE  Standing(i) /\ i # old /\ at'[i] = at[i]
    BY <1>3, <1>4, <2>4 DEF Standing
  <2>5. ASSUME NEW i \in Item, i # new, Standing(i)', Standing(new)', at'[i] = at'[new],
               at'[i] \notin loose'
        PROVE  FALSE
    <3>1. kind /\ at[i] = b /\ b \notin loose'
      BY <1>2, <1>3, <2>4, <2>5 DEF Standing
    <3> QED
      BY <2>1, <2>4, <2>5, <3>1
  <2>6. OneRelationship'
    BY <1>2, <2>1, <2>4, <2>5 DEF OneRelationship
  <2> QED
    BY <2>3, <2>6
<1> QED
  BY <1>7, <1>9, <1>10

\* apply_merge.
LEMMA ApplyMergeVersions ==
  ASSUME ItemsInv, VersionInv, NEW p \in Proc, ApplyMerge(p)
  PROVE  VersionInv'
<1> USE MemoryAssumption
<1>1. step[p] = "apply" /\ JobOver(p) /\ UNCHANGED <<clock, once, jobs>>
  BY DEF ApplyMerge
<1>2. stamp[p] \in Time /\ where[p] \in Boundary \cup {None}
  BY <1>1 DEF ItemsInv, Jobs, JobFacts, JobTypeOK
<1>3. /\ RowTypeOK /\ Jobs /\ overlapped' \in BOOLEAN /\ loose' \subseteq Subject
      /\ loose \subseteq loose' /\ Kinds(where[p]) \subseteq BOOLEAN
  BY MergeHistory DEF ItemsInv, Rows, Kinds
<1>4. ASSUME NEW kind, NEW old, Insert(where[p], kind, old, stamp[p]) PROVE count < MaxJobs
  <2>1. count' \in {count, count + 1}
    BY <1>4 DEF Insert
  <2> QED
    BY <1>1, <1>3, <2>1, JobOverFacts
<1>5. CASE /\ op[p] = "ADD"
           /\ \E kind \in Kinds(where[p]) :
                  Insert(where[p], kind, 0, stamp[p]) /\ Loosen(where[p], kind)
           /\ UNCHANGED overlapped
  <2>1. PICK kind \in BOOLEAN : Insert(where[p], kind, 0, stamp[p]) /\ Loosen(where[p], kind)
    BY <1>3, <1>5
  <2>2. count < MaxJobs /\ 0 \in 0..MaxJobs
    BY <1>4, <2>1
  <2>3. overlapped' \/ ~overlapped
    BY <1>5, Zenon
  <2>4. kind => where[p] \in loose'
    BY <2>1 DEF Loosen
  <2> QED
    BY <1>1, <1>2, <1>3, <2>1, <2>2, <2>3, <2>4, InsertVersions
<1>6. CASE /\ op[p] = "UPDATE" /\ TargetQualifies(p)
           /\ \E kind \in Kinds(where[p]) :
                  /\ Insert(where[p], kind, target[p], stamp[p])
                  /\ Loosen(where[p], kind /\ ~rel[target[p]])
           /\ overlapped' = (overlapped \/ invalid[target[p]] > stamp[p])
  <2> DEFINE old == target[p]
  <2>1. old \in Item /\ old \in 0..MaxJobs
    BY <1>6 DEF ItemsInv, Jobs, JobFacts, JobTypeOK
  <2>2. PICK kind \in BOOLEAN : /\ Insert(where[p], kind, old, stamp[p])
                               /\ Loosen(where[p], kind /\ ~rel[old])
    BY <1>3, <1>6
  <2>3. kind /\ where[p] \notin loose' => rel[old]
    BY <2>2 DEF Loosen
  <2>4. /\ at[old] = where[p] /\ where[p] # None /\ revoked[old] = 0
        /\ invalid[old] = 0 \/ invalid[old] > stamp[p]
    BY <1>6 DEF TargetQualifies, Active
  <2>5. overlapped' \/ (~overlapped /\ ~(invalid[old] > stamp[p]))
    BY <1>6, Zenon
  <2>6. ASSUME ~overlapped, ~(invalid[old] > stamp[p])
        PROVE  /\ invalid[old] = 0
               /\ kind /\ where[p] \notin loose' =>
                    \A i \in Item : Standing(i) /\ at[i] = where[p] => i = old
    <3>1. invalid[old] = 0
      BY <2>4, <2>6
    <3>2. OneRelationship
      BY <2>6 DEF VersionInv
    <3>3. kind /\ where[p] \notin loose' => Standing(old)
      BY <2>3, <2>4, <3>1 DEF Standing
    <3> QED
      BY <1>3, <2>1, <2>4, <3>1, <3>2, <3>3 DEF OneRelationship
  <2>7. count < MaxJobs
    BY <1>4, <2>2
  <2> HIDE DEF old
  <2> QED
    BY <1>1, <1>2, <1>3, <2>1, <2>2, <2>4, <2>5, <2>6, <2>7, InsertVersions
<1>7. CASE /\ op[p] = "DELETE" /\ TargetQualifies(p)
           /\ invalid' = [invalid EXCEPT ![target[p]] = stamp[p]]
           /\ by' = [by EXCEPT ![target[p]] = 0]
           /\ UNCHANGED <<at, rel, prev, revoked, count, overlapped, loose>>
  <2>1. stamp[p] # 0 /\ stamp[p] \in 0..clock /\ clock \in Nat
    BY <1>2, StampFacts DEF Time, VersionInv, Timely
  <2>2. \A i \in Item : invalid'[i] = invalid[i] \/ invalid'[i] = stamp[p]
    BY <1>3, <1>7 DEF RowTypeOK
  <2> QED
    BY <1>1, <1>7, <2>1, <2>2, StampFacts, QuietVersions
<1>8. CASE UNCHANGED <<rowVars, overlapped, loose>>
  BY <1>1, <1>8, StampFacts, SameVersions
<1> QED
  BY <1>5, <1>6, <1>7, <1>8 DEF ApplyMerge

\* upsert_relationship: unless a version was committed behind its snapshot, the
\* row it locks is the one that stands.
LEMMA UpsertVersions ==
  ASSUME ItemsInv, VersionInv, NEW p \in Proc, UpsertApplies(p)
  PROVE  VersionInv'
<1> USE MemoryAssumption
<1>1. step[p] = "lock" /\ JobOver(p) /\ UNCHANGED <<clock, once, jobs, loose>>
  BY DEF UpsertApplies
<1>2. /\ stamp[p] \in Time /\ where[p] \in Boundary \cup {None} /\ RowTypeOK /\ Jobs
      /\ loose' \subseteq Subject /\ loose \subseteq loose'
  BY <1>1 DEF ItemsInv, Jobs, JobFacts, JobTypeOK, Rows
<1>3. PICK old \in IF UpsertLocks(p) = {} THEN {0} ELSE Newest(UpsertLocks(p)) :
           /\ Insert(where[p], TRUE, old, stamp[p])
           /\ overlapped' = \/ overlapped
                            \/ Relationships(where[p], stamp[p]) \ seen[p] # {}
                            \/ old # 0 /\ invalid[old] > stamp[p]
  BY DEF UpsertApplies
<1>4. overlapped' \in BOOLEAN
  BY <1>3, Zenon
<1>5. count' \in {count, count + 1}
  BY <1>3 DEF Insert
<1>6. count < MaxJobs
  BY <1>1, <1>2, <1>4, <1>5, JobOverFacts
<1>7. /\ UpsertLocks(p) = {} => old = 0
      /\ UpsertLocks(p) # {} => old \in Relationships(where[p], stamp[p])
  BY <1>3 DEF Newest, UpsertLocks
<1>8. /\ old \in 0..MaxJobs
      /\ old # 0 => /\ old \in Item /\ at[old] = where[p] /\ where[p] # None /\ rel[old]
                    /\ revoked[old] = 0 /\ (invalid[old] = 0 \/ invalid[old] > stamp[p])
  BY <1>7 DEF Relationships, Active, Item
<1>9. \/ overlapped'
      \/ /\ ~overlapped /\ Relationships(where[p], stamp[p]) \ seen[p] = {}
         /\ ~(old # 0 /\ invalid[old] > stamp[p])
  BY <1>3, Zenon
<1>10. ASSUME ~overlapped, Relationships(where[p], stamp[p]) \ seen[p] = {},
              ~(old # 0 /\ invalid[old] > stamp[p])
       PROVE  /\ old # 0 => invalid[old] = 0
              /\ where[p] \notin loose' =>
                   \A i \in Item : Standing(i) /\ at[i] = where[p] => i = old
  <2>1. old # 0 => invalid[old] = 0
    BY <1>8, <1>10
  <2>2. OneRelationship
    BY <1>10 DEF VersionInv
  <2>3. ASSUME NEW i \in Item, Standing(i), at[i] = where[p], where[p] \notin loose'
        PROVE  i = old
    <3>1. i \in Relationships(where[p], stamp[p])
      BY <2>3 DEF Standing, Relationships, Active
    <3>2. i \in UpsertLocks(p)
      BY <1>10, <3>1 DEF UpsertLocks
    <3>3. old \in Item /\ at[old] = at[i] /\ Standing(old)
      BY <1>7, <1>8, <2>1, <2>3, <3>2 DEF Relationships, Standing, Item
    <3> QED
      BY <1>2, <2>2, <2>3, <3>3 DEF OneRelationship
  <2> QED
    BY <2>1, <2>3
<1>11. TRUE \in BOOLEAN
  OBVIOUS
<1> QED
  BY <1>1, <1>2, <1>3, <1>6, <1>8, <1>9, <1>10, <1>11, InsertVersions

\* Every step on the memory items keeps the histories chains.
LEMMA VersionSteps ==
  ASSUME ItemsInv, VersionInv, ItemsNext
  PROVE  VersionInv'
<1> USE MemoryAssumption
<1>a. /\ clock \in Nat /\ clock >= clock /\ clock # 0
      /\ \A p \in Proc : stamp[p] \in {0, stamp[p], clock}
  BY DEF ItemsInv, Jobs, JobTypeOK, Time
<1>b. ASSUME UNCHANGED <<rowVars, clock, overlapped, loose, stamp>> PROVE VersionInv'
  BY <1>a, <1>b, SameVersions
<1>c. ASSUME NEW p \in Proc, NEW s \in Subject, UpsertRelationship(p, s) PROVE VersionInv'
  BY <1>c, StampFacts, SameVersions DEF UpsertRelationship
<1>1. ASSUME NEW p \in Proc, NEW s \in Subject, NEW c \in Conversation,
             ExtractAndStore(p, s, c) \/ FlushHistory(p, s, c)
      PROVE  VersionInv'
  BY <1>1, <1>b DEF ExtractAndStore, FlushHistory, MergeItem
<1>2. ASSUME NEW p \in Proc, NEW s \in Subject, NEW c \in Conversation, Forget(p, s, c)
      PROVE  VersionInv'
  BY <1>2, StampFacts, SameVersions DEF Forget
<1>3. ASSUME NEW p \in Proc, Consolidate(p) \/ UpsertReads(p) PROVE VersionInv'
  BY <1>3, <1>b DEF Consolidate, MergeItem, UpsertReads
<1>4. ASSUME NEW p \in Proc, LearnPersonality(p) PROVE VersionInv'
  <2>1. PICK c \in Conversation : LearnContext(p, c)
    BY <1>4 DEF LearnPersonality, GroupContexts
  <2>2. Members[c] \subseteq Subject
    OBVIOUS
  <2> QED
    BY <1>b, <1>c, <2>1, <2>2 DEF LearnContext, MergeItem
<1>5. ASSUME NEW p \in Proc, DecideMerge(p) PROVE VersionInv'
  BY <1>5, StampFacts, SameVersions DEF DecideMerge
<1>6. ASSUME NEW p \in Proc, MergeNoop(p) \/ JobCrashes(p) PROVE VersionInv'
  BY <1>6, StampFacts, SameVersions DEF MergeNoop, JobCrashes
<1>7. ASSUME NEW now \in Time, NEW R, Revoke(R, now), UNCHANGED <<clock, overlapped, loose>>,
             \A p \in Proc : stamp'[p] \in {0, stamp[p], clock}
      PROVE  VersionInv'
  <2>1. \A i \in Item : revoked[i] # 0 => revoked'[i] # 0
    BY <1>7 DEF Revoke, Time
  <2> QED
    BY <1>a, <1>7, <2>1, QuietVersions DEF Revoke
<1>8. ASSUME NEW p \in Proc, RevokeFor(p) PROVE VersionInv'
  <2>1. stamp[p] \in Time
    BY <1>8 DEF RevokeFor, ItemsInv, Jobs, JobFacts
  <2> QED
    BY <1>7, <1>8, <2>1, StampFacts DEF RevokeFor
<1>9. ASSUME NEW i \in Item, RevokeMemory(i) PROVE VersionInv'
  <2>1. clock \in Time
    BY DEF ItemsInv, Jobs, JobTypeOK
  <2> QED
    BY <1>a, <1>7, <1>9, <2>1 DEF RevokeMemory, jobVars
<1>10. CASE RunLifecycle
  <2> DEFINE D == {i \in Item : revoked[i] # 0 /\ revoked[i] < clock}
  <2>1. PICK faded \in SUBSET {i \in Item : at[i] # None /\ revoked[i] = 0 /\ invalid[i] = 0} :
          /\ at' = [i \in Item |-> IF i \in D THEN None ELSE at[i]]
          /\ rel' = [i \in Item |-> IF i \in D THEN FALSE ELSE rel[i]]
          /\ prev' = [i \in Item |-> IF i \in D THEN 0 ELSE prev[i]]
          /\ revoked' = [i \in Item |-> IF i \in D THEN 0 ELSE revoked[i]]
          /\ invalid' = [i \in Item |->
                 CASE i \in faded -> clock [] i \in D -> 0 [] OTHER -> invalid[i]]
          /\ UNCHANGED <<count, clock, jobVars, overlapped, loose>>
    BY <1>10 DEF RunLifecycle
  <2>2. D \cap faded = {}
    BY <2>1
  <2>3. \A i \in D : at'[i] = None /\ prev'[i] = 0 /\ invalid'[i] = 0
    BY <2>1, <2>2
  <2>4. \A i \in Item \ D :
          /\ at'[i] = at[i] /\ rel'[i] = rel[i] /\ prev'[i] = prev[i] /\ revoked'[i] = revoked[i]
          /\ invalid'[i] = invalid[i] \/ invalid'[i] = clock
    BY <2>1
  <2> HIDE DEF D
  <2>5. ASSUME NEW i \in Item
        PROVE  \/ at'[i] = None /\ prev'[i] = 0 /\ invalid'[i] = 0
               \/ /\ at'[i] = at[i] /\ rel'[i] = rel[i] /\ prev'[i] = prev[i]
                  /\ revoked[i] # 0 => revoked'[i] # 0
                  /\ invalid'[i] = invalid[i] \/ (invalid'[i] # 0 /\ invalid'[i] \in 0..clock)
    <3>1. CASE i \in D
      BY <2>3, <3>1
    <3>2. CASE i \notin D
      BY <1>a, <2>4, <3>2
    <3> QED
      BY <3>1, <3>2
  <2> QED
    BY <1>a, <2>1, <2>5, QuietVersions DEF jobVars
<1>11. CASE Tick
  BY <1>a, <1>11, SameVersions DEF Tick, jobVars
<1> QED
  BY <1>1, <1>2, <1>3, <1>4, <1>5, <1>6, <1>8, <1>9, <1>10, <1>11, <1>c, ApplyMergeVersions,
     UpsertVersions DEF ItemsNext, EditRelationship

\* Two rows that nothing replaced are not connected.  What the links lead back to
\* from one of them is closed: no row outside it names a row of it, for that
\* has its one successor inside.
LEMMA ChainsAreApart ==
  ASSUME ItemsInv, OneSuccessor, NEW i \in Item, NEW j \in Item, i # j,
         \A k \in Item : prev[k] \notin {i, j}
  PROVE  j \notin MemoryHistory(i)
<1> DEFINE near == {k \in Item : at[i] # None /\ at[k] = at[i]}
           Back(T) == i \in T /\ \A r \in near \cap T : prev[r] # 0 => prev[r] \in T
           D == {x \in Item : \A T \in SUBSET Item : Back(T) => x \in T}
           Closed(S) == \A r \in near : \A l \in Linked(r) : r \in S <=> l \in S
<1>1. \A r \in Item : prev[r] # 0 => prev[r] \in Item
  BY DEF ItemsInv, Rows, RowTypeOK, Item
<1>2. D \in SUBSET Item /\ Back(D)
  <2>1. i \in D
    OBVIOUS
  <2>2. ASSUME NEW r \in near \cap D, prev[r] # 0 PROVE prev[r] \in D
    <3>1. ASSUME NEW T \in SUBSET Item, Back(T) PROVE prev[r] \in T
      BY <2>2, <3>1
    <3> QED
      BY <1>1, <2>2, <3>1
  <2> QED
    BY <2>1, <2>2
<1>3. j \notin D
  <2>1. Back(Item \ {j})
    BY <1>1
  <2> QED
    BY <2>1
<1>4. ASSUME NEW r \in near, prev[r] # 0, prev[r] \in D PROVE r \in D
  <2> DEFINE T == D \ {prev[r]}
  <2>1. SUFFICES ASSUME r \notin D PROVE FALSE
    OBVIOUS
  <2>2. i \in T
    BY <1>2
  <2>3. ASSUME NEW q \in near \cap T, prev[q] # 0 PROVE prev[q] \in T
    <3>1. prev[q] \in D
      BY <1>2, <2>3
    <3>2. q # r
      BY <2>1, <2>3
    <3>3. prev[q] # prev[r]
      BY <1>4, <2>3, <3>2 DEF OneSuccessor
    <3> QED
      BY <3>1, <3>3
  <2>4. Back(T)
    BY <2>2, <2>3
  <2> QED
    BY <1>4, <2>4
<1>5. \A r \in near : prev[r] # 0 => (r \in D <=> prev[r] \in D)
  BY <1>2, <1>4
<1>6. Closed(D)
  <2> SUFFICES ASSUME NEW r \in near, NEW l \in Linked(r) PROVE r \in D <=> l \in D
    OBVIOUS
  <2>1. CASE l = prev[r]
    BY <1>5, <2>1 DEF Linked
  <2>2. CASE l = by[r]
    <3>1. l # 0 /\ at[l] = at[r] /\ prev[l] = r /\ l \in Item
      BY <2>2 DEF Linked, ItemsInv, Rows, LinksAgree, RowTypeOK, Item
    <3>2. l \in near /\ r # 0
      BY <3>1, MemoryAssumption DEF Item
    <3> QED
      BY <1>5, <3>1, <3>2
  <2> QED
    BY <2>1, <2>2 DEF Linked
<1>7. ASSUME j \in ConnectedMemories(i, near) PROVE FALSE
  <2>1. \A S \in SUBSET Item : i \in S /\ Closed(S) => j \in S
    BY <1>7 DEF ConnectedMemories
  <2> HIDE DEF Closed, D
  <2>2. i \in D
    BY <1>2
  <2> QED
    BY <1>2, <1>3, <1>6, <2>1, <2>2
<1> QED
  BY <1>7 DEF MemoryHistory

\* memory.py: unless a write overlapped another one's transaction or used an
\* older time, no turn is shown two versions of one memory, and a subject has one
\* relationship version as long as apply_merge made none of its own for it, for
\* any number of processes, subjects and jobs.
THEOREM VersionsAreUnique == Spec => []OneVersion
<1>1. Init => VersionInv
  <2> SUFFICES ASSUME Init PROVE VersionInv
    OBVIOUS
  <2>1. /\ clock = 1 /\ count = 0
        /\ \A p \in Proc : stamp[p] = 0
        /\ \A i \in Item : at[i] = None /\ prev[i] = 0 /\ invalid[i] = 0
    BY DEF Init, ItemsInit
  <2> QED
    BY <2>1 DEF VersionInv, Timely, Replaced, OneSuccessor, OneRelationship, Standing
<1>2. ItemsInv /\ VersionInv /\ [Next]_vars => VersionInv'
  <2>1. ASSUME VersionInv, UNCHANGED itemVars PROVE VersionInv'
    BY <2>1 DEF VersionInv, Timely, Replaced, OneSuccessor, OneRelationship, Standing, itemVars,
                rowVars, jobVars
  <2> QED
    BY <2>1, VersionSteps DEF Next, CoreStep, ItemStep, HeartbeatStep, vars
<1>3. ItemsInv /\ VersionInv => OneVersion
  <2> SUFFICES ASSUME ItemsInv, VersionInv, ~overlapped PROVE OneVersion
    BY DEF OneVersion
  <2>1. OneSuccessor /\ OneRelationship
    BY DEF VersionInv
  <2>2. ASSUME NEW i \in Item, Active(i, clock)
        PROVE  invalid[i] = 0 /\ at[i] # None /\ revoked[i] = 0 /\ \A k \in Item : prev[k] # i
    <3>1. invalid[i] <= clock /\ invalid[i] \in Nat /\ clock \in Nat
      BY MemoryAssumption DEF VersionInv, Timely, ItemsInv, Jobs, Rows, JobTypeOK, RowTypeOK, Time
    <3>2. invalid[i] = 0 /\ at[i] # None /\ revoked[i] = 0
      BY <2>2, <3>1 DEF Active
    <3>3. 0 \notin Item
      BY DEF Item
    <3> QED
      BY <3>2, <3>3 DEF VersionInv, Replaced
  <2>3. ASSUME NEW x \in Contexts, NEW i \in MemoryBlocks(x[1], x[2], clock),
               NEW j \in MemoryBlocks(x[1], x[2], clock), i < j
        PROVE  j \notin MemoryHistory(i)
    <3>1. i \in Item /\ j \in Item /\ Active(i, clock) /\ Active(j, clock)
      BY DEF MemoryBlocks, RetrievalBlock, PersonalityBlock, Search, Relationships,
             ActiveExpressions
    <3>2. i # j
      BY <2>3, <3>1 DEF Item
    <3> QED
      BY <2>1, <2>2, <3>1, <3>2, ChainsAreApart
  <2>4. ASSUME NEW s \in Subject \ loose, NEW i \in Relationships(s, clock),
               NEW j \in Relationships(s, clock)
        PROVE  i = j
    <3>1. /\ i \in Item /\ j \in Item /\ at[i] = s /\ at[j] = s /\ rel[i] /\ rel[j]
          /\ Active(i, clock) /\ Active(j, clock)
      BY DEF Relationships
    <3>2. Standing(i) /\ Standing(j)
      BY <2>2, <3>1 DEF Standing
    <3> QED
      BY <2>1, <3>1, <3>2 DEF OneRelationship
  <2> QED
    BY <2>3, <2>4 DEF OneVersion
<1> QED
  BY <1>1, <1>2, <1>3, ItemsInvariant, PTL DEF Spec

(***************************************************************************)
(* Check-ins.                                                              *)
(***************************************************************************)
\* The workers that hold the key of a conversation and have not recorded a
\* check-in yet, and those that have recorded one and not published it.
Making(c) == {w \in Sweeper : beat[w] \in {"generate", "record"} /\ chat[w] = c}
Publishing(c) == {w \in Sweeper : beat[w] = "publish" /\ chat[w] = c}

\* Every check-in, recorded or on the way, took an interval of the key's time.
Spaced ==
    \A c \in Chat :
        /\ (rows[c] + Cardinality(Making(c))) * Interval <= until[c]
        /\ until[c] <= hour + Interval
        /\ sent[c] + Cardinality(Publishing(c)) <= rows[c]
        /\ c \notin Reachable => rows[c] = 0

AtReachable ==
    \A w \in Sweeper : beat[w] \in {"generate", "record", "publish"} => chat[w] \in Reachable

HeartbeatInv == HeartbeatTypeOK /\ Spaced /\ AtReachable

\* How many intervals begin within some hours.
LEMMA IntervalsBegun ==
  ASSUME NEW n \in Nat, NEW h \in Nat, NEW I \in Nat \ {0}, n * I <= h + I
  PROVE  n <= 1 + h \div I
<1> DEFINE q == h \div I
<1>1. q \in Nat /\ h < (q + 1) * I
  BY Z3
<1> HIDE DEF q
<1>2. SUFFICES ASSUME n >= q + 2 PROVE FALSE
  BY <1>1 DEF q
<1>3. n * I >= (q + 2) * I
  BY <1>1, <1>2
<1>4. (q + 2) * I = (q + 1) * I + I
  BY <1>1
<1> QED
  BY <1>1, <1>3, <1>4

\* Counting a set of workers after a step of one of them.
LEMMA CountAfter ==
  ASSUME NEW S \in SUBSET Sweeper, NEW T \in SUBSET Sweeper, NEW w \in Sweeper,
         \A v \in Sweeper : v # w => (v \in S <=> v \in T)
  PROVE  /\ Cardinality(S) \in Nat /\ Cardinality(T) \in Nat
         /\ (w \in S <=> w \in T) => Cardinality(T) = Cardinality(S)
         /\ w \in S /\ w \notin T => Cardinality(T) + 1 = Cardinality(S)
         /\ w \notin S /\ w \in T => Cardinality(T) = Cardinality(S) + 1
<1>1. IsFiniteSet(S) /\ IsFiniteSet(T)
  BY HeartbeatAssumption, FS_Subset
<1>2. Cardinality(S) \in Nat /\ Cardinality(T) \in Nat
  BY <1>1, FS_CardinalityType
<1>3. ASSUME w \in S <=> w \in T PROVE S = T
  BY <1>3
<1>4. ASSUME w \in S, w \notin T PROVE Cardinality(T) + 1 = Cardinality(S)
  <2>1. S = T \cup {w}
    BY <1>4
  <2> QED
    BY <1>1, <1>2, <1>4, <2>1, FS_AddElement
<1>5. ASSUME w \notin S, w \in T PROVE Cardinality(T) = Cardinality(S) + 1
  <2>1. T = S \cup {w}
    BY <1>5
  <2> QED
    BY <1>1, <1>2, <1>5, <2>1, FS_AddElement
<1> QED
  BY <1>2, <1>3, <1>4, <1>5

\* A step of one worker that leaves the key and the recorded check-ins alone,
\* takes no key and goes on to publish nothing.
LEMMA LeavingKeepsInv ==
  ASSUME HeartbeatInv, NEW w \in Sweeper, HeartbeatTypeOK',
         UNCHANGED <<until, rows, hour, sent>>,
         \A v \in Sweeper : v # w => beat'[v] = beat[v] /\ chat'[v] = chat[v],
         \/ beat'[w] \in {"idle", "sweep"}
         \/ beat[w] = "generate" /\ beat'[w] = "record" /\ chat'[w] = chat[w]
  PROVE  HeartbeatInv'
<1>1. ASSUME NEW c \in Chat
      PROVE  /\ Cardinality(Making(c)') <= Cardinality(Making(c))
             /\ Cardinality(Publishing(c)') <= Cardinality(Publishing(c))
             /\ Cardinality(Making(c)) \in Nat /\ Cardinality(Making(c)') \in Nat
             /\ Cardinality(Publishing(c)) \in Nat /\ Cardinality(Publishing(c)') \in Nat
  <2>1. /\ Making(c) \in SUBSET Sweeper /\ Making(c)' \in SUBSET Sweeper
        /\ \A v \in Sweeper : v # w => (v \in Making(c) <=> v \in Making(c)')
        /\ w \in Making(c)' => w \in Making(c)
    BY DEF Making
  <2>2. /\ Publishing(c) \in SUBSET Sweeper /\ Publishing(c)' \in SUBSET Sweeper
        /\ \A v \in Sweeper : v # w => (v \in Publishing(c) <=> v \in Publishing(c)')
        /\ w \in Publishing(c)' => w \in Publishing(c)
    BY DEF Publishing
  <2>3. /\ Cardinality(Making(c)') <= Cardinality(Making(c))
        /\ Cardinality(Making(c)) \in Nat /\ Cardinality(Making(c)') \in Nat
    BY <2>1, CountAfter
  <2>4. /\ Cardinality(Publishing(c)') <= Cardinality(Publishing(c))
        /\ Cardinality(Publishing(c)) \in Nat /\ Cardinality(Publishing(c)') \in Nat
    BY <2>2, CountAfter
  <2> QED
    BY <2>3, <2>4
<1>2. ASSUME NEW c \in Chat
      PROVE  /\ (rows'[c] + Cardinality(Making(c)')) * Interval <= until'[c]
             /\ sent'[c] + Cardinality(Publishing(c)') <= rows'[c]
  <2>1. /\ (rows[c] + Cardinality(Making(c))) * Interval <= until[c]
        /\ sent[c] + Cardinality(Publishing(c)) <= rows[c]
    BY DEF HeartbeatInv, Spaced
  <2>2. rows[c] \in Nat /\ sent[c] \in Nat /\ until[c] \in Nat /\ Interval \in Nat
    BY HeartbeatAssumption DEF HeartbeatInv, HeartbeatTypeOK
  <2>3. (rows[c] + Cardinality(Making(c)')) * Interval
          <= (rows[c] + Cardinality(Making(c))) * Interval
    BY ONLY <1>1, <2>2
  <2>4. (rows[c] + Cardinality(Making(c)')) * Interval <= until[c]
    BY <1>1, <2>1, <2>2, <2>3
  <2>5. sent[c] + Cardinality(Publishing(c)') <= rows[c]
    BY <1>1, <2>1, <2>2
  <2> QED
    BY <2>4, <2>5
<1>3. Spaced'
  BY <1>2 DEF Spaced, HeartbeatInv
<1>4. AtReachable'
  BY DEF AtReachable, HeartbeatInv
<1> QED
  BY <1>3, <1>4 DEF HeartbeatInv

\* acquire_once: who takes the key starts an interval of its own.
LEMMA AcquiringKeepsInv ==
  ASSUME HeartbeatInv, NEW w \in Sweeper, NEW c \in Chat, beat[w] = "sweep",
         Found(c), AcquireOnce(c),
         chat' = [chat EXCEPT ![w] = c], beat' = [beat EXCEPT ![w] = "generate"],
         HeartbeatTypeOK', UNCHANGED <<hour, rows, sent>>
  PROVE  HeartbeatInv'
<1> USE DEF HeartbeatInv
<1>1. /\ beat'[w] = "generate" /\ chat'[w] = c
      /\ \A v \in Sweeper : v # w => beat'[v] = beat[v] /\ chat'[v] = chat[v]
  BY DEF HeartbeatTypeOK
<1>2. /\ Making(c) \in SUBSET Sweeper /\ Making(c)' \in SUBSET Sweeper
      /\ \A v \in Sweeper : v # w => (v \in Making(c) <=> v \in Making(c)')
      /\ w \notin Making(c) /\ w \in Making(c)'
  BY <1>1 DEF Making
<1>3. Cardinality(Making(c)') = Cardinality(Making(c)) + 1 /\ Cardinality(Making(c)) \in Nat
  BY <1>2, CountAfter
<1>4. ASSUME NEW d \in Chat PROVE (d # c => Making(d)' = Making(d)) /\ Publishing(d)' = Publishing(d)
  BY <1>1 DEF Making, Publishing
<1>5. /\ until[c] <= hour /\ until'[c] = hour + Interval
      /\ \A d \in Chat : d # c => until'[d] = until[d]
  BY DEF AcquireOnce, HeartbeatTypeOK
<1>6. /\ rows[c] \in Nat /\ hour \in Nat /\ until[c] \in Nat /\ Interval \in Nat
      /\ (rows[c] + Cardinality(Making(c))) * Interval <= until[c]
  BY HeartbeatAssumption DEF HeartbeatTypeOK, Spaced
<1>7. (rows[c] + Cardinality(Making(c)')) * Interval <= until'[c]
  <2> DEFINE n == rows[c] + Cardinality(Making(c))
  <2>1. n \in Nat /\ rows[c] + Cardinality(Making(c)') = n + 1
    BY <1>3, <1>6
  <2>2. n * Interval <= until[c]
    BY <1>6
  <2> HIDE DEF n
  <2>3. (n + 1) * Interval = n * Interval + Interval
    BY ONLY <2>1, <1>6
  <2>4. n * Interval \in Nat
    BY ONLY <2>1, <1>6
  <2>5. (n + 1) * Interval <= hour + Interval
    BY <1>5, <1>6, <2>2, <2>3, <2>4
  <2> QED
    BY <1>5, <2>1, <2>5
<1>8. ASSUME NEW d \in Chat
      PROVE  /\ (rows'[d] + Cardinality(Making(d)')) * Interval <= until'[d]
             /\ until'[d] <= hour' + Interval
             /\ sent'[d] + Cardinality(Publishing(d)') <= rows'[d]
             /\ d \notin Reachable => rows'[d] = 0
  <2>1. CASE d = c
    <3>1. until'[c] <= hour' + Interval
      BY <1>5, <1>6
    <3> QED
      BY <1>4, <1>7, <2>1, <3>1 DEF Spaced
  <2>2. CASE d # c
    BY <1>4, <1>5, <2>2 DEF Spaced
  <2> QED
    BY <2>1, <2>2
<1>9. AtReachable'
  BY <1>1 DEF AtReachable, Found
<1> QED
  BY <1>8, <1>9 DEF Spaced

\* _send: the check-in is recorded, on the interval its worker took.
LEMMA RecordKeepsInv ==
  ASSUME HeartbeatInv, NEW w \in Sweeper, RecordOutbound(w)
  PROVE  HeartbeatInv'
<1> USE DEF HeartbeatInv
<1>1. PICK c \in Chat : c = chat[w] /\ c \in Reachable
  BY HeartbeatAssumption DEF RecordOutbound, AtReachable
<1>2. /\ beat[w] = "record" /\ beat' = [beat EXCEPT ![w] = "publish"]
      /\ rows' = [rows EXCEPT ![c] = @ + 1]
      /\ UNCHANGED <<optedIn, hour, until, todo, chat, sent, beats>>
  BY <1>1 DEF RecordOutbound, Sweeps
<1>3. HeartbeatTypeOK'
  BY <1>1, <1>2 DEF HeartbeatTypeOK
<1>4. /\ beat'[w] = "publish" /\ \A v \in Sweeper : v # w => beat'[v] = beat[v]
      /\ rows'[c] = rows[c] + 1 /\ \A d \in Chat : d # c => rows'[d] = rows[d]
      /\ rows[c] \in Nat /\ sent[c] \in Nat
  BY <1>1, <1>2 DEF HeartbeatTypeOK
<1>5. Cardinality(Making(c)') + 1 = Cardinality(Making(c)) /\ Cardinality(Making(c)') \in Nat
  <2>1. /\ Making(c) \in SUBSET Sweeper /\ Making(c)' \in SUBSET Sweeper
        /\ \A v \in Sweeper : v # w => (v \in Making(c) <=> v \in Making(c)')
        /\ w \in Making(c) /\ w \notin Making(c)'
    BY <1>1, <1>2, <1>4 DEF Making
  <2> QED
    BY <2>1, CountAfter
<1>6. /\ Cardinality(Publishing(c)') = Cardinality(Publishing(c)) + 1
      /\ Cardinality(Publishing(c)) \in Nat
  <2>1. /\ Publishing(c) \in SUBSET Sweeper /\ Publishing(c)' \in SUBSET Sweeper
        /\ \A v \in Sweeper : v # w => (v \in Publishing(c) <=> v \in Publishing(c)')
        /\ w \notin Publishing(c) /\ w \in Publishing(c)'
    BY <1>1, <1>2, <1>4 DEF Publishing
  <2> QED
    BY <2>1, CountAfter
<1>7. ASSUME NEW d \in Chat, d # c PROVE Making(d)' = Making(d) /\ Publishing(d)' = Publishing(d)
  BY <1>1, <1>2, <1>4, <1>7 DEF Making, Publishing
<1>8. /\ rows'[c] + Cardinality(Making(c)') = rows[c] + Cardinality(Making(c))
      /\ sent'[c] + Cardinality(Publishing(c)') <= rows'[c]
  <2>1. sent[c] + Cardinality(Publishing(c)) <= rows[c] /\ UNCHANGED sent
    BY <1>1, <1>2 DEF Spaced
  <2> QED
    BY <1>4, <1>5, <1>6, <2>1
<1>9. Spaced'
  <2>1. ASSUME NEW d \in Chat
        PROVE  /\ (rows'[d] + Cardinality(Making(d)')) * Interval <= until'[d]
               /\ until'[d] <= hour' + Interval
               /\ sent'[d] + Cardinality(Publishing(d)') <= rows'[d]
               /\ d \notin Reachable => rows'[d] = 0
    <3>1. CASE d = c
      BY <1>1, <1>2, <1>8, <3>1 DEF Spaced
    <3>2. CASE d # c
      BY <1>2, <1>4, <1>7, <3>2 DEF Spaced
    <3> QED
      BY <3>1, <3>2
  <2> QED
    BY <2>1 DEF Spaced
<1>10. AtReachable'
  BY <1>1, <1>2, <1>4 DEF AtReachable
<1> QED
  BY <1>3, <1>9, <1>10

\* _send: the recorded check-in is published.
LEMMA PublishKeepsInv ==
  ASSUME HeartbeatInv, NEW w \in Sweeper, Publish(w)
  PROVE  HeartbeatInv'
<1> USE DEF HeartbeatInv
<1>1. PICK c \in Chat : c = chat[w]
  BY HeartbeatAssumption DEF Publish, AtReachable
<1>2. /\ beat[w] = "publish" /\ beat' = [beat EXCEPT ![w] = "sweep"]
      /\ sent' = [sent EXCEPT ![c] = @ + 1] /\ chat' = [chat EXCEPT ![w] = NoChat]
      /\ UNCHANGED <<optedIn, hour, until, todo, rows, beats>>
  BY <1>1 DEF Publish, Sweeps
<1>3. HeartbeatTypeOK'
  BY <1>1, <1>2 DEF HeartbeatTypeOK
<1>4. /\ beat'[w] = "sweep"
      /\ \A v \in Sweeper : v # w => beat'[v] = beat[v] /\ chat'[v] = chat[v]
      /\ sent'[c] = sent[c] + 1 /\ \A d \in Chat : d # c => sent'[d] = sent[d]
      /\ rows[c] \in Nat /\ sent[c] \in Nat
  BY <1>1, <1>2 DEF HeartbeatTypeOK
<1>5. /\ Cardinality(Publishing(c)') + 1 = Cardinality(Publishing(c))
      /\ Cardinality(Publishing(c)') \in Nat
  <2>1. /\ Publishing(c) \in SUBSET Sweeper /\ Publishing(c)' \in SUBSET Sweeper
        /\ \A v \in Sweeper : v # w => (v \in Publishing(c) <=> v \in Publishing(c)')
        /\ w \in Publishing(c) /\ w \notin Publishing(c)'
    BY <1>1, <1>2, <1>4 DEF Publishing
  <2> QED
    BY <2>1, CountAfter
<1>6. ASSUME NEW d \in Chat
      PROVE  Making(d)' = Making(d) /\ (d # c => Publishing(d)' = Publishing(d))
  BY <1>1, <1>2, <1>4 DEF Making, Publishing
<1>7. sent'[c] + Cardinality(Publishing(c)') <= rows[c]
  <2>1. sent[c] + Cardinality(Publishing(c)) <= rows[c]
    BY <1>1 DEF Spaced
  <2> QED
    BY <1>4, <1>5, <2>1
<1>8. Spaced'
  <2>1. ASSUME NEW d \in Chat
        PROVE  /\ (rows'[d] + Cardinality(Making(d)')) * Interval <= until'[d]
               /\ until'[d] <= hour' + Interval
               /\ sent'[d] + Cardinality(Publishing(d)') <= rows'[d]
               /\ d \notin Reachable => rows'[d] = 0
    <3>1. CASE d = c
      BY <1>1, <1>2, <1>6, <1>7, <3>1 DEF Spaced
    <3>2. CASE d # c
      BY <1>2, <1>4, <1>6, <3>2 DEF Spaced
    <3> QED
      BY <3>1, <3>2
  <2> QED
    BY <2>1 DEF Spaced
<1>9. AtReachable'
  BY <1>2, <1>4 DEF AtReachable
<1> QED
  BY <1>3, <1>8, <1>9

\* Every step of the check-ins keeps their invariant.
LEMMA HeartbeatSteps ==
  ASSUME HeartbeatInv, HeartbeatNext
  PROVE  HeartbeatInv'
<1> USE HeartbeatAssumption DEF HeartbeatInv
<1>a. ASSUME Counted PROVE beats' \in 0..MaxBeats
  BY <1>a DEF Counted, HeartbeatTypeOK
<1>1. ASSUME NEW list \in SUBSET Chat, SetProactive(list) PROVE HeartbeatInv'
  <2>1. HeartbeatTypeOK'
    BY <1>1, <1>a DEF SetProactive, HeartbeatTypeOK
  <2> QED
    BY <1>1, <2>1 DEF SetProactive, Spaced, AtReachable, Making, Publishing
<1>2. ASSUME NEW w \in Sweeper, RunPass(w) PROVE HeartbeatInv'
  <2>1. HeartbeatTypeOK'
    BY <1>2, <1>a DEF RunPass, Sweeps, HeartbeatTypeOK
  <2>2. /\ beat'[w] = "sweep" /\ UNCHANGED <<until, rows, hour, sent>>
        /\ \A v \in Sweeper : v # w => beat'[v] = beat[v] /\ chat'[v] = chat[v]
    BY <1>2 DEF RunPass, Sweeps, HeartbeatTypeOK
  <2> QED
    BY <2>1, <2>2, LeavingKeepsInv
<1>3. ASSUME NEW w \in Sweeper, Generate(w) PROVE HeartbeatInv'
  <2>1. HeartbeatTypeOK'
    BY <1>3 DEF Generate, Sweeps, HeartbeatTypeOK
  <2>2. /\ beat[w] = "generate" /\ beat'[w] = "record" /\ chat'[w] = chat[w]
        /\ UNCHANGED <<until, rows, hour, sent>>
        /\ \A v \in Sweeper : v # w => beat'[v] = beat[v] /\ chat'[v] = chat[v]
    BY <1>3 DEF Generate, Sweeps, HeartbeatTypeOK
  <2> QED
    BY <2>1, <2>2, LeavingKeepsInv
<1>4. ASSUME NEW w \in Sweeper, NotSent(w) \/ PassEnds(w) PROVE HeartbeatInv'
  <2>1. HeartbeatTypeOK'
    BY <1>4 DEF NotSent, PassEnds, Sweeps, HeartbeatTypeOK
  <2>2. /\ beat'[w] \in {"idle", "sweep"} /\ UNCHANGED <<until, rows, hour, sent>>
        /\ \A v \in Sweeper : v # w => beat'[v] = beat[v] /\ chat'[v] = chat[v]
    BY <1>4 DEF NotSent, PassEnds, Sweeps, HeartbeatTypeOK
  <2> QED
    BY <2>1, <2>2, LeavingKeepsInv
<1>5. ASSUME NEW w \in Sweeper, NEW c \in Chat, NextChat(w, c) PROVE HeartbeatInv'
  <2>1. todo' \in [Sweeper -> SUBSET Chat] /\ UNCHANGED <<optedIn, hour, rows, sent, beats>>
    BY <1>5 DEF NextChat, Sweeps, HeartbeatTypeOK
  <2>2. CASE /\ Found(c) /\ AcquireOnce(c) /\ chat' = [chat EXCEPT ![w] = c]
             /\ Sweeps(w, "generate")
    <3>1. beat' = [beat EXCEPT ![w] = "generate"] /\ beat[w] = "sweep"
      BY <1>5, <2>2 DEF NextChat, Sweeps
    <3>2. until' \in [Chat -> Nat]
      BY <2>2 DEF AcquireOnce, HeartbeatTypeOK
    <3>3. HeartbeatTypeOK'
      BY <2>1, <2>2, <3>1, <3>2 DEF HeartbeatTypeOK
    <3> QED
      BY <2>1, <2>2, <3>1, <3>3, AcquiringKeepsInv
  <2>3. CASE Sweeps(w, "sweep") /\ UNCHANGED <<chat, until>>
    <3>1. HeartbeatTypeOK'
      BY <2>1, <2>3 DEF Sweeps, HeartbeatTypeOK
    <3>2. /\ beat'[w] = "sweep"
          /\ \A v \in Sweeper : v # w => beat'[v] = beat[v] /\ chat'[v] = chat[v]
      BY <2>3 DEF Sweeps, HeartbeatTypeOK
    <3> QED
      BY <2>1, <2>3, <3>1, <3>2, LeavingKeepsInv
  <2> QED
    BY <1>5, <2>2, <2>3 DEF NextChat
<1>6. ASSUME HourPasses PROVE HeartbeatInv'
  <2>1. HeartbeatTypeOK' /\ hour \in Nat /\ hour' = hour + 1
    BY <1>6, <1>a DEF HourPasses, HeartbeatTypeOK
  <2>2. \A c \in Chat : until[c] \in Nat /\ until[c] <= hour + Interval
    BY DEF HeartbeatTypeOK, Spaced
  <2>3. \A c \in Chat : until[c] <= hour' + Interval
    BY <2>1, <2>2
  <2>4. UNCHANGED <<until, rows, sent, beat, chat>>
    BY <1>6 DEF HourPasses
  <2>5. \A c \in Chat : UNCHANGED <<Making(c), Publishing(c)>>
    BY <2>4 DEF Making, Publishing
  <2>6. Spaced' /\ AtReachable'
    BY <2>3, <2>4, <2>5 DEF Spaced, AtReachable
  <2> QED
    BY <2>1, <2>6
<1> QED
  BY <1>1, <1>2, <1>3, <1>4, <1>5, <1>6, RecordKeepsInv, PublishKeepsInv DEF HeartbeatNext

\* run_pass and _send: however many workers sweep, crash and start again, and
\* however the list is edited, a conversation gets at most one check-in per
\* interval, each one published is recorded, and unreachable ones get none.
THEOREM CheckInsKeepTheirDistance == Spec => []CheckInsSpaced
<1>1. Init => HeartbeatInv
  <2> SUFFICES ASSUME Init PROVE HeartbeatInv
    OBVIOUS
  <2>1. HeartbeatTypeOK /\ AtReachable
    BY HeartbeatAssumption DEF Init, HeartbeatInit, HeartbeatTypeOK, AtReachable
  <2>2. \A c \in Chat : Making(c) = {} /\ Publishing(c) = {}
    BY DEF Init, HeartbeatInit, Making, Publishing
  <2>3. \A c \in Chat : rows[c] = 0 /\ sent[c] = 0 /\ until[c] = 0
    BY DEF Init, HeartbeatInit
  <2>4. hour = 0 /\ Interval \in Nat /\ Cardinality({}) = 0
    BY HeartbeatAssumption, FS_EmptySet DEF Init, HeartbeatInit
  <2>5. Spaced
    BY <2>2, <2>3, <2>4 DEF Spaced
  <2> QED
    BY <2>1, <2>5 DEF HeartbeatInv
<1>2. HeartbeatInv /\ [Next]_vars => HeartbeatInv'
  <2>1. ASSUME HeartbeatInv, UNCHANGED heartbeatVars PROVE HeartbeatInv'
    BY <2>1 DEF HeartbeatInv, HeartbeatTypeOK, Spaced, AtReachable, Making, Publishing,
                heartbeatVars
  <2> QED
    BY <2>1, HeartbeatSteps DEF Next, CoreStep, ItemStep, HeartbeatStep, vars
<1>3. HeartbeatInv => CheckInsSpaced
  <2> SUFFICES ASSUME HeartbeatInv, NEW c \in Chat
               PROVE  /\ sent[c] <= rows[c] /\ rows[c] <= 1 + hour \div Interval
                      /\ c \notin Reachable => rows[c] = 0
    BY DEF CheckInsSpaced
  <2>1. /\ rows[c] \in Nat /\ sent[c] \in Nat /\ hour \in Nat /\ until[c] \in Nat
        /\ Interval \in Nat \ {0}
    BY HeartbeatAssumption DEF HeartbeatInv, HeartbeatTypeOK
  <2>2. /\ IsFiniteSet(Making(c)) /\ IsFiniteSet(Publishing(c))
    BY HeartbeatAssumption, FS_Subset DEF Making, Publishing
  <2>3. Cardinality(Making(c)) \in Nat /\ Cardinality(Publishing(c)) \in Nat
    BY <2>2, FS_CardinalityType
  <2>4. /\ (rows[c] + Cardinality(Making(c))) * Interval <= until[c]
        /\ until[c] <= hour + Interval
        /\ sent[c] + Cardinality(Publishing(c)) <= rows[c]
        /\ c \notin Reachable => rows[c] = 0
    BY DEF HeartbeatInv, Spaced
  <2>5. rows[c] * Interval <= (rows[c] + Cardinality(Making(c))) * Interval
    BY ONLY <2>1, <2>3
  <2>6. rows[c] * Interval <= hour + Interval
    BY <2>1, <2>3, <2>4, <2>5
  <2>7. rows[c] <= 1 + hour \div Interval
    BY <2>1, <2>6, IntervalsBegun
  <2> QED
    BY <2>1, <2>3, <2>4, <2>7
<1> QED
  BY <1>1, <1>2, <1>3, PTL DEF Spec
=============================================================================
