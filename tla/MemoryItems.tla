---------------------------- MODULE MemoryItems ----------------------------
(***************************************************************************)
(* Versioned memories: repositories/memory.py and the jobs that write      *)
(* through it - extraction and flush in the agent workers, consolidation,  *)
(* personality learning and the lifecycle pass in the maintenance worker,  *)
(* /forget, and the operator's edits in the api.  Transactions run under   *)
(* READ COMMITTED: a statement sees the rows committed when it began, and  *)
(* a row it waited for is tested again once it is locked.                  *)
(***************************************************************************)
EXTENDS Naturals, FiniteSets

CONSTANTS
    Proc,          \* processes that run memory jobs
    Subject,       \* subject identities
    Conversation,
    Direct,        \* the direct conversations among them
    Members,       \* Conversation -> the subjects that talk in it
    Global,        \* the boundary of GLOBAL memories
    None,
    MaxJobs,       \* bound: jobs; a job inserts at most one row
    MaxTime        \* bound: the clock

ASSUME MemoryAssumption ==
    /\ IsFiniteSet(Proc)
    /\ Direct \subseteq Conversation
    /\ Members \in [Conversation -> SUBSET Subject]
    /\ Global \notin Subject \cup Conversation
    /\ None \notin Subject \cup Conversation \cup {Global}
    /\ Subject \cap Conversation = {}
    /\ MaxJobs \in Nat /\ MaxTime \in Nat \ {0}

\* Scope, owner and privacy of a row: every writer makes a subject's rows
\* PRIVATE, a conversation's SHARED and global ones PUBLIC.
Boundary == Subject \cup Conversation \cup {Global}
Item == 1..MaxJobs
Time == 1..MaxTime

VARIABLES
    at,        \* Item -> its boundary, None for no row
    rel,       \* Item -> its kind is RELATIONSHIP and its scope SUBJECT
    invalid,   \* Item -> invalid_at, 0 for NULL
    by,        \* Item -> invalidated_by, 0 for NULL
    prev,      \* Item -> the memory it supersedes, 0 for none
    revoked,   \* Item -> revoked_at, 0 for NULL
    count,     \* rows inserted so far, in the order of created_at
    clock,
    once,      \* keys of acquire_once that have not expired
    jobs,      \* jobs begun
    step,      \* p -> the step its job is at
    where,     \* p -> the boundary its job writes to
    seen,      \* p -> the rows its last query returned
    op,        \* p -> the merge decision
    target,    \* p -> the row the decision names, 0 for none
    stamp,     \* p -> the time it passes to the store
    overlapped, \* history: a write missed, or went behind, another one's version
    loose       \* history: subjects for whom apply_merge made a relationship row
                \* that replaces none

rowVars == <<at, rel, invalid, by, prev, revoked, count>>
jobVars == <<step, where, seen, op, target, stamp>>
itemVars == <<rowVars, clock, once, jobs, jobVars, overlapped, loose>>

OnceKey == {<<"flush", c>> : c \in Conversation} \cup {<<"consolidation", Global>>}

RowTypeOK ==
    /\ at \in [Item -> Boundary \cup {None}]
    /\ rel \in [Item -> BOOLEAN]
    /\ invalid \in [Item -> 0..MaxTime]
    /\ by \in [Item -> 0..MaxJobs]
    /\ prev \in [Item -> 0..MaxJobs]
    /\ revoked \in [Item -> 0..MaxTime]
    /\ count \in 0..MaxJobs

JobTypeOK ==
    /\ clock \in Time
    /\ once \subseteq OnceKey
    /\ jobs \in 0..MaxJobs
    /\ step \in [Proc -> {"idle", "decide", "apply", "upsert", "lock", "forget"}]
    /\ where \in [Proc -> Boundary \cup {None}]
    /\ seen \in [Proc -> SUBSET Item]
    /\ op \in [Proc -> {"NOOP", "ADD", "UPDATE", "DELETE"}]
    /\ target \in [Proc -> 0..MaxJobs]
    /\ stamp \in [Proc -> 0..MaxTime]
    /\ overlapped \in BOOLEAN /\ loose \subseteq Subject

ItemsTypeOK == RowTypeOK /\ JobTypeOK

ItemsInit ==
    /\ at = [i \in Item |-> None]
    /\ rel = [i \in Item |-> FALSE]
    /\ invalid = [i \in Item |-> 0]
    /\ by = [i \in Item |-> 0]
    /\ prev = [i \in Item |-> 0]
    /\ revoked = [i \in Item |-> 0]
    /\ count = 0 /\ clock = 1 /\ once = {} /\ jobs = 0
    /\ step = [p \in Proc |-> "idle"]
    /\ where = [p \in Proc |-> None]
    /\ seen = [p \in Proc |-> {}]
    /\ op = [p \in Proc |-> "NOOP"]
    /\ target = [p \in Proc |-> 0]
    /\ stamp = [p \in Proc |-> 0]
    /\ overlapped = FALSE /\ loose = {}

(***************************************************************************)
(* Queries.                                                                *)
(***************************************************************************)
\* revoked_at IS NULL AND (invalid_at IS NULL OR invalid_at > :now)
Active(i, now) ==
    /\ at[i] # None /\ revoked[i] = 0
    /\ invalid[i] = 0 \/ invalid[i] > now

\* similar_for_merge: active rows of exactly the candidate's boundary; which
\* of them are similar is up to the embedding.
SimilarForMerge(b, now) == {i \in Item : at[i] = b /\ Active(i, now)}

\* search, before its LIMIT: global rows and those of the subject and of the
\* conversation; the subject's are PRIVATE.
Search(s, c, private, now) ==
    {i \in Item :
        /\ Active(i, now)
        /\ at[i] \in {Global, s, c}
        /\ private \/ at[i] \notin Subject}

\* retrieval_block: private rows only in a direct conversation.
RetrievalBlock(s, c, now) == Search(s, c, c \in Direct, now)

\* relationship_for, before its LIMIT 1.
Relationships(s, now) == {i \in Item : at[i] = s /\ rel[i] /\ Active(i, now)}

\* active_expressions: rows of the conversation; any of them may be an expression.
ActiveExpressions(c, now) == {i \in Item : at[i] = c /\ Active(i, now)}

\* personality_block: the relationship and, in a group, the local expressions.
PersonalityBlock(s, c, now) ==
    Relationships(s, now) \cup (IF c \in Direct THEN {} ELSE ActiveExpressions(c, now))

\* The memories that go into the prompt of a turn.
MemoryBlocks(s, c, now) == RetrievalBlock(s, c, now) \cup PersonalityBlock(s, c, now)

\* The adjacency of _connected_memory_ids: ids, also of deleted rows, that
\* invalidated_by and supersedes name.
Linked(i) == {by[i], prev[i]} \ {0}

\* _connected_memory_ids: the least set with the row in which no link leads out,
\* from a row to an id it names or back.
ConnectedMemories(start, rows) ==
    LET Closed(S) == \A i \in rows : \A j \in Linked(i) : i \in S <=> j \in S
    IN  {j \in Item : \A S \in SUBSET Item : start \in S /\ Closed(S) => j \in S}

\* memory_history: the connected rows of the same boundary.
MemoryHistory(i) ==
    LET rows == {j \in Item : at[i] # None /\ at[j] = at[i]}
    IN  rows \cap ConnectedMemories(i, rows)

\* recent_consolidation_contexts: who spoke where.
Contexts == {x \in Subject \X Conversation : x[1] \in Members[x[2]]}

\* recent_group_learning_contexts.
GroupContexts == Conversation \ Direct

\* ORDER BY created_at DESC LIMIT 1.
Newest(rows) == {i \in rows : \A j \in rows : j <= i}

(***************************************************************************)
(* Writes of the store, inside one transaction.                            *)
(***************************************************************************)
\* Mutant: the successor does not say what it supersedes.
InsertUnlinked(b, kind, old, now) ==
    LET new == count + 1 IN
    /\ count' = new
    /\ at' = [at EXCEPT ![new] = b]
    /\ rel' = [rel EXCEPT ![new] = kind]
    /\ invalid' = [i \in Item |-> IF i = old THEN now ELSE invalid[i]]
    /\ by' = [i \in Item |-> IF i = old THEN new ELSE by[i]]
    /\ UNCHANGED <<prev, revoked>>

\* _insert of a row; the one it supersedes, if any, becomes invalid.
Insert(b, kind, old, now) ==
    LET new == count + 1 IN
    /\ count' = new
    /\ at' = [at EXCEPT ![new] = b]
    /\ rel' = [rel EXCEPT ![new] = kind]
    /\ prev' = [prev EXCEPT ![new] = old]
    /\ invalid' = [i \in Item |-> IF i = old THEN now ELSE invalid[i]]
    /\ by' = [i \in Item |-> IF i = old THEN new ELSE by[i]]
    /\ UNCHANGED revoked

Revoke(rows, now) ==
    /\ revoked' = [i \in Item |-> IF i \in rows THEN now ELSE revoked[i]]
    /\ UNCHANGED <<at, rel, invalid, by, prev, count>>

(***************************************************************************)
(* Jobs.                                                                   *)
(***************************************************************************)
JobOver(p) ==
    /\ step' = [step EXCEPT ![p] = "idle"]
    /\ where' = [where EXCEPT ![p] = None]
    /\ seen' = [seen EXCEPT ![p] = {}]
    /\ op' = [op EXCEPT ![p] = "NOOP"]
    /\ target' = [target EXCEPT ![p] = 0]
    /\ stamp' = [stamp EXCEPT ![p] = 0]

JobBegins(p) == step[p] = "idle" /\ jobs < MaxJobs /\ jobs' = jobs + 1

\* merge_item: the candidate is embedded and compared.  (A failing embedding
\* or extraction ends the job without a trace.)
MergeItem(p, b) ==
    /\ step' = [step EXCEPT ![p] = "decide"]
    /\ where' = [where EXCEPT ![p] = b]
    /\ \E rows \in SUBSET SimilarForMerge(b, clock) : seen' = [seen EXCEPT ![p] = rows]
    /\ UNCHANGED <<op, target, stamp>>

\* _parse_candidates: the model names facts about the sender or the conversation.
Candidates(s, c) == {s, c}

\* extract_and_store after a turn.
ExtractAndStore(p, s, c) ==
    /\ JobBegins(p) /\ s \in Members[c]
    /\ \E b \in Candidates(s, c) : MergeItem(p, b)
    /\ UNCHANGED <<rowVars, clock, once, overlapped, loose>>

\* flush_history before a turn, once per conversation and debounce time.
FlushHistory(p, s, c) ==
    /\ JobBegins(p) /\ s \in Members[c]
    /\ <<"flush", c>> \notin once
    /\ once' = once \cup {<<"flush", c>>}
    /\ \E b \in Candidates(s, c) : MergeItem(p, b)
    /\ UNCHANGED <<rowVars, clock, overlapped, loose>>

\* run_pass of the consolidation, once per interval: a candidate of any scope.
Consolidate(p) ==
    /\ JobBegins(p)
    /\ <<"consolidation", Global>> \notin once
    /\ once' = once \cup {<<"consolidation", Global>>}
    /\ \E x \in Contexts : \E b \in {x[1], x[2], Global} : MergeItem(p, b)
    /\ UNCHANGED <<rowVars, clock, overlapped, loose>>

\* What _parse_merge_decision lets through: ADD without a target, UPDATE and
\* DELETE of a row that was shown.  Anything else is a NOOP.
Decisions(p) ==
    {<<"ADD", 0>>} \cup {<<o, i>> : o \in {"UPDATE", "DELETE"}, i \in seen[p]}

\* The decision, ADD when nothing is similar; the time is taken for apply_merge.
DecideMerge(p) ==
    /\ step[p] = "decide"
    /\ \E d \in Decisions(p) :
           /\ op' = [op EXCEPT ![p] = d[1]]
           /\ target' = [target EXCEPT ![p] = d[2]]
    /\ step' = [step EXCEPT ![p] = "apply"]
    /\ stamp' = [stamp EXCEPT ![p] = clock]
    /\ seen' = [seen EXCEPT ![p] = {}]
    /\ UNCHANGED <<where, rowVars, clock, once, jobs, overlapped, loose>>

\* A NOOP, or a model that fails, leaves only an audit record.
MergeNoop(p) ==
    /\ step[p] = "decide" /\ seen[p] # {}
    /\ JobOver(p)
    /\ UNCHANGED <<rowVars, clock, once, jobs, overlapped, loose>>

\* Mutant: the locked row is tested for revoked_at only.
TargetNotRevoked(p) == at[target[p]] = where[p] /\ revoked[target[p]] = 0

\* Mutant: the locked row is tested for invalid_at only.
TargetNotInvalid(p) ==
    LET i == target[p] IN
    at[i] = where[p] /\ (invalid[i] = 0 \/ invalid[i] > stamp[p])

\* The row of the decision, locked: still active and of the boundary.
TargetQualifies(p) == Active(target[p], stamp[p]) /\ at[target[p]] = where[p]

\* The kind of a merged row is the candidate's or the decision's, either way a
\* string of the model's: nothing keeps it from being RELATIONSHIP.
Kinds(b) == IF b \in Subject THEN BOOLEAN ELSE {FALSE}

\* A relationship row that replaces none is noted.
Loosen(b, extra) == loose' = IF extra THEN loose \cup {b} ELSE loose

\* apply_merge, in one transaction.
ApplyMerge(p) ==
    /\ step[p] = "apply"
    /\ \/ /\ op[p] = "ADD"
          /\ \E kind \in Kinds(where[p]) :
                 Insert(where[p], kind, 0, stamp[p]) /\ Loosen(where[p], kind)
          /\ UNCHANGED overlapped
       \/ /\ op[p] = "UPDATE" /\ TargetQualifies(p)
          /\ \E kind \in Kinds(where[p]) :
                 /\ Insert(where[p], kind, target[p], stamp[p])
                 /\ Loosen(where[p], kind /\ ~rel[target[p]])
          /\ overlapped' = (overlapped \/ invalid[target[p]] > stamp[p])
       \/ /\ op[p] = "DELETE" /\ TargetQualifies(p)
          /\ invalid' = [invalid EXCEPT ![target[p]] = stamp[p]]
          /\ by' = [by EXCEPT ![target[p]] = 0]
          /\ UNCHANGED <<at, rel, prev, revoked, count, overlapped, loose>>
       \/ /\ op[p] # "ADD" /\ ~TargetQualifies(p)
          /\ UNCHANGED <<rowVars, overlapped, loose>>
    /\ JobOver(p)
    /\ UNCHANGED <<clock, once, jobs>>

\* upsert_relationship is called, with a time of the caller's.
UpsertRelationship(p, s) ==
    /\ JobBegins(p)
    /\ step' = [step EXCEPT ![p] = "upsert"]
    /\ where' = [where EXCEPT ![p] = s]
    /\ stamp' = [stamp EXCEPT ![p] = clock]
    /\ UNCHANGED <<seen, op, target, rowVars, clock, once, overlapped, loose>>

\* The operator edits a relationship.
EditRelationship(p, s) == UpsertRelationship(p, s)

\* _learn_context: an expression of the group, or the relationship of one who
\* spoke in it, with the time the pass began.
LearnContext(p, c) ==
    \/ /\ JobBegins(p) /\ MergeItem(p, c)
       /\ UNCHANGED <<rowVars, clock, once, overlapped, loose>>
    \/ \E s \in Members[c] : UpsertRelationship(p, s)

\* run_pass of the learner.  Its key changes with every message of the group.
LearnPersonality(p) == \E c \in GroupContexts : LearnContext(p, c)

\* Its SELECT ... FOR UPDATE takes a snapshot ...
UpsertReads(p) ==
    /\ step[p] = "upsert"
    /\ step' = [step EXCEPT ![p] = "lock"]
    /\ seen' = [seen EXCEPT ![p] = Relationships(where[p], stamp[p])]
    /\ UNCHANGED <<where, op, target, stamp, rowVars, clock, once, jobs, overlapped, loose>>

\* ... and locks the newest row of it that still qualifies.
UpsertLocks(p) == seen[p] \cap Relationships(where[p], stamp[p])

\* The successor is inserted and the locked row, if any, is invalidated.
UpsertApplies(p) ==
    LET rows == UpsertLocks(p) IN
    /\ step[p] = "lock"
    /\ \E old \in IF rows = {} THEN {0} ELSE Newest(rows) :
           /\ Insert(where[p], TRUE, old, stamp[p])
           /\ overlapped' = \/ overlapped
                            \/ Relationships(where[p], stamp[p]) \ seen[p] # {}
                            \/ old # 0 /\ invalid[old] > stamp[p]
    /\ JobOver(p)
    /\ UNCHANGED <<clock, once, jobs, loose>>

\* /forget of subject s, in conversation c: the UPDATE of revoke_for takes its
\* snapshot ...
Forget(p, s, c) ==
    /\ JobBegins(p) /\ s \in Members[c]
    /\ step' = [step EXCEPT ![p] = "forget"]
    /\ where' = [where EXCEPT ![p] = s]
    /\ stamp' = [stamp EXCEPT ![p] = clock]
    /\ \E scope \in {{s}, {s, c}} :
           seen' = [seen EXCEPT ![p] = {i \in Item : at[i] \in scope /\ revoked[i] = 0}]
    /\ UNCHANGED <<op, target, rowVars, clock, once, overlapped, loose>>

\* ... and revokes the rows of it that are still there and not revoked.
RevokeFor(p) ==
    /\ step[p] = "forget"
    /\ Revoke({i \in seen[p] : at[i] # None /\ revoked[i] = 0}, stamp[p])
    /\ JobOver(p)
    /\ UNCHANGED <<clock, once, jobs, overlapped, loose>>

\* The operator revokes one memory.
RevokeMemory(i) ==
    /\ at[i] # None /\ revoked[i] = 0
    /\ jobs < MaxJobs /\ jobs' = jobs + 1
    /\ Revoke({i}, clock)
    /\ UNCHANGED <<clock, once, jobVars, overlapped, loose>>

\* run_lifecycle: memories nobody recalled fade (how far is not modelled: any
\* valid row may fall under the floor), and rows revoked long ago are deleted;
\* invalidated_by references are set to NULL with them.
RunLifecycle ==
    \E faded \in SUBSET {i \in Item : at[i] # None /\ revoked[i] = 0 /\ invalid[i] = 0} :
        LET deleted == {i \in Item : revoked[i] # 0 /\ revoked[i] < clock}
            Clear(f, default) == [i \in Item |-> IF i \in deleted THEN default ELSE f[i]]
        IN  /\ faded \cup deleted # {}
            /\ jobs < MaxJobs /\ jobs' = jobs + 1
            /\ at' = Clear(at, None) /\ rel' = Clear(rel, FALSE)
            /\ prev' = Clear(prev, 0) /\ revoked' = Clear(revoked, 0)
            /\ invalid' = [i \in Item |->
                   CASE i \in faded -> clock [] i \in deleted -> 0 [] OTHER -> invalid[i]]
            /\ by' = [i \in Item |-> IF {i, by[i]} \cap deleted # {} THEN 0 ELSE by[i]]
            /\ UNCHANGED <<count, clock, once, jobVars, overlapped, loose>>

\* Time passes, and keys expire.
Tick ==
    /\ clock < MaxTime
    /\ clock' = clock + 1
    /\ once' = {}
    /\ UNCHANGED <<rowVars, jobs, jobVars, overlapped, loose>>

\* A process ends, or a job raises: its open transaction is rolled back.
JobCrashes(p) ==
    /\ step[p] # "idle"
    /\ JobOver(p)
    /\ UNCHANGED <<rowVars, clock, once, jobs, overlapped, loose>>

ItemsNext ==
    \/ \E p \in Proc, s \in Subject, c \in Conversation :
           ExtractAndStore(p, s, c) \/ FlushHistory(p, s, c) \/ Forget(p, s, c)
    \/ \E p \in Proc, s \in Subject : EditRelationship(p, s)
    \/ \E p \in Proc :
           \/ Consolidate(p) \/ LearnPersonality(p) \/ DecideMerge(p) \/ MergeNoop(p) \/ ApplyMerge(p)
           \/ UpsertReads(p) \/ UpsertApplies(p) \/ RevokeFor(p) \/ JobCrashes(p)
    \/ \E i \in Item : RevokeMemory(i)
    \/ RunLifecycle \/ Tick

ItemsSpec == ItemsInit /\ [][ItemsNext]_itemVars

(***************************************************************************)
(* Properties.                                                             *)
(***************************************************************************)
\* apply_merge and upsert_relationship never touch a memory once it is
\* revoked, nor give it a successor, whatever they read before; only the
\* lifecycle pass may delete it.
RevokedIsFrozen ==
    [][\A i \in Item : revoked[i] # 0 =>
           \/ at'[i] = None
           \/ /\ revoked'[i] = revoked[i] /\ invalid'[i] = invalid[i]
              /\ by'[i] \in {by[i], 0}
              /\ count' # count => prev'[count'] # i]_itemVars

\* No turn is shown two versions of one memory, by recall or as a trait of
\* the personality, and a subject has one relationship version as long as no
\* merge made a relationship row of its own there, unless a write overlapped
\* another one's transaction or used an older time.
OneVersion ==
    overlapped \/
    /\ \A x \in Contexts : LET shown == MemoryBlocks(x[1], x[2], clock) IN
           \A i, j \in shown : i < j => j \notin MemoryHistory(i)
    /\ \A s \in Subject \ loose : \A i, j \in Relationships(s, clock) : i = j

\* The links of the version history agree: the row that invalidated a memory
\* is a later one of the same boundary and names it as its predecessor.
LinksAgree ==
    \A i \in Item : by[i] # 0 =>
        /\ at[i] # None /\ at[by[i]] = at[i]
        /\ by[i] > i /\ prev[by[i]] = i
        /\ invalid[i] # 0
=============================================================================
