----------------------------- MODULE CoreMemory -----------------------------
(***************************************************************************)
(* Core memory blocks: repositories/core_memory.py, written by the tools   *)
(* memory_append and memory_replace in the agent workers and by the        *)
(* operator in the api.  A block is a set of notes of one token each.      *)
(***************************************************************************)
EXTENDS Naturals, FiniteSets

CONSTANTS
    Editor,       \* processes that write blocks
    Block,        \* the persona block and the profile block of every subject
    ToolBudget,   \* token budget of the tools' settings
    Budgets,      \* token budgets an operator may set
    NoBlock,
    MaxNotes      \* bound: notes written

ASSUME CoreAssumption ==
    /\ NoBlock \notin Block
    /\ ToolBudget \in Nat \ {0}
    /\ Budgets \subseteq Nat \ {0}
    /\ MaxNotes \in Nat

Note == 1..MaxNotes

VARIABLES
    content,  \* Block -> its notes
    budget,   \* Block -> its token_budget, 0 for no row
    editing,  \* Editor -> the block whose advisory lock it holds
    view,     \* Editor -> the content it has read
    notes,    \* notes written so far
    kept      \* history: Block -> the notes written since the last replacement

coreVars == <<content, budget, editing, view, notes, kept>>

CoreTypeOK ==
    /\ content \in [Block -> SUBSET Note]
    /\ budget \in [Block -> Budgets \cup {0, ToolBudget}]
    /\ editing \in [Editor -> Block \cup {NoBlock}]
    /\ view \in [Editor -> SUBSET Note]
    /\ notes \in 0..MaxNotes
    /\ kept \in [Block -> SUBSET Note]

CoreInit ==
    /\ content = [b \in Block |-> {}]
    /\ budget = [b \in Block |-> 0]
    /\ editing = [e \in Editor |-> NoBlock]
    /\ view = [e \in Editor |-> {}]
    /\ notes = 0
    /\ kept = [b \in Block |-> {}]

\* Mutant: no advisory lock; two editors may read before either writes.
ReadUnlocked(e, b) ==
    /\ editing[e] = NoBlock
    /\ editing' = [editing EXCEPT ![e] = b]
    /\ view' = [view EXCEPT ![e] = content[b]]
    /\ UNCHANGED <<content, budget, notes, kept>>

\* _write begins: the advisory lock of the block, then its row.
LockAndRead(e, b) ==
    /\ editing[e] = NoBlock
    /\ \A d \in Editor : editing[d] # b
    /\ editing' = [editing EXCEPT ![e] = b]
    /\ view' = [view EXCEPT ![e] = content[b]]
    /\ UNCHANGED <<content, budget, notes, kept>>

\* The transaction ends: the lock is released.
Unlock(e) ==
    /\ editing' = [editing EXCEPT ![e] = NoBlock]
    /\ view' = [view EXCEPT ![e] = {}]

\* The new content is written if it is within the budget.
Write(b, next, limit, ghost) ==
    /\ Cardinality(next) <= limit
    /\ content' = [content EXCEPT ![b] = next]
    /\ budget' = [budget EXCEPT ![b] = limit]
    /\ kept' = [kept EXCEPT ![b] = ghost]
    /\ notes' = notes + 1

\* An append keeps the budget of the row, if there is one.
AppendBudget(b) == IF budget[b] = 0 THEN ToolBudget ELSE budget[b]

\* append: one more note at the end of what was read.
Append(e, b) ==
    /\ editing[e] = b /\ notes < MaxNotes
    /\ Write(b, view[e] \cup {notes + 1}, AppendBudget(b), kept[b] \cup {notes + 1})
    /\ Unlock(e)

\* replace: new content and a new budget.
Replace(e, b, next, limit) ==
    /\ editing[e] = b /\ notes < MaxNotes
    /\ Write(b, next, limit, next)
    /\ Unlock(e)

\* memory_replace: never blank, with the budget of the settings.
MemoryReplace(e, b) == Replace(e, b, {notes + 1}, ToolBudget)

\* The operator's PUT, which may leave the block blank.
ReplaceCoreBlock(e, b) ==
    \E limit \in Budgets, next \in {{}, {notes + 1}} : Replace(e, b, next, limit)

\* The content is over the budget (CoreBlockLimitError), the process ends or
\* the store fails: the transaction is rolled back.
WriteFails(e, b) ==
    /\ editing[e] = b
    /\ Unlock(e)
    /\ UNCHANGED <<content, budget, notes, kept>>

CoreNext ==
    \E e \in Editor, b \in Block :
        \/ LockAndRead(e, b) \/ Append(e, b) \/ WriteFails(e, b)
        \/ MemoryReplace(e, b) \/ ReplaceCoreBlock(e, b)

CoreSpec == CoreInit /\ [][CoreNext]_coreVars

\* No note is lost: whatever tools and operators write at the same time, a
\* block holds exactly what was appended since it was last replaced, and
\* never more than the token budget in force.
NotesAreKept ==
    \A b \in Block :
        /\ content[b] = kept[b]
        /\ budget[b] # 0 => Cardinality(content[b]) <= budget[b]
=============================================================================
