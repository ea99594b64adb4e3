----------------------------- MODULE AgentTurn -----------------------------
(***************************************************************************)
(* The agent turn of engine/agent_turns.py: the token budget, the bounded  *)
(* loop of model replies and tool calls, per-call approvals (tools and     *)
(* repositories/safety.py) and the accounting after the reply, run by      *)
(* workers that share Redis counters, approval rows and the model router's *)
(* cool-downs.  A worker runs one turn at a time and the conversation      *)
(* lease (module AgentWorker) admits one turn per conversation.            *)
(***************************************************************************)
EXTENDS ModelRouter

CONSTANTS
    Conversation,
    None,                 \* no conversation
    GlobalCeiling,        \* agent_daily_token_ceiling
    ConversationCeiling,  \* agent_conversation_daily_token_ceiling
    MaxToolCalls,         \* tool_max_calls_per_turn
    MaxReplies,           \* bound: model replies that fit before the deadline
    FlushTokens,          \* bound: tokens of one memory flush
    ExtractTokens,        \* bound: tokens of one memory extraction
    MaxRequest,           \* bound: approval requests
    MaxDay,               \* bound: days
    MaxEvents             \* bound: turns, crashes, errors, failovers, edits and
                          \* midnights, together

ASSUME TurnAssumption ==
    /\ IsFiniteSet(Worker)
    /\ None \notin Conversation
    /\ GlobalCeiling \in Nat \ {0}
    /\ ConversationCeiling \in Nat \ {0}
    /\ {MaxToolCalls, MaxReplies, FlushTokens, ExtractTokens,
        MaxRequest, MaxEvents} \subseteq Nat
    /\ MaxDay \in Nat \ {0}

Day == 1..MaxDay
Request == 1..MaxRequest

\* What one turn can bill: every model reply costs one token here.
TurnMax == FlushTokens + MaxReplies + ExtractTokens

VARIABLES
    pc,       \* w -> where its turn is
    conv,     \* w -> the conversation of its turn
    dayOf,    \* w -> the day the turn began
    billDay,  \* w -> the day its bill counts for
    then,     \* w -> where the turn goes on after a bill
    spent,    \* w -> tokens used and not billed yet
    used,     \* w -> _ToolLoopState.calls_used
    ran,      \* w -> tools run in this turn
    calls,    \* w -> tool calls of the last reply that are still to be handled
    replies,  \* w -> model replies in this turn
    asked,    \* w -> the approval request of the call, 0 for none
    today,
    globalSpent,  \* Day -> tokens
    convSpent,    \* Day -> Conversation -> tokens
    status,       \* Request -> the row's status
    due,          \* the requests past their expires_at
    deciding,     \* the requests an operator found in time and has not updated yet
    approvedRuns, \* history: the requests whose tool ran
    notices,      \* history: turns answered with the budget notice
    events        \* turns begun and faults met

\* What a turn keeps between its steps, besides pc.
turnState == <<conv, dayOf, billDay, then, spent, used, ran, calls, replies, asked>>
turnVars == <<pc, turnState>>
budgetVars == <<today, globalSpent, convSpent, notices>>
approvalVars == <<status, due, deciding, approvedRuns>>
vars == <<routerVars, turnVars, budgetVars, approvalVars, events>>

InLoop == {"select", "try", "tools", "approve", "expire", "run"}
Stage == InLoop \cup {"idle", "admitGlobal", "admitConv", "flush",
                      "billGlobal", "billConv", "extract", "done"}
Outcome == {"PENDING", "APPROVED", "REJECTED", "EXPIRED"}

\* What a worker keeps of its turn.
LoopTypeOK ==
    /\ pc \in [Worker -> Stage]
    /\ conv \in [Worker -> Conversation \cup {None}]
    /\ dayOf \in [Worker -> Day] /\ billDay \in [Worker -> Day]
    /\ then \in [Worker -> {"select", "extract", "done"}]
    /\ spent \in [Worker -> Nat] /\ used \in [Worker -> Nat]
    /\ ran \in [Worker -> Nat] /\ calls \in [Worker -> Nat]
    /\ replies \in [Worker -> 0..MaxReplies]
    /\ asked \in [Worker -> 0..MaxRequest]

\* The counters in Redis and the approval rows.
SharedTypeOK ==
    /\ today \in Day
    /\ globalSpent \in [Day -> Nat]
    /\ convSpent \in [Day -> [Conversation -> Nat]]
    /\ status \in [Request -> Outcome \cup {"NONE"}]
    /\ due \subseteq Request /\ deciding \subseteq Request
    /\ approvedRuns \subseteq Request
    /\ notices \in Nat /\ events \in 0..MaxEvents

TurnTypeOK == RouterTypeOK /\ LoopTypeOK /\ SharedTypeOK

Init ==
    /\ RouterInit
    /\ pc = [w \in Worker |-> "idle"]
    /\ conv = [w \in Worker |-> None]
    /\ dayOf = [w \in Worker |-> 1] /\ billDay = [w \in Worker |-> 1]
    /\ then = [w \in Worker |-> "done"]
    /\ spent = [w \in Worker |-> 0] /\ used = [w \in Worker |-> 0]
    /\ ran = [w \in Worker |-> 0] /\ calls = [w \in Worker |-> 0]
    /\ replies = [w \in Worker |-> 0] /\ asked = [w \in Worker |-> 0]
    /\ today = 1
    /\ globalSpent = [d \in Day |-> 0]
    /\ convSpent = [d \in Day |-> [c \in Conversation |-> 0]]
    /\ status = [i \in Request |-> "NONE"]
    /\ due = {} /\ deciding = {} /\ approvedRuns = {}
    /\ notices = 0 /\ events = 0

Goto(w, stage) == pc' = [pc EXCEPT ![w] = stage]

\* The turn's own state is gone when the turn is over.
TurnOver(w) ==
    /\ Goto(w, "idle")
    /\ conv' = [conv EXCEPT ![w] = None]
    /\ dayOf' = [dayOf EXCEPT ![w] = 1] /\ billDay' = [billDay EXCEPT ![w] = 1]
    /\ then' = [then EXCEPT ![w] = "done"]
    /\ spent' = [spent EXCEPT ![w] = 0] /\ used' = [used EXCEPT ![w] = 0]
    /\ ran' = [ran EXCEPT ![w] = 0] /\ calls' = [calls EXCEPT ![w] = 0]
    /\ replies' = [replies EXCEPT ![w] = 0] /\ asked' = [asked EXCEPT ![w] = 0]

(***************************************************************************)
(* Admission: the two ceilings are read one after the other.               *)
(***************************************************************************)
\* run_turn begins under the lease of its conversation; the day is fixed here.
Begin(w, c) ==
    /\ pc[w] = "idle" /\ events < MaxEvents
    /\ \A v \in Worker : conv[v] # c
    /\ Goto(w, "admitGlobal")
    /\ conv' = [conv EXCEPT ![w] = c]
    /\ dayOf' = [dayOf EXCEPT ![w] = today]
    /\ events' = events + 1
    /\ UNCHANGED <<billDay, then, spent, used, ran, calls, replies, asked>>
    /\ UNCHANGED <<routerVars, budgetVars, approvalVars>>

\* A ceiling that is reached: the turn is recorded as budget_exceeded and
\* answered with the budget notice, which after_reply follows, too.
Refused(w) ==
    /\ Goto(w, "extract")
    /\ notices' = notices + 1
    /\ UNCHANGED <<turnState, routerVars, today, globalSpent, convSpent, approvalVars, events>>

Allows(w, spentSoFar, ceiling, stage) ==
    \/ spentSoFar >= ceiling /\ Refused(w)
    \/ /\ spentSoFar < ceiling
       /\ Goto(w, stage)
       /\ UNCHANGED <<turnState, routerVars, budgetVars, approvalVars, events>>

AllowsGlobal(w) ==
    /\ pc[w] = "admitGlobal"
    /\ Allows(w, globalSpent[dayOf[w]], GlobalCeiling, "admitConv")

\* Mutant: the ceiling itself is still allowed.
AllowsConversationAtCeiling(w) ==
    /\ pc[w] = "admitConv"
    /\ Allows(w, convSpent[dayOf[w]][conv[w]], ConversationCeiling + 1, "flush")

AllowsConversation(w) ==
    /\ pc[w] = "admitConv"
    /\ Allows(w, convSpent[dayOf[w]][conv[w]], ConversationCeiling, "flush")

(***************************************************************************)
(* Billing: two increments, of the global and of the conversation's key.   *)
(***************************************************************************)
\* consume() of n tokens for a day; nothing is written when n = 0.
Consume(w, n, day, next) ==
    /\ Goto(w, IF n = 0 THEN next ELSE "billGlobal")
    /\ spent' = [spent EXCEPT ![w] = n]
    /\ billDay' = [billDay EXCEPT ![w] = day]
    /\ then' = [then EXCEPT ![w] = next]

BillGlobal(w) ==
    /\ pc[w] = "billGlobal"
    /\ globalSpent' = [globalSpent EXCEPT ![billDay[w]] = @ + spent[w]]
    /\ Goto(w, "billConv")
    /\ UNCHANGED <<turnState, routerVars, today, convSpent, notices, approvalVars, events>>

BillConversation(w) ==
    /\ pc[w] = "billConv"
    /\ convSpent' = [convSpent EXCEPT ![billDay[w]][conv[w]] = @ + spent[w]]
    /\ Goto(w, then[w])
    /\ spent' = [spent EXCEPT ![w] = 0]
    /\ UNCHANGED <<conv, dayOf, billDay, then, used, ran, calls, replies, asked>>
    /\ UNCHANGED <<routerVars, today, globalSpent, notices, approvalVars, events>>

\* _history_window: the messages that no longer fit are flushed to memory by
\* a model call of its own, billed to the day it is then.
FlushHistory(w) ==
    /\ pc[w] = "flush"
    /\ \E n \in 0..FlushTokens : Consume(w, n, today, "select")
    /\ UNCHANGED <<conv, dayOf, used, ran, calls, replies, asked>>
    /\ UNCHANGED <<routerVars, budgetVars, approvalVars, events>>

(***************************************************************************)
(* The loop of model replies and tool calls, under the turn's deadline.    *)
(***************************************************************************)
\* llm.complete(): the router picks the candidates of the profile's tier.
AskModel(w) ==
    /\ pc[w] = "select" /\ replies[w] < MaxReplies
    /\ \E t \in Tier : SelectCandidates(w, t)
    /\ Goto(w, "try")
    /\ UNCHANGED <<turnState, budgetVars, approvalVars, events>>

\* A reply: its tokens are added up; with tool calls the loop goes on, also
\* when no tools were offered any more.
ModelReplies(w) ==
    /\ pc[w] = "try"
    /\ ChannelAnswers(w)
    /\ replies' = [replies EXCEPT ![w] = @ + 1]
    /\ \/ /\ \E n \in 1..(MaxToolCalls + 1) : calls' = [calls EXCEPT ![w] = n]
          /\ spent' = [spent EXCEPT ![w] = @ + 1]
          /\ Goto(w, "tools")
          /\ UNCHANGED <<billDay, then>>
       \/ /\ Consume(w, spent[w] + 1, dayOf[w], "extract")
          /\ UNCHANGED calls
    /\ UNCHANGED <<conv, dayOf, used, ran, asked>>
    /\ UNCHANGED <<budgetVars, approvalVars, events>>

ModelFailsOver(w) ==
    /\ pc[w] = "try" /\ events < MaxEvents
    /\ events' = events + 1
    /\ ChannelFails(w)
    /\ UNCHANGED <<turnVars, budgetVars, approvalVars>>

\* _finish_error: the turn is recorded as an error and answered with a
\* fallback.  What its calls have cost is recorded but not billed.
FinishError(w) ==
    /\ Goto(w, "extract")
    /\ spent' = [spent EXCEPT ![w] = 0]
    /\ calls' = [calls EXCEPT ![w] = 0] /\ asked' = [asked EXCEPT ![w] = 0]
    /\ UNCHANGED <<conv, dayOf, billDay, then, used, ran, replies>>

\* An LlmError reaches run_turn.
ModelFails(w) ==
    /\ pc[w] = "try"
    /\ ChannelRejects(w) \/ Exhausted(w)
    /\ FinishError(w)
    /\ UNCHANGED <<budgetVars, approvalVars, events>>

\* asyncio.timeout ends the loop wherever it is; the approval row stays.
DeadlinePasses(w) ==
    /\ pc[w] \in InLoop
    /\ FinishError(w) /\ CallEnds(w)
    /\ UNCHANGED <<budgetVars, approvalVars, events>>

\* A call that is answered without running anything: bad arguments, the
\* tool limit, an unknown tool, a missing capability, a refused approval.
CallRefused(w) ==
    /\ used' = [used EXCEPT ![w] = @ + 1]
    /\ calls' = [calls EXCEPT ![w] = @ - 1]
    /\ asked' = [asked EXCEPT ![w] = 0]
    /\ Goto(w, "tools")
    /\ UNCHANGED <<conv, dayOf, billDay, then, spent, ran, replies>>

\* Mutant: the limit counts one call too few.
CallAllowedOneMore(w) == used[w] <= MaxToolCalls

CallAllowed(w) == used[w] < MaxToolCalls

\* _execute_call of the next call: refused, run at once (no approval needed,
\* or a standing one), or a request for an approval of its own.
ExecuteCall(w) ==
    /\ pc[w] = "tools" /\ calls[w] > 0
    /\ \/ CallRefused(w) /\ UNCHANGED status
       \/ /\ CallAllowed(w)
          /\ Goto(w, "run")
          /\ UNCHANGED <<turnState, status>>
       \/ /\ CallAllowed(w)
          /\ \E i \in Request :
                 /\ status[i] = "NONE" /\ \A j \in 1..(i - 1) : status[j] # "NONE"
                 /\ status' = [status EXCEPT ![i] = "PENDING"]
                 /\ asked' = [asked EXCEPT ![w] = i]
          /\ Goto(w, "approve")
          /\ UNCHANGED <<conv, dayOf, billDay, then, spent, used, ran, calls, replies>>
    /\ UNCHANGED <<routerVars, budgetVars, due, deciding, approvedRuns, events>>

\* Every call of the reply has its result: the model is asked again.
CallsDone(w) ==
    /\ pc[w] = "tools" /\ calls[w] = 0
    /\ Goto(w, "select")
    /\ UNCHANGED <<turnState, routerVars, budgetVars, approvalVars, events>>

\* Mutant: any decided row counts as approved.
PollDecided(w) ==
    /\ pc[w] = "approve"
    /\ status[asked[w]] # "PENDING"
    /\ Goto(w, "run")
    /\ UNCHANGED <<turnState, routerVars, budgetVars, approvalVars, events>>

\* wait() polls the row; a PENDING one past its time is expired in a second
\* transaction.
PollApproval(w) ==
    /\ pc[w] = "approve"
    /\ \/ status[asked[w]] = "APPROVED" /\ Goto(w, "run") /\ UNCHANGED turnState
       \/ status[asked[w]] \in {"REJECTED", "EXPIRED"} /\ CallRefused(w)
       \/ /\ status[asked[w]] = "PENDING" /\ asked[w] \in due
          /\ Goto(w, "expire") /\ UNCHANGED turnState
    /\ UNCHANGED <<routerVars, budgetVars, approvalVars, events>>

\* expire() answers EXPIRED whether or not it still found the row PENDING.
ExpireApproval(w) ==
    /\ pc[w] = "expire"
    /\ status' = [status EXCEPT ![asked[w]] = IF @ = "PENDING" THEN "EXPIRED" ELSE @]
    /\ CallRefused(w)
    /\ UNCHANGED <<routerVars, budgetVars, due, deciding, approvedRuns, events>>

\* tool.run: it may time out or fail, but it has run.
ToolRuns(w) ==
    /\ pc[w] = "run"
    /\ ran' = [ran EXCEPT ![w] = @ + 1]
    /\ used' = [used EXCEPT ![w] = @ + 1]
    /\ calls' = [calls EXCEPT ![w] = @ - 1]
    /\ asked' = [asked EXCEPT ![w] = 0]
    /\ approvedRuns' = approvedRuns \cup ({asked[w]} \ {0})
    /\ Goto(w, "tools")
    /\ UNCHANGED <<conv, dayOf, billDay, then, spent, replies>>
    /\ UNCHANGED <<routerVars, budgetVars, status, due, deciding, events>>

\* after_reply: memory extraction, billed to the day it is then.
Extract(w) ==
    /\ pc[w] = "extract"
    /\ \E n \in 0..ExtractTokens : Consume(w, n, today, "done")
    /\ UNCHANGED <<conv, dayOf, used, ran, calls, replies, asked>>
    /\ UNCHANGED <<routerVars, budgetVars, approvalVars, events>>

\* The handler returns and the lease is released.
End(w) ==
    /\ pc[w] = "done"
    /\ TurnOver(w)
    /\ UNCHANGED <<routerVars, budgetVars, approvalVars, events>>

(***************************************************************************)
(* Time, operators and faults.                                             *)
(***************************************************************************)
\* (A row that is no longer PENDING is left alone by everyone.)
RequestExpires(i) ==
    /\ status[i] = "PENDING" /\ i \notin due
    /\ due' = due \cup {i}
    /\ UNCHANGED <<routerVars, turnVars, budgetVars, status, deciding, approvedRuns, events>>

\* decide(): the time is taken first and compared in the UPDATE.
OperatorDecides(i) ==
    /\ status[i] = "PENDING" /\ i \notin due \cup deciding
    /\ deciding' = deciding \cup {i}
    /\ UNCHANGED <<routerVars, turnVars, budgetVars, status, due, approvedRuns, events>>

DecisionLands(i) ==
    /\ i \in deciding
    /\ deciding' = deciding \ {i}
    /\ \/ status[i] = "PENDING"
          /\ \E s \in {"APPROVED", "REJECTED"} : status' = [status EXCEPT ![i] = s]
       \/ status[i] # "PENDING" /\ UNCHANGED status
    /\ UNCHANGED <<routerVars, turnVars, budgetVars, due, approvedRuns, events>>

\* pending(), the operator's list, first expires what is past its time.
OperatorLists ==
    /\ \E i \in due : status[i] = "PENDING"
    /\ status' = [i \in Request |->
           IF i \in due /\ status[i] = "PENDING" THEN "EXPIRED" ELSE status[i]]
    /\ UNCHANGED <<routerVars, turnVars, budgetVars, due, deciding, approvedRuns, events>>

Midnight ==
    /\ today < MaxDay /\ events < MaxEvents
    /\ events' = events + 1
    /\ today' = today + 1
    /\ UNCHANGED <<routerVars, turnVars, globalSpent, convSpent, notices, approvalVars>>

\* An error that leaves run_turn (a store or Redis failing): the handler fails.
TurnRaises(w) ==
    /\ pc[w] # "idle" /\ events < MaxEvents
    /\ events' = events + 1
    /\ TurnOver(w) /\ CallEnds(w)
    /\ UNCHANGED <<budgetVars, approvalVars>>

Crash(w) ==
    /\ pc[w] # "idle" /\ events < MaxEvents
    /\ events' = events + 1
    /\ TurnOver(w) /\ RouterRestarts(w)
    /\ UNCHANGED <<budgetVars, approvalVars>>

\* The operator writes another channel list.
ChannelsEdited ==
    /\ events < MaxEvents
    /\ events' = events + 1
    /\ EditChannels
    /\ UNCHANGED <<turnVars, budgetVars, approvalVars>>

TurnStep(w) ==
    \/ AllowsGlobal(w) \/ AllowsConversation(w)
    \/ BillGlobal(w) \/ BillConversation(w)
    \/ FlushHistory(w) \/ AskModel(w)
    \/ ModelReplies(w) \/ ModelFailsOver(w) \/ ModelFails(w)
    \/ ExecuteCall(w) \/ CallsDone(w) \/ PollApproval(w) \/ ExpireApproval(w)
    \/ ToolRuns(w) \/ Extract(w) \/ End(w) \/ DeadlinePasses(w)

Next ==
    \/ \E w \in Worker : TurnStep(w) \/ TurnRaises(w) \/ Crash(w)
    \/ \E w \in Worker, c \in Conversation : Begin(w, c)
    \/ \E i \in Request : RequestExpires(i) \/ OperatorDecides(i) \/ DecisionLands(i)
    \/ OperatorLists \/ Midnight \/ ChannelsEdited

Spec == Init /\ [][Next]_vars

(***************************************************************************)
(* Properties.                                                             *)
(***************************************************************************)
Contract == INSTANCE TurnContract WITH
    open <- {w \in Worker : pc[w] # "idle"},
    runs <- ran,
    owed <- spent,
    ledger <- convSpent

\* run_turn implements the contract of a turn: tools run at most
\* tool_max_calls_per_turn times however many calls the replies ask for, and
\* what consume() writes to the conversation's ledger is what the turn owed,
\* once, also when the turn fails, times out or is started again.
ImplementsContract == Contract!ContractSpec

\* A call that needs an approval runs only when its row says APPROVED, and
\* keeps saying so, however the decision, the expiry by the poller, the
\* expiry by the operator's list and the deadline interleave.
RunsAreApproved ==
    /\ \A i \in approvedRuns : status[i] = "APPROVED"
    /\ \A w \in Worker : pc[w] = "run" /\ asked[w] # 0 => status[asked[w]] = "APPROVED"

\* The ceilings are checked before a turn and charged after its calls: that of
\* a conversation is overshot by less than one turn, over midnight, too, and
\* the global one by at most a turn of every worker, and both by one memory
\* extraction for every turn that they refuse.
BudgetOvershoot ==
    \A d \in Day :
        /\ \A c \in Conversation :
               convSpent[d][c] < ConversationCeiling + TurnMax + notices * ExtractTokens
        /\ globalSpent[d] < GlobalCeiling + Cardinality(Worker) * TurnMax
                                         + notices * ExtractTokens
=============================================================================
