-------------------------- MODULE AgentTurnProofs --------------------------
(***************************************************************************)
(* Agent turns, for any number of workers, conversations, tool calls and   *)
(* approval requests: the turn keeps its types, a tool that needs an       *)
(* approval runs only with one, the turn implements its contract, and the  *)
(* token ceilings are overshot by the turns in flight only.                *)
(***************************************************************************)
EXTENDS AgentTurn, FiniteSetTheorems, TLAPS

USE TurnAssumption

\* The stages at which a call of the reply is being handled, and those at
\* which the turn owes nothing.
AtCall == {"approve", "expire", "run"}
Clear == {"idle", "admitGlobal", "admitConv", "flush", "extract", "done"}

\* What each stage of a turn takes for granted.
StageFacts(w) ==
    /\ pc[w] = "idle" => ran[w] = 0
    /\ pc[w] # "idle" => conv[w] \in Conversation
    /\ pc[w] \in Clear => spent[w] = 0
    /\ pc[w] = "try" => replies[w] < MaxReplies
    /\ ran[w] <= used[w]
    /\ pc[w] \in AtCall => used[w] < MaxToolCalls /\ calls[w] > 0
    /\ pc[w] \in {"approve", "expire"} => asked[w] # 0
    /\ pc[w] \notin AtCall => asked[w] = 0

Stages == \A w \in Worker : StageFacts(w)

\* The inductive invariant.
TurnInv == LoopTypeOK /\ SharedTypeOK /\ Stages /\ RunsAreApproved

\* What a worker keeps of its turn, one value at a time.
LEMMA Update ==
  ASSUME NEW S, NEW f \in [Worker -> S], NEW w \in Worker, NEW v \in S
  PROVE  [f EXCEPT ![w] = v] \in [Worker -> S]
OBVIOUS

\* A turn that is over leaves values of the right type.
LEMMA TurnOverTypes ==
  ASSUME LoopTypeOK, NEW w \in Worker, TurnOver(w)
  PROVE  LoopTypeOK'
<1>1. pc' \in [Worker -> Stage]
  BY Update DEF TurnOver, LoopTypeOK, Goto, Stage
<1>2. conv' \in [Worker -> Conversation \cup {None}]
  BY Update DEF TurnOver, LoopTypeOK
<1>3. dayOf' \in [Worker -> Day] /\ billDay' \in [Worker -> Day]
  BY Update DEF TurnOver, LoopTypeOK, Day
<1>4. then' \in [Worker -> {"select", "extract", "done"}]
  BY Update DEF TurnOver, LoopTypeOK
<1>5. /\ spent' \in [Worker -> Nat] /\ used' \in [Worker -> Nat]
      /\ ran' \in [Worker -> Nat] /\ calls' \in [Worker -> Nat]
  BY Update DEF TurnOver, LoopTypeOK
<1>6. replies' \in [Worker -> 0..MaxReplies] /\ asked' \in [Worker -> 0..MaxRequest]
  BY Update DEF TurnOver, LoopTypeOK
<1> QED
  BY <1>1, <1>2, <1>3, <1>4, <1>5, <1>6 DEF LoopTypeOK

\* So does a turn that ends in an error.
LEMMA FinishErrorTypes ==
  ASSUME LoopTypeOK, NEW w \in Worker, FinishError(w)
  PROVE  LoopTypeOK'
<1>1. pc' \in [Worker -> Stage]
  BY Update DEF FinishError, LoopTypeOK, Goto, Stage
<1>2. spent' \in [Worker -> Nat] /\ calls' \in [Worker -> Nat]
  BY Update DEF FinishError, LoopTypeOK
<1>3. asked' \in [Worker -> 0..MaxRequest]
  BY Update DEF FinishError, LoopTypeOK
<1> QED
  BY <1>1, <1>2, <1>3 DEF FinishError, LoopTypeOK

\* A call that is answered without running takes one off the calls.
LEMMA CallRefusedTypes ==
  ASSUME LoopTypeOK, NEW w \in Worker, calls[w] > 0, CallRefused(w)
  PROVE  LoopTypeOK'
<1>1. pc' \in [Worker -> Stage]
  BY Update DEF CallRefused, LoopTypeOK, Goto, Stage, InLoop
<1>2. used[w] + 1 \in Nat /\ calls[w] - 1 \in Nat /\ 0 \in 0..MaxRequest
  BY DEF LoopTypeOK
<1>3. used' \in [Worker -> Nat] /\ calls' \in [Worker -> Nat]
  BY <1>2, Update DEF CallRefused, LoopTypeOK
<1>4. asked' \in [Worker -> 0..MaxRequest]
  BY <1>2, Update DEF CallRefused, LoopTypeOK
<1> QED
  BY <1>1, <1>3, <1>4 DEF CallRefused, LoopTypeOK

\* consume(): the tokens, the day and where the turn goes on.
LEMMA ConsumeTypes ==
  ASSUME LoopTypeOK, NEW w \in Worker, NEW n \in Nat, NEW d \in Day,
         NEW next \in {"select", "extract", "done"}, Consume(w, n, d, next)
  PROVE  /\ pc' \in [Worker -> Stage] /\ spent' \in [Worker -> Nat]
         /\ billDay' \in [Worker -> Day] /\ then' \in [Worker -> {"select", "extract", "done"}]
<1>1. pc' \in [Worker -> Stage]
  BY Update DEF Consume, LoopTypeOK, Goto, Stage, InLoop
<1>2. spent' \in [Worker -> Nat] /\ billDay' \in [Worker -> Day]
  BY Update DEF Consume, LoopTypeOK
<1>3. then' \in [Worker -> {"select", "extract", "done"}]
  BY Update DEF Consume, LoopTypeOK
<1> QED
  BY <1>1, <1>2, <1>3

\* Every step keeps the types of the turns.
LEMMA LoopTypes ==
  ASSUME TurnInv, [Next]_vars
  PROVE  LoopTypeOK'
<1> USE DEF TurnInv
<1>1. ASSUME NEW w \in Worker, AllowsGlobal(w) \/ AllowsConversation(w) PROVE LoopTypeOK'
  BY <1>1 DEF AllowsGlobal, AllowsConversation, Allows, Refused, Goto, turnState, LoopTypeOK, Stage
<1>2. ASSUME NEW w \in Worker, BillGlobal(w) PROVE LoopTypeOK'
  BY <1>2 DEF BillGlobal, Goto, turnState, LoopTypeOK, Stage
<1>3. ASSUME NEW w \in Worker, BillConversation(w) PROVE LoopTypeOK'
  <2>1. pc' \in [Worker -> Stage]
    BY <1>3, Update DEF BillConversation, Goto, LoopTypeOK, Stage, InLoop
  <2>2. spent' \in [Worker -> Nat]
    BY <1>3, Update DEF BillConversation, LoopTypeOK
  <2> QED
    BY <1>3, <2>1, <2>2 DEF BillConversation, LoopTypeOK
<1>4. ASSUME NEW w \in Worker, FlushHistory(w) PROVE LoopTypeOK'
  <2>1. PICK n \in 0..FlushTokens : Consume(w, n, today, "select")
    BY <1>4 DEF FlushHistory
  <2>2. n \in Nat /\ today \in Day
    BY <2>1 DEF SharedTypeOK
  <2> QED
    BY <1>4, <2>1, <2>2, ConsumeTypes DEF FlushHistory, LoopTypeOK
<1>5. ASSUME NEW w \in Worker, AskModel(w) PROVE LoopTypeOK'
  BY <1>5 DEF AskModel, Goto, turnState, LoopTypeOK, Stage, InLoop
<1>6. ASSUME NEW w \in Worker, ModelReplies(w) PROVE LoopTypeOK'
  <2>1. spent[w] + 1 \in Nat /\ replies[w] + 1 \in 0..MaxReplies /\ dayOf[w] \in Day
    BY <1>6 DEF ModelReplies, LoopTypeOK, Stages, StageFacts
  <2>2. replies' \in [Worker -> 0..MaxReplies]
    BY <1>6, <2>1, Update DEF ModelReplies, LoopTypeOK
  <2>3. CASE /\ \E n \in 1..(MaxToolCalls + 1) : calls' = [calls EXCEPT ![w] = n]
             /\ spent' = [spent EXCEPT ![w] = @ + 1]
             /\ Goto(w, "tools")
             /\ UNCHANGED <<billDay, then>>
    <3>1. calls' \in [Worker -> Nat] /\ spent' \in [Worker -> Nat]
      BY <2>1, <2>3, Update DEF LoopTypeOK
    <3>2. pc' \in [Worker -> Stage]
      BY <2>3, Update DEF Goto, LoopTypeOK, Stage, InLoop
    <3> QED
      BY <1>6, <2>2, <2>3, <3>1, <3>2 DEF ModelReplies, LoopTypeOK
  <2>4. CASE Consume(w, spent[w] + 1, dayOf[w], "extract") /\ UNCHANGED calls
    <3>1. /\ pc' \in [Worker -> Stage] /\ spent' \in [Worker -> Nat]
          /\ billDay' \in [Worker -> Day] /\ then' \in [Worker -> {"select", "extract", "done"}]
      BY <2>1, <2>4, ConsumeTypes
    <3> QED
      BY <1>6, <2>2, <2>4, <3>1 DEF ModelReplies, LoopTypeOK
  <2> QED
    BY <1>6, <2>3, <2>4 DEF ModelReplies
<1>7. ASSUME NEW w \in Worker, ModelFailsOver(w) PROVE LoopTypeOK'
  BY <1>7 DEF ModelFailsOver, turnVars, turnState, LoopTypeOK
<1>8. ASSUME NEW w \in Worker, ModelFails(w) \/ DeadlinePasses(w) PROVE LoopTypeOK'
  BY <1>8, FinishErrorTypes DEF ModelFails, DeadlinePasses
<1>9. ASSUME NEW w \in Worker, ExecuteCall(w) PROVE LoopTypeOK'
  <2>1. CASE CallRefused(w)
    BY <1>9, <2>1, CallRefusedTypes DEF ExecuteCall
  <2>2. CASE Goto(w, "run") /\ UNCHANGED turnState
    BY <2>2 DEF Goto, turnState, LoopTypeOK, Stage, InLoop
  <2>3. CASE /\ \E i \in Request : asked' = [asked EXCEPT ![w] = i]
             /\ Goto(w, "approve")
             /\ UNCHANGED <<conv, dayOf, billDay, then, spent, used, ran, calls, replies>>
    <3>1. asked' \in [Worker -> 0..MaxRequest]
      BY <2>3, Update DEF LoopTypeOK, Request
    <3>2. pc' \in [Worker -> Stage]
      BY <2>3, Update DEF Goto, LoopTypeOK, Stage, InLoop
    <3> QED
      BY <2>3, <3>1, <3>2 DEF LoopTypeOK
  <2> QED
    BY <1>9, <2>1, <2>2, <2>3 DEF ExecuteCall
<1>10. ASSUME NEW w \in Worker, CallsDone(w) PROVE LoopTypeOK'
  BY <1>10 DEF CallsDone, Goto, turnState, LoopTypeOK, Stage, InLoop
<1>11. ASSUME NEW w \in Worker, PollApproval(w) PROVE LoopTypeOK'
  <2>1. calls[w] > 0
    BY <1>11 DEF PollApproval, Stages, StageFacts, AtCall
  <2>2. CASE (Goto(w, "run") \/ Goto(w, "expire")) /\ UNCHANGED turnState
    BY <2>2 DEF Goto, turnState, LoopTypeOK, Stage, InLoop
  <2> QED
    BY <1>11, <2>1, <2>2, CallRefusedTypes DEF PollApproval
<1>12. ASSUME NEW w \in Worker, ExpireApproval(w) PROVE LoopTypeOK'
  <2>1. calls[w] > 0 /\ CallRefused(w)
    BY <1>12 DEF ExpireApproval, Stages, StageFacts, AtCall
  <2> QED
    BY <2>1, CallRefusedTypes
<1>13. ASSUME NEW w \in Worker, ToolRuns(w) PROVE LoopTypeOK'
  <2>1. /\ ran[w] + 1 \in Nat /\ used[w] + 1 \in Nat /\ calls[w] - 1 \in Nat
        /\ 0 \in 0..MaxRequest
    BY <1>13 DEF ToolRuns, Stages, StageFacts, AtCall, LoopTypeOK
  <2>2. ran' \in [Worker -> Nat] /\ used' \in [Worker -> Nat] /\ calls' \in [Worker -> Nat]
    BY <1>13, <2>1, Update DEF ToolRuns, LoopTypeOK
  <2>3. asked' \in [Worker -> 0..MaxRequest]
    BY <1>13, <2>1, Update DEF ToolRuns, LoopTypeOK
  <2>4. pc' \in [Worker -> Stage]
    BY <1>13, Update DEF ToolRuns, Goto, LoopTypeOK, Stage, InLoop
  <2> QED
    BY <1>13, <2>2, <2>3, <2>4 DEF ToolRuns, LoopTypeOK
<1>14. ASSUME NEW w \in Worker, Extract(w) PROVE LoopTypeOK'
  <2>1. PICK n \in 0..ExtractTokens : Consume(w, n, today, "done")
    BY <1>14 DEF Extract
  <2>2. n \in Nat /\ today \in Day
    BY <2>1 DEF SharedTypeOK
  <2> QED
    BY <1>14, <2>1, <2>2, ConsumeTypes DEF Extract, LoopTypeOK
<1>15. ASSUME NEW w \in Worker, End(w) \/ TurnRaises(w) \/ Crash(w) PROVE LoopTypeOK'
  BY <1>15, TurnOverTypes DEF End, TurnRaises, Crash
<1>16. ASSUME NEW w \in Worker, NEW c \in Conversation, Begin(w, c) PROVE LoopTypeOK'
  BY <1>16 DEF Begin, Goto, LoopTypeOK, SharedTypeOK, Stage
<1>17. CASE UNCHANGED turnVars
  BY <1>17 DEF turnVars, turnState, LoopTypeOK
<1>18. ASSUME NEW i \in Request, RequestExpires(i) \/ OperatorDecides(i) \/ DecisionLands(i)
       PROVE UNCHANGED turnVars
  BY <1>18 DEF RequestExpires, OperatorDecides, DecisionLands
<1>19. OperatorLists \/ Midnight \/ ChannelsEdited \/ UNCHANGED vars => UNCHANGED turnVars
  BY DEF OperatorLists, Midnight, ChannelsEdited, vars
<1> QED
  BY <1>1, <1>2, <1>3, <1>4, <1>5, <1>6, <1>7, <1>8, <1>9, <1>10, <1>11, <1>12, <1>13,
     <1>14, <1>15, <1>16, <1>17, <1>18, <1>19 DEF Next, TurnStep

\* A step of the turns that leaves the counters and the rows alone, but for
\* the number of events.
LEMMA QuietShared ==
  ASSUME SharedTypeOK, UNCHANGED <<budgetVars, approvalVars>>, events' \in 0..MaxEvents
  PROVE  SharedTypeOK'
BY DEF SharedTypeOK, budgetVars, approvalVars

\* Every step keeps the types of the counters and the rows.
LEMMA SharedTypes ==
  ASSUME TurnInv, [Next]_vars
  PROVE  SharedTypeOK'
<1> USE DEF TurnInv
<1>a. events \in 0..MaxEvents /\ (events < MaxEvents => events + 1 \in 0..MaxEvents)
  BY DEF SharedTypeOK
<1>b. notices \in Nat /\ notices + 1 \in Nat
  BY DEF SharedTypeOK
<1>1. ASSUME NEW w \in Worker, AllowsGlobal(w) \/ AllowsConversation(w) PROVE SharedTypeOK'
  <2>1. CASE Refused(w)
    <3>1. notices' \in Nat /\ UNCHANGED <<today, globalSpent, convSpent, approvalVars, events>>
      BY <1>b, <2>1 DEF Refused
    <3> QED
      BY <3>1 DEF SharedTypeOK, approvalVars
  <2>2. CASE UNCHANGED <<budgetVars, approvalVars, events>>
    BY <1>a, <2>2, QuietShared
  <2> QED
    BY <1>1, <2>1, <2>2 DEF AllowsGlobal, AllowsConversation, Allows
<1>2. ASSUME NEW w \in Worker, BillGlobal(w) PROVE SharedTypeOK'
  <2>1. globalSpent \in [Day -> Nat] /\ billDay[w] \in Day /\ spent[w] \in Nat
    BY DEF LoopTypeOK, SharedTypeOK
  <2>2. globalSpent' = [globalSpent EXCEPT ![billDay[w]] = @ + spent[w]]
    BY <1>2 DEF BillGlobal
  <2>3. globalSpent[billDay[w]] + spent[w] \in Nat
    BY <2>1
  <2>4. globalSpent' \in [Day -> Nat]
    BY ONLY <2>1, <2>2, <2>3
  <2> QED
    BY <1>2, <2>4 DEF BillGlobal, SharedTypeOK, approvalVars
<1>3. ASSUME NEW w \in Worker, BillConversation(w) PROVE SharedTypeOK'
  <2>1. /\ convSpent \in [Day -> [Conversation -> Nat]]
        /\ billDay[w] \in Day /\ conv[w] \in Conversation /\ spent[w] \in Nat
    BY <1>3 DEF LoopTypeOK, SharedTypeOK, Stages, StageFacts, BillConversation
  <2>2. convSpent' = [convSpent EXCEPT ![billDay[w]][conv[w]] = @ + spent[w]]
    BY <1>3 DEF BillConversation
  <2>3. convSpent[billDay[w]][conv[w]] + spent[w] \in Nat
    BY <2>1
  <2>4. convSpent' \in [Day -> [Conversation -> Nat]]
    BY ONLY <2>1, <2>2, <2>3
  <2> QED
    BY <1>3, <2>4 DEF BillConversation, SharedTypeOK, approvalVars
<1>4. ASSUME NEW w \in Worker,
             \/ FlushHistory(w) \/ AskModel(w) \/ ModelReplies(w) \/ ModelFails(w)
             \/ CallsDone(w) \/ PollApproval(w) \/ Extract(w) \/ End(w) \/ DeadlinePasses(w)
      PROVE  SharedTypeOK'
  <2>1. UNCHANGED <<budgetVars, approvalVars, events>>
    BY <1>4 DEF FlushHistory, AskModel, ModelReplies, ModelFails, CallsDone, PollApproval,
                Extract, End, DeadlinePasses
  <2> QED
    BY <1>a, <2>1, QuietShared
<1>5. ASSUME NEW w \in Worker, ModelFailsOver(w) \/ TurnRaises(w) \/ Crash(w) PROVE SharedTypeOK'
  <2>1. UNCHANGED <<budgetVars, approvalVars>> /\ events < MaxEvents /\ events' = events + 1
    BY <1>5 DEF ModelFailsOver, TurnRaises, Crash
  <2> QED
    BY <1>a, <2>1, QuietShared
<1>6. ASSUME NEW w \in Worker, NEW c \in Conversation, Begin(w, c) PROVE SharedTypeOK'
  <2>1. UNCHANGED <<budgetVars, approvalVars>> /\ events < MaxEvents /\ events' = events + 1
    BY <1>6 DEF Begin
  <2> QED
    BY <1>a, <2>1, QuietShared
<1>c. ASSUME UNCHANGED <<budgetVars, due, deciding, approvedRuns, events>>,
             status' \in [Request -> Outcome \cup {"NONE"}]
      PROVE  SharedTypeOK'
  BY <1>c DEF SharedTypeOK, budgetVars
<1>d. status \in [Request -> Outcome \cup {"NONE"}]
  BY DEF SharedTypeOK
<1>7. ASSUME NEW w \in Worker, ExecuteCall(w) PROVE SharedTypeOK'
  <2>1. \/ UNCHANGED status
        \/ \E i \in Request : status' = [status EXCEPT ![i] = "PENDING"]
    BY <1>7 DEF ExecuteCall
  <2>2. status' \in [Request -> Outcome \cup {"NONE"}]
    BY ONLY <1>d, <2>1 DEF Outcome
  <2> QED
    BY <1>7, <1>c, <2>2 DEF ExecuteCall
<1>8. ASSUME NEW w \in Worker, ExpireApproval(w) PROVE SharedTypeOK'
  <2>1. status' = [status EXCEPT ![asked[w]] = IF @ = "PENDING" THEN "EXPIRED" ELSE @]
    BY <1>8 DEF ExpireApproval
  <2>2. status' \in [Request -> Outcome \cup {"NONE"}]
    BY ONLY <1>d, <2>1 DEF Outcome
  <2> QED
    BY <1>8, <1>c, <2>2 DEF ExpireApproval
<1>9. ASSUME NEW w \in Worker, ToolRuns(w) PROVE SharedTypeOK'
  <2>1. asked[w] \in 0..MaxRequest
    BY DEF LoopTypeOK
  <2>2. {asked[w]} \ {0} \subseteq Request
    BY <2>1 DEF Request
  <2>3. approvedRuns' \subseteq Request
    BY <1>9, <2>2 DEF ToolRuns, SharedTypeOK
  <2> QED
    BY <1>9, <2>3 DEF ToolRuns, SharedTypeOK, budgetVars
<1>10. ASSUME NEW i \in Request, RequestExpires(i) \/ OperatorDecides(i) PROVE SharedTypeOK'
  BY <1>10 DEF RequestExpires, OperatorDecides, SharedTypeOK, budgetVars
<1>11. ASSUME NEW i \in Request, DecisionLands(i) PROVE SharedTypeOK'
  <2>1. \/ UNCHANGED status
        \/ \E s \in {"APPROVED", "REJECTED"} : status' = [status EXCEPT ![i] = s]
    BY <1>11 DEF DecisionLands
  <2>2. status' \in [Request -> Outcome \cup {"NONE"}]
    BY ONLY <1>d, <2>1 DEF Outcome
  <2> QED
    BY <1>11, <2>2 DEF DecisionLands, SharedTypeOK, budgetVars
<1>12. ASSUME OperatorLists PROVE SharedTypeOK'
  <2>1. status' \in [Request -> Outcome \cup {"NONE"}]
    BY <1>12, <1>d DEF OperatorLists, Outcome
  <2> QED
    BY <1>12, <1>c, <2>1 DEF OperatorLists
<1>13. ASSUME Midnight PROVE SharedTypeOK'
  <2>1. today' \in Day /\ events' \in 0..MaxEvents
    BY <1>13, <1>a DEF Midnight, SharedTypeOK, Day
  <2> QED
    BY <1>13, <2>1 DEF Midnight, SharedTypeOK, approvalVars
<1>14. ASSUME ChannelsEdited PROVE SharedTypeOK'
  <2>1. UNCHANGED <<budgetVars, approvalVars>> /\ events < MaxEvents /\ events' = events + 1
    BY <1>14 DEF ChannelsEdited
  <2> QED
    BY <1>a, <2>1, QuietShared
<1>15. CASE UNCHANGED vars
  BY <1>15, <1>a, QuietShared DEF vars
<1> QED
  BY <1>1, <1>2, <1>3, <1>4, <1>5, <1>6, <1>7, <1>8, <1>9, <1>10, <1>11, <1>12, <1>13,
     <1>14, <1>15 DEF Next, TurnStep

\* Every step of run_turn leaves behind what the next stage takes for granted.
LEMMA StageSteps ==
  ASSUME TurnInv, [Next]_vars
  PROVE  Stages'
<1> USE DEF TurnInv, LoopTypeOK, Stages, StageFacts, AtCall, Clear
<1>1. ASSUME NEW w \in Worker, AllowsGlobal(w) PROVE Stages'
  BY <1>1 DEF AllowsGlobal, Allows, Refused, Goto, turnState
<1>2. ASSUME NEW w \in Worker, AllowsConversation(w) PROVE Stages'
  BY <1>2 DEF AllowsConversation, Allows, Refused, Goto, turnState
<1>3. ASSUME NEW w \in Worker, BillGlobal(w) PROVE Stages'
  BY <1>3 DEF BillGlobal, Goto, turnState
<1>4. ASSUME NEW w \in Worker, BillConversation(w) PROVE Stages'
  BY <1>4 DEF BillConversation, Goto
<1>5. ASSUME NEW w \in Worker, FlushHistory(w) PROVE Stages'
  BY <1>5 DEF FlushHistory, Consume, Goto
<1>6. ASSUME NEW w \in Worker, AskModel(w) PROVE Stages'
  BY <1>6 DEF AskModel, Goto, turnState
<1>7. ASSUME NEW w \in Worker, ModelReplies(w) PROVE Stages'
  BY <1>7 DEF ModelReplies, Consume, Goto
<1>8. ASSUME NEW w \in Worker, ModelFailsOver(w) PROVE Stages'
  BY <1>8 DEF ModelFailsOver, turnVars, turnState
<1>9. ASSUME NEW w \in Worker, ModelFails(w) PROVE Stages'
  BY <1>9 DEF ModelFails, FinishError, Goto
<1>10. ASSUME NEW w \in Worker, ExecuteCall(w) PROVE Stages'
  BY <1>10 DEF ExecuteCall, CallRefused, CallAllowed, Goto, turnState, Request
<1>11. ASSUME NEW w \in Worker, CallsDone(w) PROVE Stages'
  BY <1>11 DEF CallsDone, Goto, turnState
<1>12. ASSUME NEW w \in Worker, PollApproval(w) PROVE Stages'
  BY <1>12 DEF PollApproval, CallRefused, Goto, turnState
<1>13. ASSUME NEW w \in Worker, ExpireApproval(w) PROVE Stages'
  BY <1>13 DEF ExpireApproval, CallRefused, Goto
<1>14. ASSUME NEW w \in Worker, ToolRuns(w) PROVE Stages'
  BY <1>14 DEF ToolRuns, Goto
<1>15. ASSUME NEW w \in Worker, Extract(w) PROVE Stages'
  BY <1>15 DEF Extract, Consume, Goto
<1>16. ASSUME NEW w \in Worker, DeadlinePasses(w) PROVE Stages'
  BY <1>16 DEF DeadlinePasses, FinishError, Goto, InLoop
<1>17. ASSUME NEW w \in Worker, TurnOver(w) PROVE Stages'
  BY <1>17 DEF TurnOver, Goto
<1>18. ASSUME NEW w \in Worker, End(w) \/ TurnRaises(w) \/ Crash(w) PROVE TurnOver(w)
  BY <1>18 DEF End, TurnRaises, Crash
<1>19. ASSUME NEW w \in Worker, NEW c \in Conversation, Begin(w, c) PROVE Stages'
  BY <1>19 DEF Begin, Goto
<1>20. CASE UNCHANGED turnVars
  BY <1>20 DEF turnVars, turnState
<1>21. ASSUME NEW i \in Request, RequestExpires(i) \/ OperatorDecides(i) \/ DecisionLands(i)
       PROVE  UNCHANGED turnVars
  BY <1>21 DEF RequestExpires, OperatorDecides, DecisionLands
<1>22. OperatorLists \/ Midnight \/ ChannelsEdited \/ UNCHANGED vars => UNCHANGED turnVars
  BY DEF OperatorLists, Midnight, ChannelsEdited, vars
<1> HIDE DEF TurnInv, LoopTypeOK, Stages
<1> QED
  BY <1>1, <1>2, <1>3, <1>4, <1>5, <1>6, <1>7, <1>8, <1>9, <1>10, <1>11,
     <1>12, <1>13, <1>14, <1>15, <1>16, <1>17, <1>18, <1>19, <1>20, <1>21, <1>22 DEF Next, TurnStep

\* An approval is final: expiry, by the poller or by the operator's list, and
\* a second decision only touch rows that are PENDING.
LEMMA ApprovedStays ==
  ASSUME TurnInv, [Next]_vars, NEW i \in Request, status[i] = "APPROVED"
  PROVE  status'[i] = "APPROVED"
<1>a. status \in [Request -> Outcome \cup {"NONE"}]
  BY DEF TurnInv, SharedTypeOK
<1>1. ASSUME NEW j \in Request, status[j] # "APPROVED", NEW s,
             status' = [status EXCEPT ![j] = s]
      PROVE  status'[i] = "APPROVED"
  BY <1>a, <1>1
<1>2. ASSUME NEW w \in Worker, ExecuteCall(w) PROVE status'[i] = "APPROVED"
  BY <1>2, <1>1 DEF ExecuteCall
<1>3. ASSUME NEW w \in Worker, ExpireApproval(w) PROVE status'[i] = "APPROVED"
  <2>1. status' = [status EXCEPT ![asked[w]] = IF @ = "PENDING" THEN "EXPIRED" ELSE @]
    BY <1>3 DEF ExpireApproval
  <2> QED
    BY ONLY <1>a, <2>1, status[i] = "APPROVED", i \in Request
<1>4. ASSUME NEW j \in Request, DecisionLands(j) PROVE status'[i] = "APPROVED"
  BY <1>4, <1>1 DEF DecisionLands
<1>5. ASSUME OperatorLists PROVE status'[i] = "APPROVED"
  BY <1>5 DEF OperatorLists
<1>6. CASE UNCHANGED status
  BY <1>6
<1>7. ASSUME NEW w \in Worker,
             \/ AllowsGlobal(w) \/ AllowsConversation(w) \/ BillGlobal(w) \/ BillConversation(w)
             \/ FlushHistory(w) \/ AskModel(w) \/ ModelReplies(w) \/ ModelFailsOver(w)
             \/ ModelFails(w) \/ CallsDone(w) \/ PollApproval(w) \/ ToolRuns(w) \/ Extract(w)
             \/ End(w) \/ DeadlinePasses(w) \/ TurnRaises(w) \/ Crash(w)
      PROVE  UNCHANGED status
  BY <1>7 DEF AllowsGlobal, AllowsConversation, Allows, Refused, BillGlobal, BillConversation,
     FlushHistory, AskModel, ModelReplies, ModelFailsOver, ModelFails, CallsDone, PollApproval,
     ToolRuns, Extract, End, DeadlinePasses, TurnRaises, Crash, approvalVars
<1>8. ASSUME NEW w \in Worker, NEW c \in Conversation, Begin(w, c) PROVE UNCHANGED status
  BY <1>8 DEF Begin, approvalVars
<1>9. ASSUME NEW j \in Request, RequestExpires(j) \/ OperatorDecides(j) PROVE UNCHANGED status
  BY <1>9 DEF RequestExpires, OperatorDecides
<1>10. Midnight \/ ChannelsEdited \/ UNCHANGED vars => UNCHANGED status
  BY DEF Midnight, ChannelsEdited, vars, approvalVars
<1> QED
  BY <1>2, <1>3, <1>4, <1>5, <1>6, <1>7, <1>8, <1>9, <1>10 DEF Next, TurnStep

\* A step after which no worker is newly about to run an approved tool, and no
\* approved run is new.
LEMMA QuietApprovals ==
  ASSUME TurnInv, [Next]_vars, UNCHANGED approvedRuns,
         \A w \in Worker : pc'[w] = "run" /\ asked'[w] # 0 =>
             asked'[w] = asked[w] /\ status[asked[w]] = "APPROVED"
  PROVE  RunsAreApproved'
<1>1. ASSUME NEW i \in approvedRuns' PROVE status'[i] = "APPROVED"
  BY <1>1, ApprovedStays DEF TurnInv, RunsAreApproved, SharedTypeOK
<1>2. ASSUME NEW w \in Worker, pc'[w] = "run", asked'[w] # 0 PROVE status'[asked'[w]] = "APPROVED"
  <2>1. asked'[w] = asked[w] /\ status[asked[w]] = "APPROVED"
    BY <1>2
  <2>2. asked[w] \in Request
    BY <1>2, <2>1 DEF TurnInv, LoopTypeOK, Request
  <2> QED
    BY <2>1, <2>2, ApprovedStays
<1> QED
  BY <1>1, <1>2 DEF RunsAreApproved

\* The approval of a run, step by step.
LEMMA ApprovalSteps ==
  ASSUME TurnInv, [Next]_vars
  PROVE  RunsAreApproved'
<1> DEFINE Still(w) == pc'[w] = "run" /\ asked'[w] # 0 =>
                           asked'[w] = asked[w] /\ status[asked[w]] = "APPROVED"
<1>a. ASSUME NEW v \in Worker, UNCHANGED <<pc, asked>> PROVE Still(v)
  BY <1>a DEF TurnInv, RunsAreApproved
<1>b. ASSUME NEW v \in Worker, pc'[v] = pc[v], asked'[v] = asked[v] PROVE Still(v)
  BY <1>b DEF TurnInv, RunsAreApproved
<1>1. ASSUME NEW w \in Worker,
             \/ AllowsGlobal(w) \/ AllowsConversation(w) \/ BillGlobal(w) \/ BillConversation(w)
             \/ FlushHistory(w) \/ AskModel(w) \/ ModelReplies(w) \/ ModelFails(w)
             \/ CallsDone(w) \/ Extract(w) \/ End(w) \/ DeadlinePasses(w)
             \/ TurnRaises(w) \/ Crash(w) \/ ExpireApproval(w)
      PROVE  RunsAreApproved'
  <2>1. UNCHANGED approvedRuns
    BY <1>1 DEF AllowsGlobal, AllowsConversation, Allows, Refused, BillGlobal, BillConversation,
       FlushHistory, AskModel, ModelReplies, ModelFails, CallsDone, Extract, End,
       DeadlinePasses, TurnRaises, Crash, ExpireApproval, approvalVars
  <2>2. \E s : s # "run" /\ pc' = [pc EXCEPT ![w] = s]
    BY <1>1 DEF AllowsGlobal, AllowsConversation, Allows, Refused, BillGlobal, BillConversation,
       FlushHistory, AskModel, ModelReplies, ModelFails, CallsDone, Extract, End,
       DeadlinePasses, TurnRaises, Crash, ExpireApproval, Consume, FinishError, TurnOver,
       CallRefused, Goto, TurnInv, LoopTypeOK
  <2>3. asked' = asked \/ asked' = [asked EXCEPT ![w] = 0]
    BY <1>1 DEF AllowsGlobal, AllowsConversation, Allows, Refused, BillGlobal, BillConversation,
       FlushHistory, AskModel, ModelReplies, ModelFails, CallsDone, Extract, End,
       DeadlinePasses, TurnRaises, Crash, ExpireApproval, FinishError, TurnOver,
       CallRefused, turnState
  <2>4. ASSUME NEW v \in Worker, v # w PROVE pc'[v] = pc[v] /\ asked'[v] = asked[v]
    BY <2>2, <2>3, <2>4 DEF TurnInv, LoopTypeOK
  <2>5. ASSUME NEW v \in Worker PROVE Still(v)
    <3>1. CASE v = w
      BY <2>2, <3>1 DEF TurnInv, LoopTypeOK
    <3>2. CASE v # w
      BY <1>b, <2>4, <3>2
    <3> QED
      BY <3>1, <3>2
  <2> QED
    BY <2>1, <2>5, QuietApprovals
<1>2. ASSUME NEW w \in Worker, ModelFailsOver(w) PROVE RunsAreApproved'
  BY <1>2, <1>a, QuietApprovals DEF ModelFailsOver, turnVars, turnState, approvalVars
<1>3. ASSUME NEW w \in Worker, ExecuteCall(w) \/ PollApproval(w) PROVE RunsAreApproved'
  <2>1. UNCHANGED approvedRuns
    BY <1>3 DEF ExecuteCall, PollApproval, approvalVars
  <2>2. \E s : pc' = [pc EXCEPT ![w] = s]
    BY <1>3 DEF ExecuteCall, PollApproval, CallRefused, Goto
  <2>3. asked' = asked \/ \E i : asked' = [asked EXCEPT ![w] = i]
    BY <1>3 DEF ExecuteCall, PollApproval, CallRefused, turnState
  <2>4. ASSUME NEW v \in Worker, v # w PROVE pc'[v] = pc[v] /\ asked'[v] = asked[v]
    BY <2>2, <2>3, <2>4 DEF TurnInv, LoopTypeOK
  <2>5. Still(w)
    <3>1. CASE ExecuteCall(w)
      BY <3>1 DEF ExecuteCall, CallRefused, Goto, turnState, TurnInv, LoopTypeOK,
                  Stages, StageFacts, AtCall
    <3>2. CASE PollApproval(w)
      BY <3>2 DEF PollApproval, CallRefused, Goto, turnState, TurnInv, LoopTypeOK
    <3> QED
      BY <1>3, <3>1, <3>2
  <2>6. ASSUME NEW v \in Worker PROVE Still(v)
    <3> HIDE DEF Still
    <3> QED
      BY <1>b, <2>4, <2>5
  <2> QED
    BY <2>1, <2>6, QuietApprovals
<1>4. ASSUME NEW w \in Worker, ToolRuns(w) PROVE RunsAreApproved'
  BY <1>4 DEF ToolRuns, Goto, TurnInv, LoopTypeOK, RunsAreApproved
<1>5. ASSUME NEW w \in Worker, NEW c \in Conversation, Begin(w, c) PROVE RunsAreApproved'
  BY <1>5 DEF Begin, Goto, approvalVars, TurnInv, LoopTypeOK, RunsAreApproved
<1>6. ASSUME UNCHANGED <<pc, asked, approvedRuns>> PROVE RunsAreApproved'
  BY <1>6, <1>a, QuietApprovals
<1>7. ASSUME NEW i \in Request, RequestExpires(i) \/ OperatorDecides(i) \/ DecisionLands(i)
      PROVE  UNCHANGED <<pc, asked, approvedRuns>>
  BY <1>7 DEF RequestExpires, OperatorDecides, DecisionLands, turnVars, turnState
<1>8. OperatorLists \/ Midnight \/ ChannelsEdited \/ UNCHANGED vars
        => UNCHANGED <<pc, asked, approvedRuns>>
  BY DEF OperatorLists, Midnight, ChannelsEdited, vars, turnVars, turnState, approvalVars
<1> QED
  BY <1>1, <1>2, <1>3, <1>4, <1>5, <1>6, <1>7, <1>8 DEF Next, TurnStep

\* The inductive invariant holds in every state of every run.
THEOREM TurnInvariant == Spec => []TurnInv
<1>1. Init => TurnInv
  BY DEF Init, TurnInv, LoopTypeOK, SharedTypeOK, Stages, StageFacts, RunsAreApproved,
         AtCall, Clear, Stage, InLoop, Outcome, Day, Request
<1>2. TurnInv /\ [Next]_vars => TurnInv'
  BY LoopTypes, SharedTypes, StageSteps, ApprovalSteps DEF TurnInv
<1> QED
  BY <1>1, <1>2, PTL DEF Spec

\* run_turn and ToolExecutor: a tool that needs an approval runs only when its
\* row says APPROVED, for any number of workers, calls and requests.
THEOREM ToolsAreApproved == Spec => []RunsAreApproved
<1>1. TurnInv => RunsAreApproved
  BY DEF TurnInv
<1> QED
  BY <1>1, TurnInvariant, PTL

(***************************************************************************)
(* The refinement: every step of the turn is a step of the contract, or    *)
(* changes nothing the contract speaks of.                                 *)
(***************************************************************************)
\* The initial states agree.
LEMMA ContractStarts == Init => Contract!ContractInit
BY DEF Init, Contract!ContractInit, Day

\* A step that opens and closes no turn and touches no ledger.
LEMMA SameOpen ==
  ASSUME LoopTypeOK, NEW w \in Worker, pc[w] # "idle",
         NEW s, s # "idle", pc' = [pc EXCEPT ![w] = s]
  PROVE  {v \in Worker : pc'[v] # "idle"} = {v \in Worker : pc[v] # "idle"}
BY DEF LoopTypeOK

\* What a turn owes goes up (model replies, flush and extraction).
LEMMA OweSteps ==
  ASSUME TurnInv, NEW w \in Worker,
         FlushHistory(w) \/ ModelReplies(w) \/ Extract(w)
  PROVE  Contract!Owe(w)
<1> USE DEF TurnInv
<1>1. \E s : s # "idle" /\ pc' = [pc EXCEPT ![w] = s]
  BY DEF FlushHistory, ModelReplies, Extract, Consume, Goto
<1>2. pc[w] # "idle" /\ UNCHANGED <<ran, convSpent>>
  BY DEF FlushHistory, ModelReplies, Extract, budgetVars
<1>3. \E n \in Nat : n >= spent[w] /\ spent' = [spent EXCEPT ![w] = n]
  <2>1. CASE FlushHistory(w) \/ Extract(w)
    <3>1. spent[w] = 0
      BY <2>1 DEF FlushHistory, Extract, Stages, StageFacts, Clear
    <3>2. PICK n \in Nat : spent' = [spent EXCEPT ![w] = n]
      BY <2>1 DEF FlushHistory, Extract, Consume
    <3>3. n >= spent[w]
      BY <3>1, <3>2
    <3> QED
      BY <3>2, <3>3, Zenon
  <2>2. CASE ModelReplies(w)
    <3>1. spent' = [spent EXCEPT ![w] = spent[w] + 1] /\ spent[w] \in Nat
      BY <2>2 DEF ModelReplies, Consume, LoopTypeOK
    <3>2. spent[w] + 1 \in Nat /\ spent[w] + 1 >= spent[w]
      BY <3>1
    <3> QED
      BY <3>1, <3>2, Zenon
  <2> QED
    BY <2>1, <2>2
<1>4. {v \in Worker : pc'[v] # "idle"} = {v \in Worker : pc[v] # "idle"}
  BY <1>1, <1>2, SameOpen
<1>5. /\ spent'[w] \in Nat /\ spent'[w] >= spent[w]
      /\ spent' = [spent EXCEPT ![w] = spent'[w]]
  BY <1>3 DEF LoopTypeOK
<1> QED
  BY <1>2, <1>4, <1>5 DEF Contract!Owe

\* Every step of run_turn, its faults and its surroundings keeps the contract.
LEMMA ContractSteps ==
  ASSUME TurnInv, [Next]_vars
  PROVE  [Contract!ContractNext]_(Contract!contractVars)
<1> USE DEF TurnInv
<1> DEFINE Opened == {v \in Worker : pc[v] # "idle"}
<1>s. ASSUME Opened' = Opened, UNCHANGED <<ran, spent, convSpent>>
      PROVE  UNCHANGED Contract!contractVars
  BY <1>s DEF Contract!contractVars
<1>1. ASSUME NEW w \in Worker, NEW c \in Conversation, Begin(w, c) PROVE Contract!Open(w)
  <2>1. ran[w] = 0 /\ spent[w] = 0 /\ pc[w] = "idle"
    BY <1>1 DEF Begin, Stages, StageFacts, Clear
  <2>2. Opened' = Opened \cup {w}
    BY <1>1 DEF Begin, Goto, LoopTypeOK
  <2>3. ran' = [ran EXCEPT ![w] = 0] /\ spent' = [spent EXCEPT ![w] = 0] /\ UNCHANGED convSpent
    BY <1>1, <2>1 DEF Begin, LoopTypeOK, budgetVars
  <2> QED
    BY <2>1, <2>2, <2>3 DEF Contract!Open
<1>2. ASSUME NEW w \in Worker,
             \/ AllowsGlobal(w) \/ AllowsConversation(w) \/ BillGlobal(w) \/ AskModel(w)
             \/ CallsDone(w) \/ ExecuteCall(w) \/ PollApproval(w) \/ ExpireApproval(w)
      PROVE  UNCHANGED Contract!contractVars
  <2>1. pc[w] # "idle" /\ UNCHANGED <<ran, spent, convSpent>>
    BY <1>2 DEF AllowsGlobal, AllowsConversation, Allows, Refused, BillGlobal, AskModel,
       CallsDone, ExecuteCall, PollApproval, ExpireApproval, CallRefused, turnState, budgetVars
  <2>2. \E s : s # "idle" /\ pc' = [pc EXCEPT ![w] = s]
    BY <1>2 DEF AllowsGlobal, AllowsConversation, Allows, Refused, BillGlobal, AskModel,
       CallsDone, ExecuteCall, PollApproval, ExpireApproval, CallRefused, Goto
  <2> QED
    BY <1>s, <2>1, <2>2, SameOpen
<1>3. ASSUME NEW w \in Worker, BillConversation(w) PROVE Contract!Bill(w)
  <2>1. /\ pc[w] # "idle" /\ billDay[w] \in Day /\ conv[w] \in Conversation
        /\ then[w] # "idle"
    BY <1>3 DEF BillConversation, Stages, StageFacts, LoopTypeOK
  <2>2. Opened' = Opened
    BY <1>3, <2>1, SameOpen DEF BillConversation, Goto
  <2> QED
    BY <1>3, <2>1, <2>2 DEF BillConversation, Contract!Bill
<1>4. ASSUME NEW w \in Worker, ModelFails(w) \/ DeadlinePasses(w) PROVE Contract!Forgive(w)
  <2>1. pc[w] # "idle" /\ FinishError(w) /\ UNCHANGED convSpent
    BY <1>4 DEF ModelFails, DeadlinePasses, InLoop, budgetVars
  <2>2. Opened' = Opened
    BY <2>1, SameOpen DEF FinishError, Goto
  <2> QED
    BY <2>1, <2>2 DEF FinishError, Contract!Forgive
<1>5. ASSUME NEW w \in Worker, ToolRuns(w) PROVE Contract!RunTool(w)
  <2>1. pc[w] # "idle" /\ ran[w] <= used[w] /\ used[w] < MaxToolCalls
    BY <1>5 DEF ToolRuns, Stages, StageFacts, AtCall
  <2>2. ran[w] \in Nat /\ used[w] \in Nat /\ MaxToolCalls \in Nat
    BY DEF LoopTypeOK
  <2>3. ran[w] < MaxToolCalls
    BY <2>1, <2>2
  <2>4. Opened' = Opened
    BY <1>5, <2>1, SameOpen DEF ToolRuns, Goto
  <2> QED
    BY <1>5, <2>1, <2>3, <2>4 DEF ToolRuns, budgetVars, Contract!RunTool
<1>6. ASSUME NEW w \in Worker, End(w) \/ TurnRaises(w) \/ Crash(w) PROVE Contract!Close(w)
  <2>1. pc[w] # "idle" /\ TurnOver(w) /\ UNCHANGED convSpent
    BY <1>6 DEF End, TurnRaises, Crash, budgetVars
  <2>2. Opened' = Opened \ {w}
    BY <2>1 DEF TurnOver, Goto, LoopTypeOK
  <2> QED
    BY <2>1, <2>2 DEF TurnOver, Contract!Close
<1>7. ASSUME NEW w \in Worker, ModelFailsOver(w) PROVE UNCHANGED Contract!contractVars
  BY <1>7, <1>s DEF ModelFailsOver, turnVars, turnState, budgetVars
<1>8. ASSUME NEW i \in Request, RequestExpires(i) \/ OperatorDecides(i) \/ DecisionLands(i)
      PROVE  UNCHANGED Contract!contractVars
  BY <1>8, <1>s DEF RequestExpires, OperatorDecides, DecisionLands, turnVars, turnState, budgetVars
<1>9. ASSUME OperatorLists \/ Midnight \/ ChannelsEdited \/ UNCHANGED vars
      PROVE  UNCHANGED Contract!contractVars
  BY <1>9, <1>s DEF OperatorLists, Midnight, ChannelsEdited, vars, turnVars, turnState, budgetVars
<1> QED
  BY <1>1, <1>2, <1>3, <1>4, <1>5, <1>6, <1>7, <1>8, <1>9, OweSteps
     DEF Next, TurnStep, Contract!ContractNext

\* AgentTurnEngine implements the contract of a turn: at most
\* tool_max_calls_per_turn tools run in it, and every token billed to a
\* conversation was owed by a turn and is billed once.
THEOREM TurnKeepsContract == Spec => ImplementsContract
<1>1. Init => Contract!ContractInit
  BY ContractStarts
<1>2. TurnInv /\ [Next]_vars => [Contract!ContractNext]_(Contract!contractVars)
  BY ContractSteps
<1> QED
  BY <1>1, <1>2, TurnInvariant, PTL DEF Spec, ImplementsContract, Contract!ContractSpec

(***************************************************************************)
(* The budget.  Both counters are read before a turn and written after its *)
(* calls, so they are overshot by what the turns in flight may still bill. *)
(***************************************************************************)
\* What a turn may still bill, once it goes on at a stage.
AfterStage(stage) ==
    IF stage = "select" THEN MaxReplies + ExtractTokens
    ELSE IF stage = "extract" THEN ExtractTokens ELSE 0

\* The most that a bill in hand can be, by where the turn goes on after it.
BillCap(next) ==
    IF next = "select" THEN FlushTokens
    ELSE IF next = "extract" THEN MaxReplies ELSE ExtractTokens

Billing == {"billGlobal", "billConv"}
Unopened == {"admitGlobal", "admitConv", "flush"}

\* What a turn at a stage, that goes on with `next' after its bill of n tokens
\* for the day, may still add to a counter of the day.  The turn began on an
\* earlier day or not, and the counter is one that it reads after the stages
\* `before' and that has the bill after the stages `unpaid'.
MayBill(stage, next, n, earlier, before, unpaid) ==
    IF stage \in before /\ ~earlier THEN 0
    ELSE IF stage \in Unopened THEN TurnMax
    ELSE IF stage \in InLoop THEN AfterStage("select")
    ELSE IF stage \in unpaid THEN n + AfterStage(next)
    ELSE IF stage \in Billing THEN AfterStage(next)
    ELSE AfterStage(stage)

\* What worker w may still add to a counter of day d, and to the two there are.
BillFor(w, d) == IF billDay[w] = d THEN spent[w] ELSE 0

ForCounter(w, d, before, unpaid) ==
    IF dayOf[w] > d THEN 0
    ELSE MayBill(pc[w], then[w], BillFor(w, d), dayOf[w] < d, before, unpaid)

ForGlobal(w, d) == ForCounter(w, d, {"admitGlobal"}, {"billGlobal"})
ForConversation(w, d) == ForCounter(w, d, {"admitGlobal", "admitConv"}, Billing)

\* The sum of f over the workers, as the number of its units.
Units(f) == {u \in Worker \X (1..TurnMax) : u[2] <= f[u[1]]}
InFlight(d) == Cardinality(Units([w \in Worker |-> ForGlobal(w, d)]))

\* Bills stay within what their stage may cost.
BillsAreCapped ==
    \A w \in Worker :
        /\ pc[w] \in InLoop => spent[w] <= replies[w]
        /\ pc[w] \in Billing => spent[w] <= BillCap(then[w])

\* No day is billed before it comes, nor before the turn began.
DaysAreOrdered ==
    /\ \A w \in Worker :
           /\ dayOf[w] <= today
           /\ pc[w] \in Billing => billDay[w] \in dayOf[w]..today
    /\ \A d \in Day : d > today =>
           globalSpent[d] = 0 /\ \A c \in Conversation : convSpent[d][c] = 0

\* The lease of a conversation: one turn at a time.
OneTurnEach ==
    \A v, w \in Worker : v # w /\ conv[v] # None => conv[v] # conv[w]

\* A counter that has reached its ceiling keeps room for what may come.
GlobalMost == GlobalCeiling + Cardinality(Worker) * TurnMax + notices * ExtractTokens
ConversationMost == ConversationCeiling + TurnMax + notices * ExtractTokens

GlobalRoom ==
    \A d \in Day :
        globalSpent[d] < GlobalCeiling \/ globalSpent[d] + InFlight(d) < GlobalMost

ConversationRoom ==
    \A d \in Day, c \in Conversation :
        \/ convSpent[d][c] < ConversationCeiling
        \/ /\ convSpent[d][c] < ConversationMost
           /\ \A w \in Worker :
                  conv[w] = c => convSpent[d][c] + ForConversation(w, d) < ConversationMost

BudgetInv ==
    /\ TurnInv /\ BillsAreCapped /\ DaysAreOrdered /\ OneTurnEach
    /\ GlobalRoom /\ ConversationRoom

\* The bounds are numbers.
LEMMA Bounds ==
  /\ TurnMax \in Nat /\ FlushTokens \in Nat /\ MaxReplies \in Nat /\ ExtractTokens \in Nat
  /\ TurnMax = FlushTokens + MaxReplies + ExtractTokens
  /\ GlobalCeiling \in Nat \ {0} /\ ConversationCeiling \in Nat \ {0}
BY DEF TurnMax

\* The numbers up to k are k.
LEMMA UpTo ==
  ASSUME NEW k \in Nat
  PROVE  IsFiniteSet(1..k) /\ Cardinality(1..k) = k
<1>1. k \in Int /\ 1 \in Int
  OBVIOUS
<1>2. IsFiniteSet(1..k) /\ Cardinality(1..k) = IF 1 > k THEN 0 ELSE k - 1 + 1
  BY <1>1, FS_Interval
<1> QED
  BY <1>2

\* The units of one worker are as many as its value.
LEMMA UnitsOfOne ==
  ASSUME NEW f \in [Worker -> 0..TurnMax], NEW w \in Worker
  PROVE  LET others == {u \in Units(f) : u[1] # w} IN
         /\ IsFiniteSet(others) /\ Cardinality(others) \in Nat
         /\ Cardinality(Units(f)) = Cardinality(others) + f[w]
         /\ Cardinality(Units(f)) <= Cardinality(Worker) * TurnMax
         /\ Cardinality(Worker) \in Nat
<1> DEFINE Others == {u \in Units(f) : u[1] # w}
           Own == {w} \X (1..f[w])
<1>a. f[w] \in Nat /\ f[w] <= TurnMax /\ TurnMax \in Nat
  BY Bounds
<1>1. IsFiniteSet(1..TurnMax) /\ Cardinality(1..TurnMax) = TurnMax
  BY <1>a, UpTo
<1>2. /\ IsFiniteSet(Worker \X (1..TurnMax))
      /\ Cardinality(Worker \X (1..TurnMax)) = Cardinality(Worker) * TurnMax
  BY <1>1, FS_Product
<1>3. Units(f) \in SUBSET (Worker \X (1..TurnMax))
  BY DEF Units
<1>4. IsFiniteSet(Units(f)) /\ Cardinality(Units(f)) <= Cardinality(Worker) * TurnMax
  BY <1>2, <1>3, FS_Subset
<1>5. IsFiniteSet(Others)
  BY <1>4, FS_Subset, Others \in SUBSET Units(f)
<1>6. IsFiniteSet({w}) /\ Cardinality({w}) = 1
  BY FS_Singleton
<1>7. IsFiniteSet(1..f[w]) /\ Cardinality(1..f[w]) = f[w]
  BY <1>a, UpTo
<1>8. IsFiniteSet(Own) /\ Cardinality(Own) = 1 * f[w]
  BY <1>6, <1>7, FS_Product
<1>9. Others \cap Own = {}
  OBVIOUS
<1>10. Units(f) = Others \cup Own
  <2>1. Own \subseteq Units(f)
    BY <1>a DEF Units
  <2>2. \A u \in Units(f) : u[1] = w => u \in Own
    BY <1>a DEF Units
  <2> QED
    BY <2>1, <2>2
<1>11. Cardinality(Units(f)) = Cardinality(Others) + Cardinality(Own) - Cardinality(Others \cap Own)
  BY <1>5, <1>8, <1>10, FS_Union
<1>12. Cardinality({}) = 0
  BY FS_EmptySet
<1>13. Cardinality(Others) \in Nat /\ Cardinality(Worker) \in Nat
  BY <1>5, FS_CardinalityType
<1>14. Cardinality(Units(f)) = Cardinality(Others) + f[w]
  <2>1. Cardinality(Others \cap Own) = 0
    BY <1>9, <1>12
  <2>2. Cardinality(Own) = f[w]
    BY <1>8, <1>a
  <2> HIDE DEF Others, Own
  <2> QED
    BY ONLY <1>11, <1>13, <1>a, <2>1, <2>2
<1> QED
  BY <1>4, <1>5, <1>13, <1>14

\* A sum changes by as much as its only changed value.
LEMMA UnitsChange ==
  ASSUME NEW f \in [Worker -> 0..TurnMax], NEW g \in [Worker -> 0..TurnMax],
         NEW w \in Worker, \A v \in Worker \ {w} : f[v] = g[v]
  PROVE  /\ Cardinality(Units(g)) + f[w] = Cardinality(Units(f)) + g[w]
         /\ Cardinality(Units(f)) \in Nat /\ Cardinality(Units(g)) \in Nat
         /\ Cardinality(Units(f)) <= Cardinality(Worker) * TurnMax
         /\ Cardinality(Worker) \in Nat
<1>1. {u \in Units(f) : u[1] # w} = {u \in Units(g) : u[1] # w}
  BY DEF Units
<1> DEFINE A == {u \in Units(f) : u[1] # w}
           B == {u \in Units(g) : u[1] # w}
<1>2. /\ Cardinality(A) \in Nat /\ Cardinality(Units(f)) = Cardinality(A) + f[w]
      /\ Cardinality(Units(f)) <= Cardinality(Worker) * TurnMax
      /\ Cardinality(Worker) \in Nat
  BY UnitsOfOne
<1>3. Cardinality(B) \in Nat /\ Cardinality(Units(g)) = Cardinality(B) + g[w]
  BY UnitsOfOne
<1>4. f[w] \in Nat /\ g[w] \in Nat
  BY Bounds
<1>5. A = B
  BY <1>1
<1> HIDE DEF A, B
<1> QED
  BY <1>2, <1>3, <1>4, <1>5

\* What a turn may still bill is never more than a turn bills.
LEMMA MayBillRange ==
  ASSUME NEW stage \in Stage, NEW next \in {"select", "extract", "done"}, NEW n \in Nat,
         stage \in Billing => n <= BillCap(next),
         NEW earlier \in BOOLEAN, NEW before, NEW unpaid \in SUBSET Billing
  PROVE  MayBill(stage, next, n, earlier, before, unpaid) \in 0..TurnMax
<1>1. \A x : AfterStage(x) \in 0..(MaxReplies + ExtractTokens)
  BY Bounds DEF AfterStage
<1>2. stage \in Billing => n + AfterStage(next) \in 0..TurnMax
  BY Bounds DEF AfterStage, BillCap
<1> HIDE DEF Billing
<1> QED
  BY <1>1, <1>2, Bounds DEF MayBill

(***************************************************************************)
(* What a step may do to the budget, by the worker that takes it.          *)
(***************************************************************************)
\* Everything of worker v that the budget depends on, besides its place.
OwnKept(v) ==
    /\ conv'[v] = conv[v] /\ dayOf'[v] = dayOf[v] /\ billDay'[v] = billDay[v]
    /\ then'[v] = then[v] /\ spent'[v] = spent[v] /\ replies'[v] = replies[v]

OthersKept(w) == \A v \in Worker \ {w} : pc'[v] = pc[v] /\ OwnKept(v)

\* Nothing but time, approvals and channels changes.
OnlyTimePasses ==
    /\ \A v \in Worker : pc'[v] = pc[v] /\ OwnKept(v)
    /\ UNCHANGED <<globalSpent, convSpent, notices>>
    /\ today' \in {today, today + 1}

Opens(w) ==
    /\ pc[w] = "idle" /\ pc'[w] = "admitGlobal" /\ dayOf'[w] = today
    /\ conv'[w] \in Conversation /\ \A v \in Worker : conv[v] # conv'[w]
    /\ UNCHANGED budgetVars

Admits(w) ==
    /\ \/ pc[w] = "admitGlobal" /\ pc'[w] = "admitConv" /\ globalSpent[dayOf[w]] < GlobalCeiling
       \/ /\ pc[w] = "admitConv" /\ pc'[w] = "flush"
          /\ convSpent[dayOf[w]][conv[w]] < ConversationCeiling
    /\ OwnKept(w) /\ UNCHANGED budgetVars

Refuses(w) ==
    /\ pc[w] \in {"admitGlobal", "admitConv"} /\ pc'[w] = "extract"
    /\ OwnKept(w) /\ UNCHANGED <<today, globalSpent, convSpent>>
    /\ notices' = notices + 1

\* A bill of n tokens is due.
Presents(w, n, day, next) ==
    /\ pc'[w] = IF n = 0 THEN next ELSE "billGlobal"
    /\ spent'[w] = n /\ billDay'[w] = day /\ then'[w] = next
    /\ conv'[w] = conv[w] /\ dayOf'[w] = dayOf[w]

Charges(w) ==
    /\ \/ pc[w] = "flush" /\ \E n \in 0..FlushTokens : Presents(w, n, today, "select")
       \/ /\ pc[w] = "try" /\ replies[w] < MaxReplies
          /\ Presents(w, spent[w] + 1, dayOf[w], "extract")
       \/ pc[w] = "extract" /\ \E n \in 0..ExtractTokens : Presents(w, n, today, "done")
    /\ UNCHANGED budgetVars

PaysGlobal(w) ==
    /\ pc[w] = "billGlobal" /\ pc'[w] = "billConv" /\ OwnKept(w)
    /\ globalSpent' = [globalSpent EXCEPT ![billDay[w]] = @ + spent[w]]
    /\ UNCHANGED <<today, convSpent, notices>>

PaysConversation(w) ==
    /\ pc[w] = "billConv" /\ pc'[w] = then[w] /\ spent'[w] = 0
    /\ conv'[w] = conv[w] /\ dayOf'[w] = dayOf[w]
    /\ convSpent' = [convSpent EXCEPT ![billDay[w]][conv[w]] = @ + spent[w]]
    /\ UNCHANGED <<today, globalSpent, notices>>

Loops(w) ==
    /\ pc[w] \in InLoop /\ pc'[w] \in InLoop
    /\ spent'[w] - spent[w] = replies'[w] - replies[w]
    /\ conv'[w] = conv[w] /\ dayOf'[w] = dayOf[w]
    /\ UNCHANGED budgetVars

\* The loop fails, or the turn is over.
Stops(w) ==
    /\ \/ /\ pc[w] \in InLoop /\ pc'[w] = "extract"
          /\ conv'[w] = conv[w] /\ dayOf'[w] = dayOf[w]
       \/ pc'[w] = "idle" /\ conv'[w] = None /\ dayOf'[w] = 1
    /\ UNCHANGED budgetVars

BudgetStep(w) ==
    \/ Opens(w) \/ Admits(w) \/ Refuses(w) \/ Charges(w) \/ PaysGlobal(w)
    \/ PaysConversation(w) \/ Loops(w) \/ Stops(w)

\* Every step is one of them.
LEMMA BudgetKinds ==
  ASSUME TurnInv, [Next]_vars
  PROVE  OnlyTimePasses \/ \E w \in Worker : OthersKept(w) /\ BudgetStep(w)
<1> USE DEF TurnInv, LoopTypeOK
<1> DEFINE Goal == OnlyTimePasses \/ \E w \in Worker : OthersKept(w) /\ BudgetStep(w)
<1>1. ASSUME NEW w \in Worker, AllowsGlobal(w) \/ AllowsConversation(w) PROVE Goal
  <2>1. OthersKept(w) /\ OwnKept(w)
    BY <1>1 DEF AllowsGlobal, AllowsConversation, Allows, Refused, Goto, turnState, OthersKept, OwnKept
  <2>2. Admits(w) \/ Refuses(w)
    BY <1>1, <2>1 DEF AllowsGlobal, AllowsConversation, Allows, Refused, Goto, Admits, Refuses, budgetVars
  <2> QED
    BY <2>1, <2>2 DEF BudgetStep
<1>2. ASSUME NEW w \in Worker, BillGlobal(w) PROVE Goal
  <2>1. OthersKept(w) /\ PaysGlobal(w)
    BY <1>2 DEF BillGlobal, Goto, turnState, OthersKept, OwnKept, PaysGlobal
  <2> QED
    BY <2>1 DEF BudgetStep
<1>3. ASSUME NEW w \in Worker, BillConversation(w) PROVE Goal
  <2>1. OthersKept(w) /\ PaysConversation(w)
    BY <1>3 DEF BillConversation, Goto, OthersKept, OwnKept, PaysConversation
  <2> QED
    BY <2>1 DEF BudgetStep
<1>4. ASSUME NEW w \in Worker, NEW n, NEW d, NEW next, Consume(w, n, d, next),
             UNCHANGED <<conv, dayOf>>
      PROVE  Presents(w, n, d, next)
  BY <1>4 DEF Consume, Presents, Goto
<1>5. ASSUME NEW w \in Worker, FlushHistory(w) PROVE Goal
  <2>1. PICK n \in 0..FlushTokens : Consume(w, n, today, "select")
    BY <1>5 DEF FlushHistory
  <2>2. Presents(w, n, today, "select")
    BY <1>4, <1>5, <2>1 DEF FlushHistory
  <2>3. OthersKept(w)
    BY <1>5, <2>1 DEF FlushHistory, Consume, Goto, OthersKept, OwnKept
  <2> QED
    BY <1>5, <2>2, <2>3 DEF FlushHistory, Charges, BudgetStep
<1>6. ASSUME NEW w \in Worker, Extract(w) PROVE Goal
  <2>1. PICK n \in 0..ExtractTokens : Consume(w, n, today, "done")
    BY <1>6 DEF Extract
  <2>2. Presents(w, n, today, "done")
    BY <1>4, <1>6, <2>1 DEF Extract
  <2>3. OthersKept(w)
    BY <1>6, <2>1 DEF Extract, Consume, Goto, OthersKept, OwnKept
  <2> QED
    BY <1>6, <2>2, <2>3 DEF Extract, Charges, BudgetStep
<1>7. ASSUME NEW w \in Worker, AskModel(w) PROVE Goal
  <2>1. OthersKept(w) /\ Loops(w)
    BY <1>7 DEF AskModel, Goto, turnState, OthersKept, OwnKept, Loops, InLoop
  <2> QED
    BY <2>1 DEF BudgetStep
<1>8. ASSUME NEW w \in Worker, ModelReplies(w) PROVE Goal
  <2>1. CASE Consume(w, spent[w] + 1, dayOf[w], "extract")
    <3>1. Presents(w, spent[w] + 1, dayOf[w], "extract")
      BY <1>4, <1>8, <2>1 DEF ModelReplies
    <3>2. OthersKept(w)
      BY <1>8, <2>1 DEF ModelReplies, Consume, Goto, OthersKept, OwnKept
    <3>3. pc[w] = "try" /\ replies[w] < MaxReplies /\ UNCHANGED budgetVars
      BY <1>8 DEF ModelReplies, Stages, StageFacts
    <3> QED
      BY <3>1, <3>2, <3>3 DEF Charges, BudgetStep
  <2>2. CASE spent' = [spent EXCEPT ![w] = @ + 1] /\ Goto(w, "tools") /\ UNCHANGED <<billDay, then>>
    <3>1. OthersKept(w)
      BY <1>8, <2>2 DEF ModelReplies, Goto, OthersKept, OwnKept
    <3>2. spent'[w] = spent[w] + 1 /\ replies'[w] = replies[w] + 1 /\ spent[w] \in Nat /\ replies[w] \in Nat
      BY <1>8, <2>2 DEF ModelReplies
    <3>3. spent'[w] - spent[w] = replies'[w] - replies[w]
      BY ONLY <3>2
    <3>4. Loops(w)
      BY <1>8, <2>2, <3>3 DEF ModelReplies, Goto, Loops, InLoop
    <3> QED
      BY <3>1, <3>4 DEF BudgetStep
  <2> QED
    BY <1>8, <2>1, <2>2 DEF ModelReplies
<1>9. ASSUME NEW w \in Worker, ModelFails(w) \/ DeadlinePasses(w) PROVE Goal
  <2>1. OthersKept(w) /\ Stops(w)
    BY <1>9 DEF ModelFails, DeadlinePasses, FinishError, Goto, InLoop, OthersKept, OwnKept, Stops
  <2> QED
    BY <2>1 DEF BudgetStep
<1>10. ASSUME NEW w \in Worker,
             ExecuteCall(w) \/ CallsDone(w) \/ PollApproval(w) \/ ExpireApproval(w) \/ ToolRuns(w)
       PROVE Goal
  <2>1. OthersKept(w) /\ OwnKept(w)
    BY <1>10 DEF ExecuteCall, CallsDone, PollApproval, ExpireApproval, ToolRuns, CallRefused,
                 Goto, turnState, OthersKept, OwnKept
  <2>2. pc[w] \in InLoop /\ pc'[w] \in InLoop /\ UNCHANGED budgetVars
    BY <1>10 DEF ExecuteCall, CallsDone, PollApproval, ExpireApproval, ToolRuns, CallRefused,
                 Goto, InLoop
  <2>3. spent'[w] = spent[w] /\ replies'[w] = replies[w] /\ spent[w] \in Nat /\ replies[w] \in Nat
    BY <2>1 DEF OwnKept
  <2>4. spent'[w] - spent[w] = replies'[w] - replies[w]
    BY ONLY <2>3
  <2> QED
    BY <2>1, <2>2, <2>4 DEF OwnKept, Loops, BudgetStep
<1>11. ASSUME NEW w \in Worker, End(w) \/ TurnRaises(w) \/ Crash(w) PROVE Goal
  <2>1. OthersKept(w) /\ Stops(w)
    BY <1>11 DEF End, TurnRaises, Crash, TurnOver, Goto, OthersKept, OwnKept, Stops
  <2> QED
    BY <2>1 DEF BudgetStep
<1>12. ASSUME NEW w \in Worker, NEW c \in Conversation, Begin(w, c) PROVE Goal
  <2>1. OthersKept(w) /\ Opens(w)
    BY <1>12 DEF Begin, Goto, OthersKept, OwnKept, Opens
  <2> QED
    BY <2>1 DEF BudgetStep
<1>13. ASSUME UNCHANGED turnVars, UNCHANGED <<globalSpent, convSpent, notices>>,
              today' \in {today, today + 1}
       PROVE  Goal
  BY <1>13 DEF turnVars, turnState, OnlyTimePasses, OwnKept
<1>14. ASSUME NEW w \in Worker, ModelFailsOver(w) PROVE Goal
  BY <1>14, <1>13 DEF ModelFailsOver, budgetVars
<1>15. ASSUME NEW i \in Request, RequestExpires(i) \/ OperatorDecides(i) \/ DecisionLands(i)
       PROVE  Goal
  BY <1>15, <1>13 DEF RequestExpires, OperatorDecides, DecisionLands, budgetVars
<1>16. ASSUME OperatorLists \/ Midnight \/ ChannelsEdited \/ UNCHANGED vars PROVE Goal
  BY <1>16, <1>13 DEF OperatorLists, Midnight, ChannelsEdited, vars, budgetVars
<1> HIDE DEF Goal, TurnInv, LoopTypeOK
<1>17. Goal
  BY <1>1, <1>2, <1>3, <1>5, <1>6, <1>7, <1>8, <1>9, <1>10, <1>11, <1>12, <1>14, <1>15, <1>16
     DEF Next, TurnStep
<1> QED
  BY <1>17 DEF Goal

\* The bills stay capped.
LEMMA CappedStep ==
  ASSUME TurnInv, TurnInv', BillsAreCapped,
         OnlyTimePasses \/ \E w \in Worker : OthersKept(w) /\ BudgetStep(w)
  PROVE  BillsAreCapped'
<1>a. \A v \in Worker : /\ spent[v] \in Nat /\ spent'[v] \in Nat
                        /\ replies[v] \in 0..MaxReplies /\ replies'[v] \in 0..MaxReplies
                        /\ then[v] \in {"select", "extract", "done"} /\ pc[v] \in Stage
  BY DEF TurnInv, LoopTypeOK
<1>b. ASSUME NEW v \in Worker, pc'[v] = pc[v], OwnKept(v)
      PROVE  /\ pc'[v] \in InLoop => spent'[v] <= replies'[v]
             /\ pc'[v] \in Billing => spent'[v] <= BillCap(then'[v])
  BY <1>b DEF OwnKept, BillsAreCapped
<1>1. CASE OnlyTimePasses
  BY <1>1, <1>b DEF OnlyTimePasses, BillsAreCapped
<1>2. ASSUME NEW w \in Worker, OthersKept(w), BudgetStep(w)
      PROVE  BillsAreCapped'
  <2> DEFINE Capped == /\ pc'[w] \in InLoop => spent'[w] <= replies'[w]
                       /\ pc'[w] \in Billing => spent'[w] <= BillCap(then'[w])
  <2>1. ASSUME Opens(w) \/ Admits(w) \/ Refuses(w) \/ Stops(w) PROVE Capped
    BY <2>1 DEF Opens, Admits, Refuses, Stops, InLoop, Billing
  <2>2. ASSUME Charges(w) PROVE Capped
    <3>1. ASSUME NEW n \in 0..FlushTokens, Presents(w, n, today, "select") PROVE Capped
      <4>1. n \in Nat /\ n <= FlushTokens /\ 0 <= replies'[w]
        BY <3>1, <1>a, Bounds
      <4>2. spent'[w] = n /\ then'[w] = "select" /\ pc'[w] = IF n = 0 THEN "select" ELSE "billGlobal"
        BY <3>1 DEF Presents
      <4> QED
        BY <4>1, <4>2 DEF InLoop, Billing, BillCap
    <3>2. ASSUME pc[w] = "try", replies[w] < MaxReplies, Presents(w, spent[w] + 1, dayOf[w], "extract")
          PROVE  Capped
      <4>1. spent[w] <= replies[w]
        BY <3>2 DEF BillsAreCapped, InLoop
      <4>2. spent[w] + 1 <= MaxReplies /\ spent[w] + 1 # 0
        BY <4>1, <3>2, <1>a, Bounds
      <4>3. spent'[w] = spent[w] + 1 /\ then'[w] = "extract" /\ pc'[w] = "billGlobal"
        BY <3>2, <4>2 DEF Presents
      <4> QED
        BY <4>2, <4>3 DEF InLoop, Billing, BillCap
    <3>3. ASSUME NEW n \in 0..ExtractTokens, Presents(w, n, today, "done") PROVE Capped
      <4>1. n \in Nat /\ n <= ExtractTokens
        BY <3>3, Bounds
      <4>2. spent'[w] = n /\ then'[w] = "done" /\ pc'[w] = IF n = 0 THEN "done" ELSE "billGlobal"
        BY <3>3 DEF Presents
      <4> QED
        BY <4>1, <4>2 DEF InLoop, Billing, BillCap
    <3> QED
      BY <2>2, <3>1, <3>2, <3>3 DEF Charges
  <2>3. ASSUME PaysGlobal(w) PROVE Capped
    BY <2>3 DEF PaysGlobal, OwnKept, BillsAreCapped, InLoop, Billing
  <2>4. ASSUME PaysConversation(w) PROVE Capped
    <3>1. spent'[w] = 0 /\ pc'[w] \in {"select", "extract", "done"} /\ 0 <= replies'[w]
      BY <2>4, <1>a DEF PaysConversation
    <3> QED
      BY <3>1 DEF Billing
  <2>5. ASSUME Loops(w) PROVE Capped
    <3>1. spent[w] <= replies[w] /\ spent'[w] - spent[w] = replies'[w] - replies[w]
      BY <2>5 DEF Loops, BillsAreCapped
    <3>2. spent'[w] <= replies'[w]
      BY <3>1, <1>a, Bounds
    <3> QED
      BY <2>5, <3>2 DEF Loops, InLoop, Billing
  <2>6. Capped
    BY <1>2, <2>1, <2>2, <2>3, <2>4, <2>5 DEF BudgetStep
  <2> HIDE DEF Capped
  <2>7. ASSUME NEW v \in Worker
        PROVE  /\ pc'[v] \in InLoop => spent'[v] <= replies'[v]
               /\ pc'[v] \in Billing => spent'[v] <= BillCap(then'[v])
    <3>1. CASE v = w
      BY <3>1, <2>6 DEF Capped
    <3>2. CASE v # w
      BY <3>2, <1>2, <1>b DEF OthersKept
    <3> QED
      BY <3>1, <3>2
  <2> QED
    BY <2>7 DEF BillsAreCapped
<1> QED
  BY <1>1, <1>2

\* A conversation has one turn.
LEMMA OneTurnStep ==
  ASSUME TurnInv, OneTurnEach,
         OnlyTimePasses \/ \E w \in Worker : OthersKept(w) /\ BudgetStep(w)
  PROVE  OneTurnEach'
<1>1. CASE OnlyTimePasses
  BY <1>1 DEF OnlyTimePasses, OwnKept, OneTurnEach
<1>2. ASSUME NEW w \in Worker, OthersKept(w), BudgetStep(w)
      PROVE  OneTurnEach'
  <2>1. conv'[w] = conv[w] \/ conv'[w] = None \/ \A v \in Worker : conv[v] # conv'[w]
    BY <1>2 DEF BudgetStep, Opens, Admits, Refuses, Charges, Presents, PaysGlobal, PaysConversation,
                Loops, Stops, OwnKept
  <2>2. \A v \in Worker \ {w} : conv'[v] = conv[v]
    BY <1>2 DEF OthersKept, OwnKept
  <2> QED
    BY <2>1, <2>2 DEF OneTurnEach
<1> QED
  BY <1>1, <1>2

\* The days stay in order.
LEMMA DaysStep ==
  ASSUME TurnInv, TurnInv', DaysAreOrdered,
         OnlyTimePasses \/ \E w \in Worker : OthersKept(w) /\ BudgetStep(w)
  PROVE  DaysAreOrdered'
<1> DEFINE InOrder(v) == /\ dayOf[v] <= today
                         /\ pc[v] \in Billing => billDay[v] \in dayOf[v]..today
           Later(d) == d > today =>
                         globalSpent[d] = 0 /\ \A c \in Conversation : convSpent[d][c] = 0
<1>a. /\ today \in Nat /\ today' \in Nat /\ 1 <= today'
      /\ \A v \in Worker : dayOf[v] \in Nat /\ billDay[v] \in Nat /\ billDay[v] \in Day
      /\ \A d \in Day : d \in Nat
  <2>1. today \in Day /\ today' \in Day
    BY DEF TurnInv, SharedTypeOK
  <2>2. \A v \in Worker : dayOf[v] \in Day /\ billDay[v] \in Day
    BY DEF TurnInv, LoopTypeOK
  <2> QED
    BY <2>1, <2>2 DEF Day
<1>b. today' = today \/ today' = today + 1
  BY DEF OnlyTimePasses, BudgetStep, Opens, Admits, Refuses, Charges, PaysGlobal,
         PaysConversation, Loops, Stops, budgetVars
<1>c. \A v \in Worker : InOrder(v)
  BY DEF DaysAreOrdered
<1>d. ASSUME NEW v \in Worker, pc'[v] = pc[v], OwnKept(v) PROVE InOrder(v)'
  <2>1. dayOf'[v] = dayOf[v] /\ billDay'[v] = billDay[v]
    BY <1>d DEF OwnKept
  <2> QED
    BY <2>1, <1>d, <1>a, <1>b, <1>c
<1>1. CASE OnlyTimePasses
  <2>1. \A v \in Worker : InOrder(v)'
    BY <1>1, <1>d DEF OnlyTimePasses
  <2>2. ASSUME NEW d \in Day, d > today' PROVE d > today
    BY <2>2, <1>a, <1>b
  <2>3. \A d \in Day : Later(d)'
    BY <1>1, <2>2 DEF OnlyTimePasses, DaysAreOrdered
  <2> QED
    BY <2>1, <2>3 DEF DaysAreOrdered
<1>2. ASSUME NEW w \in Worker, OthersKept(w), BudgetStep(w)
      PROVE  DaysAreOrdered'
  <2>0. today' = today
    BY <1>2 DEF BudgetStep, Opens, Admits, Refuses, Charges, PaysGlobal,
                PaysConversation, Loops, Stops, budgetVars
  <2>1. InOrder(w)'
    <3>1. CASE Opens(w) \/ Stops(w) \/ Loops(w) \/ Admits(w) \/ Refuses(w)
      <4>1. dayOf'[w] = dayOf[w] \/ dayOf'[w] = today \/ dayOf'[w] = 1
        BY <3>1 DEF Opens, Stops, Loops, Admits, Refuses, OwnKept
      <4>2. pc'[w] \notin Billing
        BY <3>1 DEF Opens, Stops, Loops, Admits, Refuses, InLoop, Billing
      <4> QED
        BY <4>1, <4>2, <2>0, <1>a, <1>c
    <3>2. CASE Charges(w)
      <4>1. dayOf'[w] = dayOf[w] /\ (billDay'[w] = today \/ billDay'[w] = dayOf[w])
        BY <3>2 DEF Charges, Presents
      <4> QED
        BY <4>1, <2>0, <1>a, <1>c
    <3>3. CASE PaysGlobal(w)
      BY <3>3, <2>0, <1>c DEF PaysGlobal, OwnKept, Billing
    <3>4. CASE PaysConversation(w)
      <4>1. then[w] \notin Billing
        BY DEF TurnInv, LoopTypeOK, Billing
      <4> QED
        BY <3>4, <4>1, <2>0, <1>c DEF PaysConversation
    <3> QED
      BY <1>2, <3>1, <3>2, <3>3, <3>4 DEF BudgetStep
  <2>2. \A v \in Worker : InOrder(v)'
    <3>1. ASSUME NEW v \in Worker, v # w PROVE InOrder(v)'
      BY <3>1, <1>2, <1>d DEF OthersKept
    <3> HIDE DEF InOrder
    <3> QED
      BY <2>1, <3>1
  <2>3. ASSUME NEW d \in Day, d > today' PROVE globalSpent'[d] = globalSpent[d] /\ convSpent'[d] = convSpent[d]
    <3>1. CASE PaysGlobal(w)
      <4>1. billDay[w] # d
        BY <3>1, <2>3, <2>0, <1>a, <1>c DEF PaysGlobal, Billing
      <4> QED
        BY <3>1, <4>1, <1>a DEF PaysGlobal, TurnInv, SharedTypeOK
    <3>2. CASE PaysConversation(w)
      <4>1. billDay[w] # d
        BY <3>2, <2>3, <2>0, <1>a, <1>c DEF PaysConversation, Billing
      <4> QED
        BY <3>2, <4>1, <1>a DEF PaysConversation, TurnInv, SharedTypeOK
    <3>3. CASE UNCHANGED <<globalSpent, convSpent>>
      BY <3>3
    <3> QED
      BY <1>2, <3>1, <3>2, <3>3 DEF BudgetStep, Opens, Admits, Refuses, Charges, Loops, Stops, budgetVars
  <2>4. \A d \in Day : Later(d)'
    BY <2>3, <2>0 DEF DaysAreOrdered
  <2> QED
    BY <2>2, <2>4 DEF DaysAreOrdered
<1> QED
  BY <1>1, <1>2

\* What a worker may still bill is never more than a turn bills.
LEMMA RangeNow ==
  ASSUME TurnInv, BillsAreCapped, NEW w \in Worker, NEW d \in Day,
         NEW before, NEW unpaid \in SUBSET Billing
  PROVE  ForCounter(w, d, before, unpaid) \in 0..TurnMax
<1>1. /\ pc[w] \in Stage /\ then[w] \in {"select", "extract", "done"}
      /\ spent[w] \in Nat /\ dayOf[w] \in Day
  BY DEF TurnInv, LoopTypeOK
<1>2. BillFor(w, d) \in Nat /\ BillFor(w, d) <= spent[w]
  BY <1>1 DEF BillFor
<1>3. pc[w] \in Billing => BillFor(w, d) <= BillCap(then[w])
  <2>1. BillCap(then[w]) \in Nat
    BY Bounds DEF BillCap
  <2> QED
    BY <1>1, <1>2, <2>1 DEF BillsAreCapped
<1>4. (dayOf[w] < d) \in BOOLEAN
  OBVIOUS
<1>5. MayBill(pc[w], then[w], BillFor(w, d), dayOf[w] < d, before, unpaid) \in 0..TurnMax
  BY <1>1, <1>2, <1>3, <1>4, MayBillRange
<1> QED
  BY <1>5, Bounds DEF ForCounter

\* After a step the share of a turn in a counter is still one that a turn can have.
LEMMA RangeNext ==
  ASSUME TurnInv', BillsAreCapped', NEW w \in Worker, NEW d \in Day,
         NEW before, NEW unpaid \in SUBSET Billing
  PROVE  ForCounter(w, d, before, unpaid)' \in 0..TurnMax
<1>1. /\ pc'[w] \in Stage /\ then'[w] \in {"select", "extract", "done"}
      /\ spent'[w] \in Nat /\ dayOf'[w] \in Day
  BY DEF TurnInv, LoopTypeOK
<1>2. BillFor(w, d)' \in Nat /\ BillFor(w, d)' <= spent'[w]
  BY <1>1 DEF BillFor
<1>3. pc'[w] \in Billing => BillFor(w, d)' <= BillCap(then'[w])
  <2>1. BillCap(then'[w]) \in Nat
    BY Bounds DEF BillCap
  <2> QED
    BY <1>1, <1>2, <2>1 DEF BillsAreCapped
<1>4. (dayOf'[w] < d) \in BOOLEAN
  OBVIOUS
<1>5. MayBill(pc'[w], then'[w], BillFor(w, d)', dayOf'[w] < d, before, unpaid) \in 0..TurnMax
  BY <1>1, <1>2, <1>3, <1>4, MayBillRange
<1> QED
  BY <1>5, Bounds DEF ForCounter

Befores == {{"admitGlobal"}, {"admitGlobal", "admitConv"}}
Unpaids == {{"billGlobal"}, Billing}

\* The steps that treat both counters alike.
LEMMA AlikeSteps ==
  ASSUME TurnInv, TurnInv', BillsAreCapped, BillsAreCapped', NEW w \in Worker, NEW d \in Day,
         NEW before \in Befores, NEW unpaid \in Unpaids
  PROVE  /\ Opens(w) /\ today >= d => ForCounter(w, d, before, unpaid)' = 0
         /\ Refuses(w) => ForCounter(w, d, before, unpaid)' <= ExtractTokens
         /\ Charges(w) \/ Loops(w) \/ Stops(w) =>
                ForCounter(w, d, before, unpaid)' <= ForCounter(w, d, before, unpaid)
<1>a. /\ pc[w] \in Stage /\ then[w] \in {"select", "extract", "done"}
      /\ spent[w] \in Nat /\ spent'[w] \in Nat
      /\ dayOf[w] \in Nat /\ dayOf'[w] \in Nat /\ today \in Nat /\ d \in Nat
      /\ replies[w] \in Nat /\ replies[w] <= MaxReplies
  <2>1. /\ pc[w] \in Stage /\ then[w] \in {"select", "extract", "done"}
        /\ spent[w] \in Nat /\ dayOf[w] \in Day /\ replies[w] \in 0..MaxReplies
    BY DEF TurnInv, LoopTypeOK
  <2>2. spent'[w] \in Nat /\ dayOf'[w] \in Day
    BY DEF TurnInv, LoopTypeOK
  <2>3. today \in Day
    BY DEF TurnInv, SharedTypeOK
  <2> QED
    BY <2>1, <2>2, <2>3, Bounds DEF Day
<1>b. unpaid \in SUBSET Billing
  BY DEF Unpaids, Billing
<1>c. ForCounter(w, d, before, unpaid) \in 0..TurnMax
  BY <1>b, RangeNow
<1>d. BillFor(w, d)' \in Nat /\ BillFor(w, d)' <= spent'[w]
  BY <1>a DEF BillFor
<1> DEFINE Was == ForCounter(w, d, before, unpaid)
           Will == ForCounter(w, d, before, unpaid)'
<1>1. ASSUME Opens(w), today >= d PROVE Will = 0
  BY <1>1, <1>a DEF Opens, ForCounter, MayBill, Befores
<1>e. ASSUME pc'[w] \in {"extract", "done", "idle"} PROVE Will = 0 \/ Will = AfterStage(pc'[w])
  BY <1>e, <1>b DEF ForCounter, MayBill, Befores, Unopened, InLoop, Billing
<1>2. ASSUME Refuses(w) PROVE Will <= ExtractTokens
  BY <1>2, <1>e, Bounds DEF Refuses, AfterStage
<1>f. ASSUME pc[w] \in InLoop, dayOf[w] <= d PROVE Was = MaxReplies + ExtractTokens
  BY <1>f, <1>a DEF ForCounter, MayBill, Befores, InLoop, Unopened, AfterStage
<1>g. ASSUME pc'[w] \in InLoop PROVE Will = 0 \/ Will = MaxReplies + ExtractTokens
  BY <1>g, <1>a DEF ForCounter, MayBill, Befores, InLoop, Unopened, AfterStage
<1>h. ASSUME dayOf'[w] > d PROVE Will = 0
  BY <1>h DEF ForCounter
<1>3. ASSUME Loops(w) PROVE Will <= Was
  <2>1. CASE dayOf[w] <= d
    BY <1>3, <2>1, <1>f, <1>g, Bounds DEF Loops
  <2>2. CASE dayOf[w] > d
    BY <1>3, <2>2, <1>h, <1>c, Bounds DEF Loops
  <2> HIDE DEF Was, Will
  <2> QED
    BY <1>a, <2>1, <2>2
<1>4. ASSUME Stops(w) PROVE Will <= Was
  <2>1. CASE pc'[w] = "idle"
    BY <2>1, <1>e, <1>c, Bounds DEF AfterStage
  <2>2. CASE pc[w] \in InLoop /\ pc'[w] = "extract" /\ dayOf'[w] = dayOf[w]
    <3>1. CASE dayOf[w] <= d
      BY <2>2, <3>1, <1>e, <1>f, Bounds DEF AfterStage
    <3>2. CASE dayOf[w] > d
      BY <2>2, <3>2, <1>h, <1>c, Bounds
    <3> HIDE DEF Was, Will
    <3> QED
      BY <1>a, <3>1, <3>2
  <2> QED
    BY <1>4, <2>1, <2>2 DEF Stops
<1>5. ASSUME NEW n \in Nat, NEW day, NEW next \in {"select", "extract", "done"}, Presents(w, n, day, next)
      PROVE  Will <= n + AfterStage(next)
  <2>1. spent'[w] = n /\ then'[w] = next /\ pc'[w] = IF n = 0 THEN next ELSE "billGlobal"
    BY <1>5 DEF Presents
  <2>2. AfterStage(next) \in Nat
    BY Bounds DEF AfterStage
  <2>3. CASE n = 0
    <3>1. pc'[w] = next
      BY <2>1, <2>3
    <3>2. CASE next = "select"
      BY <3>1, <3>2, <2>2, <2>3, <1>g, Bounds DEF AfterStage, InLoop
    <3>3. CASE next # "select"
      BY <3>1, <3>3, <2>2, <2>3, <1>e, Bounds
    <3> QED
      BY <3>2, <3>3
  <2>4. CASE n # 0
    <3>1. pc'[w] = "billGlobal" /\ BillFor(w, d)' <= n
      BY <2>1, <2>4, <1>d
    <3>2. Will = 0 \/ Will = BillFor(w, d)' + AfterStage(next)
      BY <3>1, <2>1, <1>b DEF ForCounter, MayBill, Befores, Unpaids, Unopened, InLoop, Billing
    <3> QED
      BY <3>1, <3>2, <2>2, <1>d
  <2> QED
    BY <2>3, <2>4
<1>6. ASSUME Charges(w) PROVE Will <= Was
  <2>1. dayOf'[w] = dayOf[w]
    BY <1>6 DEF Charges, Presents
  <2>2. CASE dayOf[w] > d
    BY <2>1, <2>2, <1>h, <1>c, Bounds
  <2>3. CASE dayOf[w] <= d
    <3>1. ASSUME pc[w] = "flush", NEW n \in 0..FlushTokens, Presents(w, n, today, "select")
          PROVE  Will <= Was
      <4>1. Was = TurnMax
        BY <3>1, <2>3, <1>a DEF ForCounter, MayBill, Befores, Unopened
      <4>2. n \in Nat /\ n <= FlushTokens /\ AfterStage("select") = MaxReplies + ExtractTokens
        BY Bounds DEF AfterStage
      <4>3. Will <= n + AfterStage("select")
        BY <3>1, <4>2, <1>5
      <4>4. Will \in 0..TurnMax
        BY <1>b, RangeNext
      <4> HIDE DEF Was, Will
      <4> QED
        BY <4>1, <4>2, <4>3, <4>4, Bounds
    <3>2. ASSUME pc[w] = "try", replies[w] < MaxReplies, Presents(w, spent[w] + 1, dayOf[w], "extract")
          PROVE  Will <= Was
      <4>1. Was = MaxReplies + ExtractTokens
        BY <3>2, <2>3, <1>f DEF InLoop
      <4>2. spent[w] <= replies[w] /\ AfterStage("extract") = ExtractTokens
        BY <3>2 DEF BillsAreCapped, InLoop, AfterStage
      <4>3. Will <= (spent[w] + 1) + AfterStage("extract")
        BY <3>2, <1>a, <1>5
      <4>4. Will \in 0..TurnMax
        BY <1>b, RangeNext
      <4> HIDE DEF Was, Will
      <4> QED
        BY <3>2, <4>1, <4>2, <4>3, <4>4, <1>a, Bounds
    <3>3. ASSUME pc[w] = "extract", NEW n \in 0..ExtractTokens, Presents(w, n, today, "done")
          PROVE  Will <= Was
      <4>1. Was = ExtractTokens
        BY <3>3, <2>3, <1>a, <1>b DEF ForCounter, MayBill, Befores, Unopened, InLoop, Billing, AfterStage
      <4>2. n \in Nat /\ n <= ExtractTokens /\ AfterStage("done") = 0
        BY Bounds DEF AfterStage
      <4>3. Will <= n + AfterStage("done")
        BY <3>3, <4>2, <1>5
      <4>4. Will \in 0..TurnMax
        BY <1>b, RangeNext
      <4> HIDE DEF Was, Will
      <4> QED
        BY <4>1, <4>2, <4>3, <4>4, Bounds
    <3> HIDE DEF Was, Will
    <3> QED
      BY <1>6, <3>1, <3>2, <3>3 DEF Charges
  <2> HIDE DEF Was, Will
  <2> QED
    BY <1>a, <2>2, <2>3
<1> HIDE DEF Was, Will
<1>7. /\ Opens(w) /\ today >= d => Will = 0
      /\ Refuses(w) => Will <= ExtractTokens
      /\ Charges(w) \/ Loops(w) \/ Stops(w) => Will <= Was
  BY <1>1, <1>2, <1>3, <1>4, <1>6
<1> QED
  BY <1>7 DEF Was, Will

\* A step changes the global counter, with what its worker may still add to it,
\* by no more than the extraction after a refusal.
LEMMA GlobalBalance ==
  ASSUME TurnInv, TurnInv', BillsAreCapped, BillsAreCapped', DaysAreOrdered,
         NEW w \in Worker, OthersKept(w), BudgetStep(w), NEW d \in Day,
         globalSpent'[d] >= GlobalCeiling
  PROVE  \/ /\ notices' = notices
            /\ globalSpent'[d] + ForGlobal(w, d)' <= globalSpent[d] + ForGlobal(w, d)
         \/ /\ notices' = notices + 1
            /\ globalSpent'[d] + ForGlobal(w, d)'
                 <= globalSpent[d] + ForGlobal(w, d) + ExtractTokens
<1> DEFINE Was == ForGlobal(w, d)
           Will == ForGlobal(w, d)'
<1>a. {"admitGlobal"} \in Befores /\ {"billGlobal"} \in Unpaids /\ {"billGlobal"} \in SUBSET Billing
  BY DEF Befores, Unpaids, Billing
<1>b. Was \in 0..TurnMax /\ Will \in 0..TurnMax
  BY <1>a, RangeNow, RangeNext DEF ForGlobal
<1>c. Was \in Nat /\ Will \in Nat /\ globalSpent[d] \in Nat /\ globalSpent'[d] \in Nat
  BY <1>b, Bounds DEF TurnInv, SharedTypeOK
<1>d. /\ Opens(w) /\ today >= d => Will = 0
      /\ Refuses(w) => Will <= ExtractTokens
      /\ Charges(w) \/ Loops(w) \/ Stops(w) => Will <= Was
  BY <1>a, AlikeSteps DEF ForGlobal
<1>e. /\ pc[w] \in Stage /\ then[w] \in {"select", "extract", "done"} /\ spent[w] \in Nat
      /\ dayOf[w] \in Nat /\ billDay[w] \in Day /\ d \in Nat /\ today \in Nat
  <2>1. /\ pc[w] \in Stage /\ then[w] \in {"select", "extract", "done"}
        /\ spent[w] \in Nat /\ dayOf[w] \in Day /\ billDay[w] \in Day
    BY DEF TurnInv, LoopTypeOK
  <2>2. today \in Day
    BY DEF TurnInv, SharedTypeOK
  <2> QED
    BY <2>1, <2>2 DEF Day
<1> HIDE DEF Was, Will
<1>1. CASE Opens(w)
  <2>1. globalSpent'[d] = globalSpent[d] /\ notices' = notices
    BY <1>1 DEF Opens, budgetVars
  <2>2. today >= d
    BY <2>1, <1>e, Bounds DEF DaysAreOrdered
  <2> QED
    BY <1>1, <1>c, <1>d, <2>1, <2>2 DEF Was, Will
<1>2. CASE Charges(w) \/ Loops(w) \/ Stops(w)
  <2>1. globalSpent'[d] = globalSpent[d] /\ notices' = notices
    BY <1>2 DEF Charges, Loops, Stops, budgetVars
  <2> QED
    BY <1>2, <1>c, <1>d, <2>1 DEF Was, Will
<1>3. CASE Refuses(w)
  <2>1. globalSpent'[d] = globalSpent[d] /\ notices' = notices + 1
    BY <1>3 DEF Refuses
  <2> QED
    BY <1>3, <1>c, <1>d, <2>1, Bounds DEF Was, Will
<1>4. CASE Admits(w)
  <2>1. globalSpent'[d] = globalSpent[d] /\ notices' = notices
    BY <1>4 DEF Admits, budgetVars
  <2>2. Will = Was
    <3>1. CASE pc[w] = "admitGlobal" /\ pc'[w] = "admitConv" /\ globalSpent[dayOf[w]] < GlobalCeiling
      <4>1. dayOf[w] # d
        BY <3>1, <2>1, <1>c, Bounds
      <4>2. dayOf[w] > d \/ dayOf[w] < d
        BY <4>1, <1>e
      <4> QED
        BY <1>4, <3>1, <4>2, <1>e DEF Admits, OwnKept, Was, Will, ForGlobal, ForCounter, MayBill, Unopened
    <3>2. CASE pc[w] = "admitConv" /\ pc'[w] = "flush"
      BY <1>4, <3>2 DEF Admits, OwnKept, Was, Will, ForGlobal, ForCounter, MayBill, Unopened
    <3> QED
      BY <1>4, <3>1, <3>2 DEF Admits
  <2> QED
    BY <2>1, <2>2, <1>c DEF Was, Will
<1>5. CASE PaysGlobal(w)
  <2>1. notices' = notices /\ pc[w] = "billGlobal" /\ pc'[w] = "billConv" /\ OwnKept(w)
    BY <1>5 DEF PaysGlobal
  <2>2. globalSpent'[d] = globalSpent[d] + BillFor(w, d)
    <3>1. globalSpent \in [Day -> Nat]
      BY DEF TurnInv, SharedTypeOK
    <3> QED
      BY <1>5, <3>1, <1>c, <1>e DEF PaysGlobal, BillFor
  <2>3. CASE dayOf[w] > d
    <3>1. billDay[w] \in dayOf[w]..today
      BY <2>1 DEF DaysAreOrdered, Billing
    <3>2. BillFor(w, d) = 0
      BY <3>1, <2>3, <1>e DEF BillFor
    <3>3. Will = 0
      BY <2>1, <2>3 DEF OwnKept, Will, ForGlobal, ForCounter
    <3> QED
      BY <2>1, <2>2, <3>2, <3>3, <1>c DEF Was, Will
  <2>4. CASE dayOf[w] <= d
    <3>1. Was = BillFor(w, d) + AfterStage(then[w])
      BY <2>1, <2>4, <1>e DEF Was, ForGlobal, ForCounter, MayBill, Unopened, InLoop
    <3>2. Will = AfterStage(then[w])
      BY <2>1, <2>4, <1>e DEF OwnKept, Will, ForGlobal, ForCounter, MayBill, Unopened, InLoop, Billing
    <3>3. AfterStage(then[w]) \in Nat /\ BillFor(w, d) \in Nat
      BY <1>e, Bounds DEF AfterStage, BillFor
    <3> QED
      BY <2>1, <2>2, <3>1, <3>2, <3>3, <1>c DEF Was, Will
  <2> QED
    BY <2>3, <2>4, <1>e
<1>6. CASE PaysConversation(w)
  <2>1. globalSpent'[d] = globalSpent[d] /\ notices' = notices
    BY <1>6 DEF PaysConversation
  <2>2. Will <= Was
    <3>1. CASE dayOf[w] > d
      BY <1>6, <3>1, <1>c DEF PaysConversation, Will, ForGlobal, ForCounter
    <3>2. CASE dayOf[w] <= d
      <4>1. Was = AfterStage(then[w])
        BY <1>6, <3>2, <1>e DEF PaysConversation, Was, ForGlobal, ForCounter, MayBill, Unopened, InLoop, Billing
      <4>2. Will = AfterStage(then[w])
        BY <1>6, <3>2, <1>e DEF PaysConversation, Will, ForGlobal, ForCounter, MayBill, Unopened,
                                InLoop, Billing, AfterStage
      <4> QED
        BY <4>1, <4>2, <1>c
    <3> QED
      BY <3>1, <3>2, <1>e
  <2> QED
    BY <2>1, <2>2, <1>c DEF Was, Will
<1> QED
  BY <1>1, <1>2, <1>3, <1>4, <1>5, <1>6 DEF BudgetStep

\* So does it with the counter of its conversation, and leaves the others alone.
LEMMA ConversationBalance ==
  ASSUME TurnInv, TurnInv', BillsAreCapped, BillsAreCapped', DaysAreOrdered,
         NEW w \in Worker, OthersKept(w), BudgetStep(w), NEW d \in Day, NEW c \in Conversation,
         convSpent'[d][c] >= ConversationCeiling
  PROVE  /\ conv[w] = c /\ conv'[w] = c =>
              \/ /\ notices' = notices
                 /\ convSpent'[d][c] + ForConversation(w, d)'
                      <= convSpent[d][c] + ForConversation(w, d)
              \/ /\ notices' = notices + 1
                 /\ convSpent'[d][c] + ForConversation(w, d)'
                      <= convSpent[d][c] + ForConversation(w, d) + ExtractTokens
         /\ conv[w] # c /\ conv'[w] = c => ForConversation(w, d)' = 0
         /\ convSpent'[d][c] # convSpent[d][c] => conv[w] = c /\ conv'[w] = c
         /\ notices' \in {notices, notices + 1}
<1> DEFINE Was == ForConversation(w, d)
           Will == ForConversation(w, d)'
<1>a. {"admitGlobal", "admitConv"} \in Befores /\ Billing \in Unpaids /\ Billing \in SUBSET Billing
  BY DEF Befores, Unpaids
<1>b. Was \in 0..TurnMax /\ Will \in 0..TurnMax
  BY <1>a, RangeNow, RangeNext DEF ForConversation
<1>c. Was \in Nat /\ Will \in Nat /\ convSpent[d][c] \in Nat /\ convSpent'[d][c] \in Nat
  BY <1>b, Bounds DEF TurnInv, SharedTypeOK
<1>d. /\ Opens(w) /\ today >= d => Will = 0
      /\ Refuses(w) => Will <= ExtractTokens
      /\ Charges(w) \/ Loops(w) \/ Stops(w) => Will <= Was
  BY <1>a, AlikeSteps DEF ForConversation
<1>e. /\ pc[w] \in Stage /\ then[w] \in {"select", "extract", "done"} /\ spent[w] \in Nat
      /\ dayOf[w] \in Nat /\ billDay[w] \in Day /\ d \in Nat /\ today \in Nat
  <2>1. /\ pc[w] \in Stage /\ then[w] \in {"select", "extract", "done"}
        /\ spent[w] \in Nat /\ dayOf[w] \in Day /\ billDay[w] \in Day
    BY DEF TurnInv, LoopTypeOK
  <2>2. today \in Day
    BY DEF TurnInv, SharedTypeOK
  <2> QED
    BY <2>1, <2>2 DEF Day
<1>f. ASSUME ~PaysConversation(w) PROVE convSpent' = convSpent
  BY <1>f DEF BudgetStep, Opens, Admits, Refuses, Charges, PaysGlobal, Loops, Stops, budgetVars
<1>g. ASSUME ~Opens(w), conv'[w] = c PROVE conv[w] = c
  <2>1. c # None
    OBVIOUS
  <2> QED
    BY <1>g, <2>1 DEF BudgetStep, Admits, Refuses, Charges, Presents, PaysGlobal, PaysConversation,
       Loops, Stops, OwnKept
<1>h. notices' \in {notices, notices + 1}
  BY DEF BudgetStep, Opens, Admits, Refuses, Charges, PaysGlobal, PaysConversation, Loops, Stops, budgetVars
<1> HIDE DEF Was, Will
<1> DEFINE Bal == \/ notices' = notices /\ convSpent'[d][c] + Will <= convSpent[d][c] + Was
                  \/ /\ notices' = notices + 1
                     /\ convSpent'[d][c] + Will <= convSpent[d][c] + Was + ExtractTokens
<1>1. ASSUME Opens(w) PROVE Will = 0 /\ conv[w] # conv'[w]
  <2>1. convSpent'[d][c] = convSpent[d][c]
    BY <1>1 DEF Opens, budgetVars
  <2>2. today >= d
    BY <2>1, <1>e, Bounds DEF DaysAreOrdered
  <2> QED
    BY <1>1, <1>d, <2>2 DEF Opens
<1>2. ASSUME Charges(w) \/ Loops(w) \/ Stops(w) PROVE Bal
  <2>1. convSpent'[d][c] = convSpent[d][c] /\ notices' = notices
    BY <1>2 DEF Charges, Loops, Stops, budgetVars
  <2> QED
    BY <1>2, <1>c, <1>d, <2>1
<1>3. ASSUME Refuses(w) PROVE Bal
  <2>1. convSpent'[d][c] = convSpent[d][c] /\ notices' = notices + 1
    BY <1>3 DEF Refuses
  <2> QED
    BY <1>3, <1>c, <1>d, <2>1, Bounds
<1>4. ASSUME Admits(w), conv[w] = c PROVE Bal
  <2>1. convSpent'[d][c] = convSpent[d][c] /\ notices' = notices
    BY <1>4 DEF Admits, budgetVars
  <2>2. Will = Was
    <3>1. CASE pc[w] = "admitGlobal" /\ pc'[w] = "admitConv"
      BY <1>4, <3>1, <1>e DEF Admits, OwnKept, Was, Will, ForConversation, ForCounter, MayBill, Unopened
    <3>2. CASE pc[w] = "admitConv" /\ pc'[w] = "flush" /\ convSpent[dayOf[w]][conv[w]] < ConversationCeiling
      <4>1. dayOf[w] # d
        BY <1>4, <3>2, <2>1, <1>c, Bounds
      <4>2. dayOf[w] > d \/ dayOf[w] < d
        BY <4>1, <1>e
      <4> QED
        BY <1>4, <3>2, <4>2, <1>e DEF Admits, OwnKept, Was, Will, ForConversation, ForCounter, MayBill, Unopened
    <3> QED
      BY <1>4, <3>1, <3>2 DEF Admits
  <2> QED
    BY <2>1, <2>2, <1>c
<1>5. ASSUME PaysGlobal(w) PROVE Bal
  <2>1. convSpent'[d][c] = convSpent[d][c] /\ notices' = notices
    BY <1>5 DEF PaysGlobal
  <2>2. Will = Was
    <3>1. BillFor(w, d)' = BillFor(w, d)
      BY <1>5 DEF PaysGlobal, OwnKept, BillFor
    <3> QED
      BY <1>5, <3>1, <1>e DEF PaysGlobal, OwnKept, Was, Will, ForConversation, ForCounter, MayBill,
                     Unopened, InLoop, Billing
  <2> QED
    BY <2>1, <2>2, <1>c
<1>6. ASSUME PaysConversation(w) PROVE (conv[w] = c => Bal) /\ conv'[w] = conv[w]
                                       /\ (conv[w] # c => convSpent'[d][c] = convSpent[d][c])
  <2>0. convSpent \in [Day -> [Conversation -> Nat]] /\ conv'[w] = conv[w] /\ notices' = notices
    BY <1>6 DEF PaysConversation, TurnInv, SharedTypeOK
  <2>1. ASSUME conv[w] # c PROVE convSpent'[d][c] = convSpent[d][c]
    BY <1>6, <2>0, <2>1, <1>e DEF PaysConversation
  <2>2. ASSUME conv[w] = c PROVE Bal
    <3>1. convSpent'[d][c] = convSpent[d][c] + BillFor(w, d)
      BY <1>6, <2>0, <2>2, <1>c, <1>e DEF PaysConversation, BillFor
    <3>2. BillFor(w, d) \in Nat /\ AfterStage(then[w]) \in Nat
      BY <1>e, Bounds DEF AfterStage, BillFor
    <3>3. CASE dayOf[w] > d
      <4>1. billDay[w] \in dayOf[w]..today
        BY <1>6 DEF PaysConversation, DaysAreOrdered, Billing
      <4>2. BillFor(w, d) = 0
        BY <4>1, <3>3, <1>e DEF BillFor
      <4>3. Will = 0
        BY <1>6, <3>3 DEF PaysConversation, Will, ForConversation, ForCounter
      <4> QED
        BY <2>0, <3>1, <4>2, <4>3, <1>c
    <3>4. CASE dayOf[w] <= d
      <4>1. Was = BillFor(w, d) + AfterStage(then[w])
        BY <1>6, <3>4, <1>e DEF PaysConversation, Was, ForConversation, ForCounter, MayBill, Unopened, InLoop, Billing
      <4>2. Will = AfterStage(then[w])
        BY <1>6, <3>4, <1>e DEF PaysConversation, Will, ForConversation, ForCounter, MayBill,
                                Unopened, InLoop, Billing, AfterStage
      <4> QED
        BY <2>0, <3>1, <3>2, <4>1, <4>2, <1>c
    <3> QED
      BY <3>3, <3>4, <1>e
  <2> QED
    BY <2>0, <2>1, <2>2
<1>7. conv[w] = c /\ conv'[w] = c => Bal
  BY <1>1, <1>2, <1>3, <1>4, <1>5, <1>6 DEF BudgetStep
<1>8. conv[w] # c /\ conv'[w] = c => Will = 0
  BY <1>1, <1>g
<1>9. convSpent'[d][c] # convSpent[d][c] => conv[w] = c /\ conv'[w] = c
  BY <1>f, <1>6
<1> QED
  BY <1>h, <1>7, <1>8, <1>9 DEF Was, Will

\* The sums before and after a step of w, over the turns in flight.
LEMMA InFlightChange ==
  ASSUME TurnInv, TurnInv', BillsAreCapped, BillsAreCapped', NEW w \in Worker, NEW d \in Day,
         OthersKept(w)
  PROVE  /\ InFlight(d)' + ForGlobal(w, d) = InFlight(d) + ForGlobal(w, d)'
         /\ InFlight(d) \in Nat /\ InFlight(d)' \in Nat
         /\ InFlight(d) <= Cardinality(Worker) * TurnMax
         /\ Cardinality(Worker) \in Nat
         /\ ForGlobal(w, d) \in Nat /\ ForGlobal(w, d)' \in Nat
<1> DEFINE f == [v \in Worker |-> ForGlobal(v, d)]
           g == [v \in Worker |-> ForGlobal(v, d)']
<1>1. \A v \in Worker : ForGlobal(v, d) \in 0..TurnMax /\ ForGlobal(v, d)' \in 0..TurnMax
  BY RangeNow, RangeNext DEF ForGlobal, Billing
<1>2. f \in [Worker -> 0..TurnMax] /\ g \in [Worker -> 0..TurnMax]
  BY <1>1
<1>3. \A v \in Worker \ {w} : f[v] = g[v]
  BY DEF OthersKept, OwnKept, ForGlobal, ForCounter, BillFor
<1>4. InFlight(d) = Cardinality(Units(f)) /\ InFlight(d)' = Cardinality(Units(g))
  BY DEF InFlight
<1>5. f[w] = ForGlobal(w, d) /\ g[w] = ForGlobal(w, d)'
  OBVIOUS
<1>6. ForGlobal(w, d) \in Nat /\ ForGlobal(w, d)' \in Nat
  BY <1>1, Bounds
<1> HIDE DEF f, g
<1>7. /\ Cardinality(Units(g)) + f[w] = Cardinality(Units(f)) + g[w]
      /\ Cardinality(Units(f)) \in Nat /\ Cardinality(Units(g)) \in Nat
      /\ Cardinality(Units(f)) <= Cardinality(Worker) * TurnMax
      /\ Cardinality(Worker) \in Nat
  BY <1>2, <1>3, UnitsChange
<1> QED
  BY <1>4, <1>5, <1>6, <1>7

\* What the refusals have made room for.
LEMMA Room ==
  ASSUME TurnInv, notices' \in {notices, notices + 1}
  PROVE  /\ notices * ExtractTokens \in Nat
         /\ notices' = notices => notices' * ExtractTokens = notices * ExtractTokens
         /\ notices' = notices + 1 =>
                notices' * ExtractTokens = notices * ExtractTokens + ExtractTokens
<1>1. notices \in Nat
  BY DEF TurnInv, SharedTypeOK
<1>2. \A m, n \in Nat : m * n \in Nat /\ (m + 1) * n = m * n + n
  OBVIOUS
<1> QED
  BY <1>1, <1>2, Bounds

\* The global counter keeps its room.
LEMMA GlobalRoomStep ==
  ASSUME TurnInv, TurnInv', BillsAreCapped, BillsAreCapped', DaysAreOrdered, GlobalRoom,
         OnlyTimePasses \/ \E w \in Worker : OthersKept(w) /\ BudgetStep(w)
  PROVE  GlobalRoom'
<1> SUFFICES ASSUME NEW d \in Day, globalSpent'[d] >= GlobalCeiling
             PROVE  globalSpent'[d] + InFlight(d)' < GlobalMost'
  <2>1. \A d \in Day : globalSpent'[d] \in Nat
    BY DEF TurnInv, SharedTypeOK
  <2> QED
    BY <2>1, Bounds DEF GlobalRoom
<1>a. globalSpent[d] \in Nat /\ globalSpent'[d] \in Nat
  BY DEF TurnInv, SharedTypeOK
<1>b. globalSpent[d] < GlobalCeiling \/ globalSpent[d] + InFlight(d) < GlobalMost
  BY DEF GlobalRoom
<1>1. CASE OnlyTimePasses
  <2>1. globalSpent'[d] = globalSpent[d] /\ GlobalMost' = GlobalMost
    BY <1>1 DEF OnlyTimePasses, GlobalMost
  <2>2. \A v \in Worker : ForGlobal(v, d)' = ForGlobal(v, d)
    BY <1>1 DEF OnlyTimePasses, OwnKept, ForGlobal, ForCounter, BillFor
  <2>3. InFlight(d)' = InFlight(d)
    BY <2>2 DEF InFlight
  <2> QED
    BY <2>1, <2>3, <1>a, <1>b, Bounds
<1>2. ASSUME NEW w \in Worker, OthersKept(w), BudgetStep(w)
      PROVE  globalSpent'[d] + InFlight(d)' < GlobalMost'
  <2>1. \/ /\ notices' = notices
           /\ globalSpent'[d] + ForGlobal(w, d)' <= globalSpent[d] + ForGlobal(w, d)
        \/ /\ notices' = notices + 1
           /\ globalSpent'[d] + ForGlobal(w, d)'
                <= globalSpent[d] + ForGlobal(w, d) + ExtractTokens
    BY <1>2, GlobalBalance
  <2>2. /\ InFlight(d)' + ForGlobal(w, d) = InFlight(d) + ForGlobal(w, d)'
        /\ InFlight(d) \in Nat /\ InFlight(d)' \in Nat
        /\ InFlight(d) <= Cardinality(Worker) * TurnMax
        /\ Cardinality(Worker) \in Nat
        /\ ForGlobal(w, d) \in Nat /\ ForGlobal(w, d)' \in Nat
    BY <1>2, InFlightChange
  <2>3. /\ notices * ExtractTokens \in Nat
        /\ notices' = notices => notices' * ExtractTokens = notices * ExtractTokens
        /\ notices' = notices + 1 =>
               notices' * ExtractTokens = notices * ExtractTokens + ExtractTokens
    BY <2>1, Room
  <2>4. PICK x : x = Cardinality(Worker) * TurnMax
    OBVIOUS
  <2>5. PICK n : n = notices * ExtractTokens
    OBVIOUS
  <2>6. PICK m : m = notices' * ExtractTokens
    OBVIOUS
  <2>7. x \in Nat /\ n \in Nat
    <3>1. \A i, j \in Nat : i * j \in Nat
      OBVIOUS
    <3> QED
      BY <2>2, <2>3, <2>4, <2>5, <3>1, Bounds
  <2>8. GlobalMost = GlobalCeiling + x + n /\ GlobalMost' = GlobalCeiling + x + m
    BY <2>4, <2>5, <2>6 DEF GlobalMost
  <2>9. (m = n /\ notices' = notices) \/ (m = n + ExtractTokens /\ notices' = notices + 1)
    <3>1. notices' = notices \/ notices' = notices + 1
      BY <2>1
    <3> QED
      BY ONLY <3>1, <2>3, <2>5, <2>6, Zenon
  <2>10. InFlight(d) <= x
    BY <2>2, <2>4
  <2>11. globalSpent'[d] + InFlight(d)' <= globalSpent[d] + InFlight(d) + (m - n) /\ m \in Nat /\ m >= n
    <3>1. \/ m = n /\ globalSpent'[d] + ForGlobal(w, d)' <= globalSpent[d] + ForGlobal(w, d)
          \/ /\ m = n + ExtractTokens
             /\ globalSpent'[d] + ForGlobal(w, d)' <= globalSpent[d] + ForGlobal(w, d) + ExtractTokens
      <4>1. notices \in Nat
        BY DEF TurnInv, SharedTypeOK
      <4> QED
        BY <4>1, <2>1, <2>9
    <3> QED
      BY <3>1, <2>2, <2>7, <1>a, Bounds
  <2> QED
    BY ONLY <2>7, <2>8, <2>10, <2>11, <2>2, <1>a, <1>b, Bounds
<1> QED
  BY <1>1, <1>2

\* The counter of a conversation keeps its room.
LEMMA ConversationRoomStep ==
  ASSUME TurnInv, TurnInv', BillsAreCapped, BillsAreCapped', DaysAreOrdered, OneTurnEach,
         ConversationRoom,
         OnlyTimePasses \/ \E w \in Worker : OthersKept(w) /\ BudgetStep(w)
  PROVE  ConversationRoom'
<1> SUFFICES ASSUME NEW d \in Day, NEW c \in Conversation, convSpent'[d][c] >= ConversationCeiling
             PROVE  /\ convSpent'[d][c] < ConversationMost'
                    /\ \A v \in Worker : conv'[v] = c =>
                           convSpent'[d][c] + ForConversation(v, d)' < ConversationMost'
  <2>1. \A d \in Day : \A c \in Conversation : convSpent'[d][c] \in Nat
    BY DEF TurnInv, SharedTypeOK
  <2> QED
    BY <2>1, Bounds DEF ConversationRoom
<1>a. convSpent[d][c] \in Nat /\ convSpent'[d][c] \in Nat
  BY DEF TurnInv, SharedTypeOK
<1>b. \/ convSpent[d][c] < ConversationCeiling
      \/ /\ convSpent[d][c] < ConversationMost
         /\ \A v \in Worker : conv[v] = c =>
                convSpent[d][c] + ForConversation(v, d) < ConversationMost
  BY DEF ConversationRoom
<1>1. CASE OnlyTimePasses
  <2>1. convSpent'[d][c] = convSpent[d][c] /\ ConversationMost' = ConversationMost
    BY <1>1 DEF OnlyTimePasses, ConversationMost
  <2>2. \A v \in Worker : conv'[v] = conv[v] /\ ForConversation(v, d)' = ForConversation(v, d)
    BY <1>1 DEF OnlyTimePasses, OwnKept, ForConversation, ForCounter, BillFor
  <2> QED
    BY <2>1, <2>2, <1>a, <1>b, Bounds
<1>2. ASSUME NEW w \in Worker, OthersKept(w), BudgetStep(w)
      PROVE  /\ convSpent'[d][c] < ConversationMost'
             /\ \A v \in Worker : conv'[v] = c =>
                    convSpent'[d][c] + ForConversation(v, d)' < ConversationMost'
  <2> DEFINE Was == ForConversation(w, d)
             Will == ForConversation(w, d)'
  <2>1. /\ conv[w] = c /\ conv'[w] = c =>
              \/ notices' = notices /\ convSpent'[d][c] + Will <= convSpent[d][c] + Was
              \/ /\ notices' = notices + 1
                 /\ convSpent'[d][c] + Will <= convSpent[d][c] + Was + ExtractTokens
        /\ conv[w] # c /\ conv'[w] = c => Will = 0
        /\ convSpent'[d][c] # convSpent[d][c] => conv[w] = c /\ conv'[w] = c
        /\ notices' \in {notices, notices + 1}
    BY <1>2, ConversationBalance
  <2>2. Was \in 0..TurnMax /\ Will \in 0..TurnMax
    BY RangeNow, RangeNext DEF ForConversation, Billing
  <2>3. /\ notices * ExtractTokens \in Nat
        /\ notices' = notices => notices' * ExtractTokens = notices * ExtractTokens
        /\ notices' = notices + 1 =>
               notices' * ExtractTokens = notices * ExtractTokens + ExtractTokens
    BY <2>1, Room
  <2>4. \A v \in Worker \ {w} : conv'[v] = conv[v] /\ ForConversation(v, d)' = ForConversation(v, d)
    BY <1>2 DEF OthersKept, OwnKept, ForConversation, ForCounter, BillFor
  <2> HIDE DEF Was, Will
  <2>5. PICK n : n = notices * ExtractTokens
    OBVIOUS
  <2>6. PICK m : m = notices' * ExtractTokens
    OBVIOUS
  <2>7. n \in Nat /\ notices \in Nat
    BY <2>3, <2>5 DEF TurnInv, SharedTypeOK
  <2>8. (m = n /\ notices' = notices) \/ (m = n + ExtractTokens /\ notices' = notices + 1)
    <3>1. notices' = notices \/ notices' = notices + 1
      BY <2>1
    <3> QED
      BY ONLY <3>1, <2>3, <2>5, <2>6, Zenon
  <2>9. /\ ConversationMost = ConversationCeiling + TurnMax + n
        /\ ConversationMost' = ConversationCeiling + TurnMax + m
    BY <2>5, <2>6 DEF ConversationMost
  <2>10. m \in Nat /\ m >= n
    BY <2>7, <2>8, Bounds
  <2>11. conv[w] = c /\ conv'[w] = c => convSpent'[d][c] + Will <= convSpent[d][c] + Was + (m - n)
    <3>1. conv[w] = c /\ conv'[w] = c =>
              \/ m = n /\ convSpent'[d][c] + Will <= convSpent[d][c] + Was
              \/ m = n + ExtractTokens /\ convSpent'[d][c] + Will <= convSpent[d][c] + Was + ExtractTokens
      BY <2>1, <2>7, <2>8
    <3>2. Was \in Nat /\ Will \in Nat
      BY <2>2, Bounds
    <3> QED
      BY ONLY <3>1, <3>2, <2>7, <1>a, Bounds
  <2>12. Was \in Nat /\ Will \in Nat /\ Was <= TurnMax
    BY <2>2, Bounds
  <2>13. CASE convSpent'[d][c] = convSpent[d][c]
    <3>1. /\ convSpent[d][c] < ConversationMost
          /\ \A v \in Worker : conv[v] = c =>
                 convSpent[d][c] + ForConversation(v, d) < ConversationMost
      BY <2>13, <1>a, <1>b, Bounds
    <3>2. convSpent'[d][c] < ConversationMost'
      BY <3>1, <2>13, <2>9, <2>10, <2>7, <1>a, Bounds
    <3>3. ASSUME NEW v \in Worker, v # w, conv'[v] = c
          PROVE  convSpent'[d][c] + ForConversation(v, d)' < ConversationMost'
      <4>1. convSpent[d][c] + ForConversation(v, d) < ConversationMost
        BY <3>1, <3>3, <2>4
      <4>2. ForConversation(v, d) \in 0..TurnMax
        BY RangeNow DEF ForConversation, Billing
      <4>3. ForConversation(v, d)' = ForConversation(v, d)
        BY <3>3, <2>4
      <4> QED
        BY <4>1, <4>2, <4>3, <2>13, <2>9, <2>10, <2>7, <1>a, Bounds
    <3>4. ASSUME conv'[w] = c PROVE convSpent'[d][c] + Will < ConversationMost'
      <4>1. CASE conv[w] = c
        <5>1. convSpent[d][c] + Was < ConversationMost
          BY <3>1, <4>1 DEF Was
        <5> QED
          BY <5>1, <4>1, <3>4, <2>11, <2>12, <2>9, <2>10, <2>7, <1>a, Bounds
      <4>2. CASE conv[w] # c
        BY <4>2, <3>4, <3>2, <2>1, <2>12, <1>a
      <4> QED
        BY <4>1, <4>2
    <3> QED
      BY <3>2, <3>3, <3>4 DEF Will
  <2>14. CASE convSpent'[d][c] # convSpent[d][c]
    <3>1. conv[w] = c /\ conv'[w] = c
      BY <2>14, <2>1
    <3>2. \A v \in Worker \ {w} : conv'[v] # c
      <4>1. c # None
        OBVIOUS
      <4> QED
        BY <3>1, <4>1, <2>4 DEF OneTurnEach
    <3>3. convSpent'[d][c] + Will < ConversationMost'
      <4>1. convSpent[d][c] + Was < ConversationMost
        <5>1. CASE convSpent[d][c] < ConversationCeiling
          BY <5>1, <2>9, <2>7, <2>12, <1>a, Bounds
        <5>2. CASE convSpent[d][c] >= ConversationCeiling
          BY <5>2, <3>1, <1>a, <1>b, Bounds DEF Was
        <5> QED
          BY <5>1, <5>2, <1>a, Bounds
      <4> QED
        BY <4>1, <3>1, <2>11, <2>12, <2>9, <2>10, <2>7, <1>a, Bounds
    <3>4. convSpent'[d][c] < ConversationMost'
      BY <3>3, <2>12, <2>9, <2>10, <1>a, Bounds
    <3> QED
      BY <3>2, <3>3, <3>4 DEF Will
  <2> QED
    BY <2>13, <2>14
<1> QED
  BY <1>1, <1>2

\* run_turn's allows() and consume() under any interleaving: both counters stay
\* below their ceiling and what the turns in flight and the refused ones bill.
THEOREM BudgetIsKept == Spec => []BudgetOvershoot
<1>1. Init => BudgetInv
  <2>1. Init => TurnInv
    BY DEF Init, TurnInv, LoopTypeOK, SharedTypeOK, Stages, StageFacts, RunsAreApproved,
           AtCall, Clear, Stage, InLoop, Outcome, Day, Request
  <2>2. Init => BillsAreCapped /\ DaysAreOrdered /\ OneTurnEach
    BY DEF Init, BillsAreCapped, DaysAreOrdered, OneTurnEach, InLoop, Billing, Day
  <2>3. Init => GlobalRoom /\ ConversationRoom
    BY Bounds DEF Init, GlobalRoom, ConversationRoom, Day
  <2> QED
    BY <2>1, <2>2, <2>3 DEF BudgetInv
<1>2. BudgetInv /\ [Next]_vars => BudgetInv'
  <2> SUFFICES ASSUME BudgetInv, [Next]_vars PROVE BudgetInv'
    OBVIOUS
  <2>1. TurnInv'
    BY LoopTypes, SharedTypes, StageSteps, ApprovalSteps DEF TurnInv, BudgetInv
  <2>2. OnlyTimePasses \/ \E w \in Worker : OthersKept(w) /\ BudgetStep(w)
    BY BudgetKinds DEF BudgetInv
  <2>3. BillsAreCapped' /\ DaysAreOrdered' /\ OneTurnEach'
    BY <2>1, <2>2, CappedStep, DaysStep, OneTurnStep DEF BudgetInv
  <2>4. GlobalRoom' /\ ConversationRoom'
    BY <2>1, <2>2, <2>3, GlobalRoomStep, ConversationRoomStep DEF BudgetInv
  <2> QED
    BY <2>1, <2>3, <2>4 DEF BudgetInv
<1>3. BudgetInv => BudgetOvershoot
  <2> SUFFICES ASSUME BudgetInv, NEW d \in Day
               PROVE  /\ \A c \in Conversation : convSpent[d][c] < ConversationMost
                      /\ globalSpent[d] < GlobalMost
    BY DEF BudgetOvershoot, ConversationMost, GlobalMost
  <2>1. /\ globalSpent[d] \in Nat /\ notices \in Nat
        /\ \A c \in Conversation : convSpent[d][c] \in Nat
    BY DEF BudgetInv, TurnInv, SharedTypeOK
  <2>2. \A i, j \in Nat : i * j \in Nat
    OBVIOUS
  <2>3. Cardinality(Worker) \in Nat
    BY FS_CardinalityType
  <2>4. notices * ExtractTokens \in Nat /\ Cardinality(Worker) * TurnMax \in Nat
    BY <2>1, <2>2, <2>3, Bounds
  <2>5. GlobalCeiling <= GlobalMost /\ GlobalMost \in Nat
    BY <2>4, Bounds DEF GlobalMost
  <2>6. ConversationCeiling <= ConversationMost /\ ConversationMost \in Nat
    BY <2>4, Bounds DEF ConversationMost
  <2>7. InFlight(d) \in Nat
    <3>1. \A v \in Worker : ForGlobal(v, d) \in 0..TurnMax
      BY RangeNow DEF BudgetInv, ForGlobal, Billing
    <3>2. Units([v \in Worker |-> ForGlobal(v, d)]) \in SUBSET (Worker \X (1..TurnMax))
      BY DEF Units
    <3>3. IsFiniteSet(Worker \X (1..TurnMax))
      BY UpTo, FS_Product, Bounds
    <3>4. IsFiniteSet(Units([v \in Worker |-> ForGlobal(v, d)]))
      BY <3>2, <3>3, FS_Subset
    <3> QED
      BY <3>4, FS_CardinalityType DEF InFlight
  <2>8. globalSpent[d] < GlobalMost
    BY <2>1, <2>5, <2>7, Bounds DEF BudgetInv, GlobalRoom
  <2>9. \A c \in Conversation : convSpent[d][c] < ConversationMost
    BY <2>1, <2>6, Bounds DEF BudgetInv, ConversationRoom
  <2> QED
    BY <2>8, <2>9
<1> QED
  BY <1>1, <1>2, <1>3, PTL DEF Spec

=============================================================================
