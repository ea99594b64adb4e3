-------------------------- MODULE FrontDoorProofs --------------------------
(***************************************************************************)
(* What holds around a turn however messages and operator requests          *)
(* interleave, for any number of processes, senders, cases, profiles,       *)
(* backends and minutes, and for every value of the limits.                 *)
(***************************************************************************)
EXTENDS FrontDoor, TLAPS, FiniteSetTheorems, WellFoundedInduction

USE HandlersAssumption, PairingAssumption, GuardsAssumption, ProfilesAssumption,
    ModerationAssumption

TypeOK ==
    /\ HandlersTypeOK /\ PairingTypeOK /\ ModerationTypeOK
    /\ GuardsTypeOK /\ ProfilesTypeOK /\ EvaluationTypeOK

\* The stages of a message, from its receipt to its answer.
OfMessage == {"access", "moderate", "decide", "countUser", "countChat", "cool", "answer", "complete"}

\* What a process at a stage holds in its variables.
Equipped(p) ==
    /\ stage[p] = "idle" => base[p] = 0
    /\ stage[p] \in OfMessage =>
           who[p] \in User /\ place[p] \in Place /\ (place[p] \in Subject => who[p] \in Subject)
    /\ place[p] \in Case => stage[p] \in OfMessage
    /\ stage[p] \in {"ask", "insert"} => who[p] \in Subject
    /\ stage[p] \in {"countUser", "countChat", "cool"} => base[p] \in 0..MaxMinute
    /\ stage[p] \in {"edit", "version"} => pick[p] \in Profile
    /\ stage[p] = "version" => base[p] < MaxVersion
    /\ stage[p] = "seed" => pick[p] \in 0..MaxProfile /\ base[p] < MaxCase
    /\ stage[p] = "complete" => place[p] \in Case

AskersKnown == \A r \in Live : asker[r] \in Subject

HandlersInv == TypeOK /\ AskersKnown /\ \A p \in Proc : Equipped(p)

\* Who holds the advisory lock of the connection found room for its subject.
PairingInv ==
    /\ \A p \in Proc : stage[p] = "insert" =>
           /\ Cardinality(Live) < PendingLimit
           /\ \A r \in Live : asker[r] # who[p]
           /\ \A q \in Proc : stage[q] = "insert" => q = p
    /\ PairingBounded

Limit(k) == IF k[1] = "user" THEN UserLimit ELSE ChatLimit

\* The turns that were counted under a key, within its limit, and are not
\* through the guards yet.
Counted(k) ==
    {p \in Proc : \/ stage[p] \in {"countChat", "cool"} /\ k = UserKey(who[p], base[p])
                  \/ stage[p] = "cool" /\ k = ChatKey(place[p], base[p])}

\* What a counter says of its turns: every one of them was counted, within the
\* limit, and only the first turn over the limit was refused aloud.
KeyInv(k) ==
    /\ granted[k] + Cardinality(Counted(k)) <= count[k]
    /\ granted[k] + Cardinality(Counted(k)) <= Limit(k)
    /\ refused[k] <= 1
    /\ refused[k] > 0 => count[k] > Limit(k)

GuardsInv == \A k \in Keys : KeyInv(k)

\* The lock on the row of a profile: one editor at a time, and its profile is
\* there.
ProfilesInv ==
    /\ \A p \in Proc : stage[p] = "version" =>
           /\ Exists(pick[p])
           /\ \A q \in Proc : stage[q] = "version" /\ pick[q] = pick[p] => q = p
    /\ PersonaIsNewest

\* A case is ahead of the request that seeds it, or on the stream, or with one
\* worker, or over.
CasesInv ==
    /\ run.status = "NONE" =>
           /\ result = [e \in Case |-> "NONE"] /\ posted = {}
           /\ \A p \in Proc : stage[p] # "seed" /\ place[p] \notin Case
    /\ \A p \in Proc : stage[p] = "seed" =>
           /\ \A q \in Proc : stage[q] = "seed" => q = p
           /\ \A e \in Case : e > base[p] =>
                  e \notin posted \cup Completed /\ \A q \in Proc : place[q] # e
    /\ \A e \in posted : e \notin Completed /\ \A q \in Proc : place[q] # e
    /\ \A p \in Proc : place[p] \in Case =>
           place[p] \notin Completed /\ \A q \in Proc : place[q] = place[p] => q = p

\* What a worker that completes a result has counted.
CountsInv ==
    /\ \A p \in Proc : stage[p] = "complete" =>
           /\ base[p] <= Cardinality(Completed \cup {place[p]})
           /\ ~overlapped =>
                  /\ base[p] = Cardinality(Completed \cup {place[p]})
                  /\ \A q \in Proc : stage[q] = "complete" => q = p
    /\ RunCounts

FrontInv ==
    /\ HandlersInv /\ PairingInv /\ GuardsInv /\ ProfilesInv /\ CasesInv /\ CountsInv
    /\ FlaggedIsWithheld

-----------------------------------------------------------------------------
(* What a step does to the processes.                                      *)

Kept(q) ==
    /\ stage'[q] = stage[q] /\ who'[q] = who[q] /\ place'[q] = place[q]
    /\ pick'[q] = pick[q] /\ base'[q] = base[q]

Others(p) == \A q \in Proc : q # p => Kept(q)

\* A process moves to another stage and keeps what it holds (Goto, and the
\* hooks and guards that fail).
Moves(p, at) ==
    /\ Others(p) /\ stage'[p] = at
    /\ who'[p] = who[p] /\ place'[p] = place[p] /\ pick'[p] = pick[p] /\ base'[p] = base[p]

\* ... or with a number it has read on the way.
MovesWith(p, at, n) ==
    /\ Others(p) /\ stage'[p] = at /\ base'[p] = n
    /\ who'[p] = who[p] /\ place'[p] = place[p] /\ pick'[p] = pick[p]

\* A process is through.
Leaves(p) ==
    /\ Others(p) /\ stage'[p] = "idle"
    /\ who'[p] = None /\ place'[p] = None /\ pick'[p] = 0 /\ base'[p] = 0

\* A process takes up a job.
Enters(p, s, c, k, at) ==
    /\ Others(p) /\ stage[p] = "idle" /\ stage'[p] = at
    /\ who'[p] = s /\ place'[p] = c /\ pick'[p] = k /\ base'[p] = base[p]

AllKept == \A q \in Proc : Kept(q)

\* A change of the stage only.
LEMMA MovesFacts ==
    ASSUME HandlersTypeOK, NEW p \in Proc, NEW at \in Stages,
           stage' = [stage EXCEPT ![p] = at], UNCHANGED <<who, place, pick, base>>,
           jobs' \in 0..MaxJobs, faults' \in 0..MaxFaults
    PROVE  Moves(p, at) /\ HandlersTypeOK'
<1>1. stage' \in [Proc -> Stages] /\ stage'[p] = at /\ \A q \in Proc : q # p => stage'[q] = stage[q]
  BY DEF HandlersTypeOK
<1> QED
  BY <1>1 DEF HandlersTypeOK, Moves, Others, Kept

\* Goto.
LEMMA GotoFacts ==
    ASSUME HandlersTypeOK, NEW p \in Proc, NEW at \in Stages, Goto(p, at)
    PROVE  Moves(p, at) /\ HandlersTypeOK'
<1>1. jobs' \in 0..MaxJobs /\ faults' \in 0..MaxFaults
  BY DEF Goto, HandlersTypeOK
<1> QED
  BY <1>1, MovesFacts DEF Goto

\* Read.
LEMMA ReadFacts ==
    ASSUME HandlersTypeOK, NEW p \in Proc, NEW at \in Stages, NEW n \in Nat, Read(p, at, n)
    PROVE  MovesWith(p, at, n) /\ HandlersTypeOK'
<1>1. stage' \in [Proc -> Stages] /\ stage'[p] = at /\ \A q \in Proc : q # p => stage'[q] = stage[q]
  BY DEF HandlersTypeOK, Read
<1>2. base' \in [Proc -> Nat] /\ base'[p] = n /\ \A q \in Proc : q # p => base'[q] = base[q]
  BY DEF HandlersTypeOK, Read
<1> QED
  BY <1>1, <1>2 DEF HandlersTypeOK, MovesWith, Others, Kept, Read

\* Return, by Done or by a failure.
LEMMA ReturnFacts ==
    ASSUME HandlersTypeOK, NEW p \in Proc, Return(p),
           jobs' \in 0..MaxJobs, faults' \in 0..MaxFaults
    PROVE  Leaves(p) /\ HandlersTypeOK'
<1>1. /\ stage' \in [Proc -> Stages] /\ stage'[p] = "idle"
      /\ \A q \in Proc : q # p => stage'[q] = stage[q]
  BY DEF HandlersTypeOK, Return, Stages
<1>2. /\ who' \in [Proc -> User \cup {None}] /\ who'[p] = None
      /\ \A q \in Proc : q # p => who'[q] = who[q]
  BY DEF HandlersTypeOK, Return
<1>3. /\ place' \in [Proc -> Place \cup {None}] /\ place'[p] = None
      /\ \A q \in Proc : q # p => place'[q] = place[q]
  BY DEF HandlersTypeOK, Return
<1>4. /\ pick' \in [Proc -> Nat] /\ pick'[p] = 0
      /\ \A q \in Proc : q # p => pick'[q] = pick[q]
  BY DEF HandlersTypeOK, Return
<1>5. /\ base' \in [Proc -> Nat] /\ base'[p] = 0
      /\ \A q \in Proc : q # p => base'[q] = base[q]
  BY DEF HandlersTypeOK, Return
<1> QED
  BY <1>1, <1>2, <1>3, <1>4, <1>5 DEF HandlersTypeOK, Leaves, Others, Kept

\* Done.
LEMMA DoneFacts ==
    ASSUME HandlersTypeOK, NEW p \in Proc, Done(p)
    PROVE  Leaves(p) /\ HandlersTypeOK'
<1>1. Return(p) /\ jobs' \in 0..MaxJobs /\ faults' \in 0..MaxFaults
  BY DEF Done, HandlersTypeOK
<1> QED
  BY <1>1, ReturnFacts

\* Begin.
LEMMA BeginFacts ==
    ASSUME HandlersTypeOK, NEW p \in Proc, NEW s \in User \cup {None},
           NEW c \in Place \cup {None}, NEW k \in Nat, NEW at \in Stages, Begin(p, s, c, k, at)
    PROVE  Enters(p, s, c, k, at) /\ HandlersTypeOK'
<1>1. /\ stage' \in [Proc -> Stages] /\ stage'[p] = at
      /\ \A q \in Proc : q # p => stage'[q] = stage[q]
  BY DEF HandlersTypeOK, Begin
<1>2. /\ who' \in [Proc -> User \cup {None}] /\ who'[p] = s
      /\ \A q \in Proc : q # p => who'[q] = who[q]
  BY DEF HandlersTypeOK, Begin
<1>3. /\ place' \in [Proc -> Place \cup {None}] /\ place'[p] = c
      /\ \A q \in Proc : q # p => place'[q] = place[q]
  BY DEF HandlersTypeOK, Begin
<1>4. /\ pick' \in [Proc -> Nat] /\ pick'[p] = k
      /\ \A q \in Proc : q # p => pick'[q] = pick[q]
  BY DEF HandlersTypeOK, Begin
<1>5. jobs' \in 0..MaxJobs /\ UNCHANGED <<base, faults>> /\ stage[p] = "idle"
  BY DEF HandlersTypeOK, Begin
<1> QED
  BY <1>1, <1>2, <1>3, <1>4, <1>5 DEF HandlersTypeOK, Enters, Others, Kept

\* Requests of one transaction, and time.
LEMMA RequestFacts ==
    ASSUME HandlersTypeOK, Request \/ Outside
    PROVE  AllKept /\ HandlersTypeOK'
BY DEF HandlersTypeOK, Request, Outside, handlerVars, AllKept, Kept

\* The ways of a process from stage to stage: the order in which
\* _handle_serialized and the requests of the api do things.
Shift(p) ==
    \/ Leaves(p)
    \/ stage[p] = "access" /\ (Moves(p, "moderate") \/ (place[p] \in Subject /\ Moves(p, "ask")))
    \/ stage[p] = "ask" /\ Moves(p, "insert")
    \/ stage[p] = "moderate" /\ Moves(p, "decide")
    \/ stage[p] = "decide" /\ (Moves(p, "answer") \/ MovesWith(p, "countUser", minute))
    \/ stage[p] = "countUser" /\ (Moves(p, "countChat") \/ Moves(p, "answer"))
    \/ stage[p] = "countChat" /\ (Moves(p, "cool") \/ Moves(p, "answer"))
    \/ stage[p] = "cool" /\ Moves(p, "answer")
    \/ /\ stage[p] = "answer" /\ place[p] \in Case
       /\ MovesWith(p, "complete", Cardinality(Completed \cup {place[p]}))
    \/ /\ stage[p] = "edit" /\ versions[pick[p]] < MaxVersion
       /\ MovesWith(p, "version", versions[pick[p]])
    \/ stage[p] = "seed" /\ base[p] + 1 < MaxCase /\ MovesWith(p, "seed", base[p] + 1)
    \/ \E s \in Subject : Enters(p, s, s, 0, "access") \/ Enters(p, s, Group, 0, "access")
    \/ \E e \in Case : Enters(p, Evaluator, e, 0, "access")
    \/ \E s \in Subject : Enters(p, s, None, 0, "ask")
    \/ \E k \in Profile : Enters(p, None, None, k, "edit")
    \/ \E k \in 0..MaxProfile : Enters(p, None, None, k, "seed")

\* A step of a component brings processes only to the stages of Q.
Frame(Q) == \A q \in Proc : Kept(q) \/ stage'[q] \in Q

Shifted(Q) == HandlersTypeOK' /\ (AllKept \/ \E p \in Proc : Shift(p)) /\ Frame(Q)

\* A process that moves, moves to one stage.
LEMMA FrameFacts ==
    ASSUME NEW Q, NEW p \in Proc, Others(p), stage'[p] \in Q
    PROVE  Frame(Q)
BY DEF Frame, Others

\* A step that moves no process brings none anywhere.
LEMMA KeptFrame == AllKept => \A Q : Frame(Q)
BY DEF AllKept, Frame

\* Every stage that is named below is one.
LEMMA StageNames ==
    /\ "idle" \in Stages /\ "access" \in Stages /\ "ask" \in Stages /\ "insert" \in Stages
    /\ "moderate" \in Stages /\ "decide" \in Stages /\ "countUser" \in Stages
    /\ "countChat" \in Stages /\ "cool" \in Stages /\ "answer" \in Stages
    /\ "complete" \in Stages /\ "seed" \in Stages /\ "edit" \in Stages /\ "version" \in Stages
BY DEF Stages

\* A process is through: Done or a failure.
LEMMA LeavesShifts ==
    ASSUME NEW Q, "idle" \in Q, HandlersTypeOK', NEW p \in Proc, Leaves(p)
    PROVE  Shifted(Q)
<1>1. Shift(p) /\ Others(p) /\ stage'[p] \in Q
  BY DEF Shift, Leaves
<1> QED
  BY <1>1, FrameFacts DEF Shifted

PairingStages == {"idle", "moderate", "ask", "insert"}

\* The steps of pairing.
LEMMA PairingShifts == HandlersInv /\ PairingStep => Shifted(PairingStages)
<1> SUFFICES ASSUME HandlersInv, PairingStep PROVE Shifted(PairingStages)
  OBVIOUS
<1>a. HandlersTypeOK /\ "idle" \in PairingStages
  BY DEF HandlersInv, TypeOK, PairingStages
<1>1. ASSUME NEW p \in Proc, CheckAccess(p) PROVE Shifted(PairingStages)
  <2>1. CASE Done(p)
    BY <1>a, <2>1, DoneFacts, LeavesShifts
  <2>2. CASE Goto(p, "moderate")
    <3>1. Moves(p, "moderate") /\ HandlersTypeOK'
      BY <1>a, <2>2, GotoFacts, StageNames
    <3>2. Shift(p)
      BY <1>1, <3>1 DEF CheckAccess, Shift
    <3>3. Others(p) /\ stage'[p] \in PairingStages
      BY <3>1 DEF Moves, PairingStages
    <3> QED
      BY <3>1, <3>2, <3>3, FrameFacts DEF Shifted
  <2>3. CASE place[p] \in Subject /\ Goto(p, "ask")
    <3>1. Moves(p, "ask") /\ HandlersTypeOK'
      BY <1>a, <2>3, GotoFacts, StageNames
    <3>2. Shift(p)
      BY <1>1, <2>3, <3>1 DEF CheckAccess, Shift
    <3>3. Others(p) /\ stage'[p] \in PairingStages
      BY <3>1 DEF Moves, PairingStages
    <3> QED
      BY <3>1, <3>2, <3>3, FrameFacts DEF Shifted
  <2> QED
    BY <1>1, <2>1, <2>2, <2>3 DEF CheckAccess
<1>2. ASSUME NEW p \in Proc, RequestPairing(p) PROVE Shifted(PairingStages)
  <2>1. CASE Done(p)
    BY <1>a, <2>1, DoneFacts, LeavesShifts
  <2>2. CASE Goto(p, "insert")
    <3>1. Moves(p, "insert") /\ HandlersTypeOK'
      BY <1>a, <2>2, GotoFacts, StageNames
    <3>2. Shift(p)
      BY <1>2, <3>1 DEF RequestPairing, Shift
    <3>3. Others(p) /\ stage'[p] \in PairingStages
      BY <3>1 DEF Moves, PairingStages
    <3> QED
      BY <3>1, <3>2, <3>3, FrameFacts DEF Shifted
  <2> QED
    BY <1>2, <2>1, <2>2 DEF RequestPairing
<1>3. ASSUME NEW p \in Proc, InsertRequest(p) PROVE Shifted(PairingStages)
  BY <1>a, <1>3, DoneFacts, LeavesShifts DEF InsertRequest
<1>4. ASSUME NEW p \in Proc, NEW s \in Subject, GeneratePairing(p, s) PROVE Shifted(PairingStages)
  <2>1. Enters(p, s, None, 0, "ask") /\ HandlersTypeOK'
    BY <1>a, <1>4, BeginFacts, StageNames DEF GeneratePairing, User
  <2>2. Shift(p)
    BY <2>1 DEF Shift
  <2>3. Others(p) /\ stage'[p] \in PairingStages
    BY <2>1 DEF Enters, PairingStages
  <2> QED
    BY <2>1, <2>2, <2>3, FrameFacts DEF Shifted
<1>5. CASE SetPolicy
  BY <1>a, <1>5, RequestFacts, KeptFrame DEF SetPolicy, Shifted
<1>6. ASSUME NEW r \in 1..MaxRequest, ApproveRequest(r) \/ DismissRequest(r) \/ RequestLapses(r)
      PROVE  Shifted(PairingStages)
  <2>1. Outside
    BY <1>6 DEF ApproveRequest, DismissRequest, RequestLapses
  <2> QED
    BY <1>a, <2>1, RequestFacts, KeptFrame DEF Shifted
<1> QED
  BY <1>1, <1>2, <1>3, <1>4, <1>5, <1>6 DEF PairingStep

GuardStages == {"idle", "countChat", "cool", "answer"}

\* A move between two stages of the guards.
LEMMA GuardMove ==
    ASSUME NEW p \in Proc, NEW at \in GuardStages, HandlersTypeOK', Moves(p, at),
           \/ stage[p] = "countUser" /\ at \in {"countChat", "answer"}
           \/ stage[p] = "countChat" /\ at \in {"cool", "answer"}
           \/ stage[p] = "cool" /\ at = "answer"
    PROVE  Shifted(GuardStages)
<1>1. Shift(p)
  BY DEF Shift
<1>2. Others(p) /\ stage'[p] \in GuardStages
  BY DEF Moves
<1> QED
  BY <1>1, <1>2, FrameFacts DEF Shifted

\* The steps of the guards.
LEMMA GuardShifts == HandlersInv /\ GuardStep => Shifted(GuardStages)
<1> SUFFICES ASSUME HandlersInv, GuardStep PROVE Shifted(GuardStages)
  OBVIOUS
<1>a. HandlersTypeOK /\ "idle" \in GuardStages
  BY DEF HandlersInv, TypeOK, GuardStages
<1>1. ASSUME NEW p \in Proc, CountUser(p) PROVE Shifted(GuardStages)
  <2>1. Done(p) \/ Goto(p, "countChat") \/ Goto(p, "answer")
    BY <1>1 DEF CountUser, CounterVerdict
  <2>2. stage[p] = "countUser"
    BY <1>1 DEF CountUser
  <2> QED
    BY <1>a, <2>1, <2>2, DoneFacts, LeavesShifts, GotoFacts, GuardMove, StageNames DEF GuardStages
<1>2. ASSUME NEW p \in Proc, CountChat(p) PROVE Shifted(GuardStages)
  <2>1. Done(p) \/ Goto(p, "cool") \/ Goto(p, "answer")
    BY <1>2 DEF CountChat, CounterVerdict
  <2>2. stage[p] = "countChat"
    BY <1>2 DEF CountChat
  <2> QED
    BY <1>a, <2>1, <2>2, DoneFacts, LeavesShifts, GotoFacts, GuardMove, StageNames DEF GuardStages
<1>3. ASSUME NEW p \in Proc, Cool(p) PROVE Shifted(GuardStages)
  <2>1. Done(p) \/ Goto(p, "answer")
    BY <1>3 DEF Cool, Grant
  <2>2. stage[p] = "cool"
    BY <1>3 DEF Cool
  <2> QED
    BY <1>a, <2>1, <2>2, DoneFacts, LeavesShifts, GotoFacts, GuardMove, StageNames DEF GuardStages
<1>4. ASSUME NEW p \in Proc, GuardFails(p) PROVE Shifted(GuardStages)
  <2>1. Moves(p, "answer") /\ HandlersTypeOK'
    <3>1. /\ stage' = [stage EXCEPT ![p] = "answer"] /\ UNCHANGED <<who, place, pick, base, jobs>>
          /\ faults < MaxFaults /\ faults' = faults + 1
      BY <1>4 DEF GuardFails
    <3>2. jobs' \in 0..MaxJobs /\ faults' \in 0..MaxFaults
      BY <1>a, <3>1 DEF HandlersTypeOK
    <3> QED
      BY <1>a, <3>1, <3>2, MovesFacts, StageNames
  <2>2. stage[p] \in {"countUser", "countChat", "cool"} /\ "answer" \in GuardStages
    BY <1>4 DEF GuardFails, GuardStages
  <2> QED
    BY <2>1, <2>2, GuardMove
<1>5. CASE MinutePasses \/ CooldownEnds
  BY <1>a, <1>5, RequestFacts, KeptFrame DEF MinutePasses, CooldownEnds, Shifted
<1> QED
  BY <1>1, <1>2, <1>3, <1>4, <1>5 DEF GuardStep

ProfileStages == {"idle", "edit", "version"}

\* The steps of the profiles.
LEMMA ProfileShifts == HandlersInv /\ ProfileStep => Shifted(ProfileStages)
<1> SUFFICES ASSUME HandlersInv, ProfileStep PROVE Shifted(ProfileStages)
  OBVIOUS
<1>a. HandlersTypeOK /\ ProfilesTypeOK /\ "idle" \in ProfileStages
  BY DEF HandlersInv, TypeOK, ProfileStages
<1>1. CASE \/ CreateProfile
           \/ \E k \in Profile : UpdateProfile(k) \/ DeleteProfile(k)
           \/ \E c \in Place, k \in 0..MaxProfile : BindProfile(c, k)
  <2>1. Request
    BY <1>1 DEF CreateProfile, UpdateProfile, DeleteProfile, BindProfile
  <2> QED
    BY <1>a, <2>1, RequestFacts, KeptFrame DEF Shifted
<1>2. ASSUME NEW p \in Proc, NEW k \in Profile, EditPersona(p, k) \/ RollbackPersona(p, k)
      PROVE  Shifted(ProfileStages)
  <2>1. k \in Nat /\ Begin(p, None, None, k, "edit")
    BY <1>2 DEF EditPersona, RollbackPersona, Profile
  <2>2. Enters(p, None, None, k, "edit") /\ HandlersTypeOK'
    BY <1>a, <2>1, BeginFacts, StageNames
  <2>3. Shift(p)
    BY <2>2 DEF Shift
  <2>4. Others(p) /\ stage'[p] \in ProfileStages
    BY <2>2 DEF Enters, ProfileStages
  <2> QED
    BY <2>2, <2>3, <2>4, FrameFacts DEF Shifted
<1>3. ASSUME NEW p \in Proc, PersonaReads(p) PROVE Shifted(ProfileStages)
  <2>1. /\ stage[p] = "edit"
        /\ \/ Done(p)
           \/ versions[pick[p]] < MaxVersion /\ Read(p, "version", versions[pick[p]])
    BY <1>3 DEF PersonaReads
  <2>2. versions[pick[p]] \in Nat
    BY <1>a, <2>1 DEF HandlersInv, Equipped, ProfilesTypeOK
  <2>3. CASE Done(p)
    BY <1>a, <2>3, DoneFacts, LeavesShifts
  <2>4. CASE versions[pick[p]] < MaxVersion /\ Read(p, "version", versions[pick[p]])
    <3>1. MovesWith(p, "version", versions[pick[p]]) /\ HandlersTypeOK'
      BY <1>a, <2>2, <2>4, ReadFacts, StageNames
    <3>2. Shift(p)
      BY <2>1, <2>4, <3>1 DEF Shift
    <3>3. Others(p) /\ stage'[p] \in ProfileStages
      BY <3>1 DEF MovesWith, ProfileStages
    <3> QED
      BY <3>1, <3>2, <3>3, FrameFacts DEF Shifted
  <2> QED
    BY <2>1, <2>3, <2>4
<1>4. ASSUME NEW p \in Proc, PersonaWrites(p) PROVE Shifted(ProfileStages)
  BY <1>a, <1>4, DoneFacts, LeavesShifts DEF PersonaWrites
<1> QED
  BY <1>1, <1>2, <1>3, <1>4 DEF ProfileStep

EvaluationStages == {"idle", "seed"}

\* The steps of the evaluation.
LEMMA EvaluationShifts == HandlersInv /\ EvaluationStep => Shifted(EvaluationStages)
<1> SUFFICES ASSUME HandlersInv, EvaluationStep PROVE Shifted(EvaluationStages)
  OBVIOUS
<1>a. HandlersTypeOK /\ "idle" \in EvaluationStages
  BY DEF HandlersInv, TypeOK, EvaluationStages
<1>1. ASSUME NEW p \in Proc, NEW k \in 0..MaxProfile, StartRun(p, k) PROVE Shifted(EvaluationStages)
  <2>1. k \in Nat /\ Begin(p, None, None, k, "seed")
    BY <1>1 DEF StartRun
  <2>2. Enters(p, None, None, k, "seed") /\ HandlersTypeOK'
    BY <1>a, <2>1, BeginFacts, StageNames
  <2>3. Shift(p)
    BY <2>2 DEF Shift
  <2>4. Others(p) /\ stage'[p] \in EvaluationStages
    BY <2>2 DEF Enters, EvaluationStages
  <2> QED
    BY <2>2, <2>3, <2>4, FrameFacts DEF Shifted
<1>2. ASSUME NEW p \in Proc, SeedCase(p) PROVE Shifted(EvaluationStages)
  <2>1. /\ stage[p] = "seed" /\ base[p] \in Nat /\ base[p] + 1 \in Case
        /\ IF base[p] + 1 = MaxCase THEN Done(p) ELSE Read(p, "seed", base[p] + 1)
    BY <1>a, <1>2 DEF SeedCase, HandlersTypeOK
  <2>2. CASE Done(p)
    BY <1>a, <2>2, DoneFacts, LeavesShifts
  <2>3. CASE base[p] + 1 # MaxCase /\ Read(p, "seed", base[p] + 1)
    <3>1. base[p] + 1 \in Nat /\ base[p] + 1 < MaxCase
      BY <2>1, <2>3 DEF Case
    <3>2. MovesWith(p, "seed", base[p] + 1) /\ HandlersTypeOK'
      BY <1>a, <2>3, <3>1, ReadFacts, StageNames
    <3>3. Shift(p)
      BY <2>1, <3>1, <3>2 DEF Shift
    <3>4. Others(p) /\ stage'[p] \in EvaluationStages
      BY <3>2 DEF MovesWith, EvaluationStages
    <3> QED
      BY <3>2, <3>3, <3>4, FrameFacts DEF Shifted
  <2> QED
    BY <2>1, <2>2, <2>3
<1>3. ASSUME NEW p \in Proc, SeedFails(p) \/ CompleteResult(p) PROVE Shifted(EvaluationStages)
  BY <1>a, <1>3, DoneFacts, LeavesShifts DEF SeedFails, CompleteResult
<1> QED
  BY <1>1, <1>2, <1>3 DEF EvaluationStep

MessageStages == {"idle", "access", "decide", "answer", "countUser", "complete"}

\* The cases of the run.
LEMMA CaseFacts == IsFiniteSet(Case) /\ Cardinality(Case) = MaxCase
<1>1. 1 \in Int /\ MaxCase \in Int /\ ~(1 > MaxCase) /\ MaxCase - 1 + 1 = MaxCase
  OBVIOUS
<1> QED
  BY <1>1, FS_Interval DEF Case

\* A message is counted by its result when it is completed.
LEMMA CountIsNat ==
    ASSUME NEW c \in Case
    PROVE  Cardinality(Completed \cup {c}) \in Nat
<1>1. Completed \cup {c} \subseteq Case /\ IsFiniteSet(Case)
  BY CaseFacts DEF Completed
<1> QED
  BY <1>1, FS_Subset, FS_CardinalityType

\* The steps of a message.
LEMMA MessageShifts == HandlersInv /\ MessageStep => Shifted(MessageStages)
<1> SUFFICES ASSUME HandlersInv, NEW p \in Proc,
                    \/ \E s \in Subject, c \in Subject \cup {Group} : Receive(p, s, c)
                    \/ \E e \in Case : ReceiveCase(p, e)
                    \/ Fails(p) \/ ModerateInbound(p) \/ Decide(p) \/ Answer(p)
             PROVE  Shifted(MessageStages)
  BY DEF MessageStep
<1>a. HandlersTypeOK /\ "idle" \in MessageStages /\ minute \in Nat
  BY DEF HandlersInv, TypeOK, MessageStages, GuardsTypeOK
<1>b. CASE Done(p)
  BY <1>a, <1>b, DoneFacts, LeavesShifts
<1>1. ASSUME NEW s \in Subject, NEW c \in Subject \cup {Group}, Receive(p, s, c)
      PROVE  Shifted(MessageStages)
  <2>1. Begin(p, s, c, 0, "access") /\ c \in {s, Group} /\ s \in User /\ c \in Place
    BY <1>1 DEF Receive, User, Place
  <2>2. Enters(p, s, c, 0, "access") /\ HandlersTypeOK'
    BY <1>a, <2>1, BeginFacts, StageNames
  <2>3. Shift(p)
    BY <2>1, <2>2 DEF Shift
  <2>4. Others(p) /\ stage'[p] \in MessageStages
    BY <2>2 DEF Enters, MessageStages
  <2> QED
    BY <2>2, <2>3, <2>4, FrameFacts DEF Shifted
<1>2. ASSUME NEW e \in Case, ReceiveCase(p, e) PROVE Shifted(MessageStages)
  <2>1. Begin(p, Evaluator, e, 0, "access") /\ Evaluator \in User /\ e \in Place
    BY <1>2 DEF ReceiveCase, User, Place
  <2>2. Enters(p, Evaluator, e, 0, "access") /\ HandlersTypeOK'
    BY <1>a, <2>1, BeginFacts, StageNames
  <2>3. Shift(p)
    BY <2>2 DEF Shift
  <2>4. Others(p) /\ stage'[p] \in MessageStages
    BY <2>2 DEF Enters, MessageStages
  <2> QED
    BY <2>2, <2>3, <2>4, FrameFacts DEF Shifted
<1>3. CASE stage[p] = "moderate" /\ Moves(p, "decide") /\ HandlersTypeOK'
  <2>1. Shift(p)
    BY <1>3 DEF Shift
  <2>2. Others(p) /\ stage'[p] \in MessageStages
    BY <1>3 DEF Moves, MessageStages
  <2> QED
    BY <1>3, <2>1, <2>2, FrameFacts DEF Shifted
<1>4. CASE Fails(p)
  <2>1. Return(p) /\ jobs' \in 0..MaxJobs /\ faults' \in 0..MaxFaults
    BY <1>a, <1>4 DEF Fails, HandlersTypeOK
  <2> QED
    BY <1>a, <2>1, ReturnFacts, LeavesShifts
<1>5. CASE ModerateInbound(p)
  <2>1. stage[p] = "moderate" /\ (Goto(p, "decide") \/ Done(p))
    BY <1>5 DEF ModerateInbound, Moderate
  <2> QED
    BY <1>a, <1>b, <1>3, <2>1, GotoFacts, StageNames
<1>6. CASE Decide(p)
  <2>1. stage[p] = "decide" /\ (Done(p) \/ Goto(p, "answer") \/ Read(p, "countUser", minute))
    BY <1>6 DEF Decide, Guarded
  <2>2. CASE Goto(p, "answer")
    <3>1. Moves(p, "answer") /\ HandlersTypeOK'
      BY <1>a, <2>2, GotoFacts, StageNames
    <3>2. Shift(p)
      BY <2>1, <3>1 DEF Shift
    <3>3. Others(p) /\ stage'[p] \in MessageStages
      BY <3>1 DEF Moves, MessageStages
    <3> QED
      BY <3>1, <3>2, <3>3, FrameFacts DEF Shifted
  <2>3. CASE Read(p, "countUser", minute)
    <3>1. MovesWith(p, "countUser", minute) /\ HandlersTypeOK'
      BY <1>a, <2>3, ReadFacts, StageNames
    <3>2. Shift(p)
      BY <2>1, <3>1 DEF Shift
    <3>3. Others(p) /\ stage'[p] \in MessageStages
      BY <3>1 DEF MovesWith, MessageStages
    <3> QED
      BY <3>1, <3>2, <3>3, FrameFacts DEF Shifted
  <2> QED
    BY <1>b, <2>1, <2>2, <2>3
<1>7. CASE Answer(p)
  <2> DEFINE n == Cardinality(Completed \cup {place[p]})
  <2>1. stage[p] = "answer" /\ (Done(p) \/ (place[p] \in Case /\ Read(p, "complete", n)))
    BY <1>7 DEF Answer, Moderate, Deliver, CompleteShadow, CountCompleted
  <2>2. CASE place[p] \in Case /\ Read(p, "complete", n)
    <3>1. n \in Nat
      BY <2>2, CountIsNat
    <3> HIDE DEF n
    <3>2. MovesWith(p, "complete", n) /\ HandlersTypeOK'
      BY <1>a, <2>2, <3>1, ReadFacts, StageNames
    <3>3. Shift(p)
      BY <2>1, <2>2, <3>2 DEF Shift, n
    <3>4. Others(p) /\ stage'[p] \in MessageStages
      BY <3>2 DEF MovesWith, MessageStages
    <3> QED
      BY <3>2, <3>3, <3>4, FrameFacts DEF Shifted
  <2> QED
    BY <1>b, <2>1, <2>2
<1> QED
  BY <1>1, <1>2, <1>4, <1>5, <1>6, <1>7

\* The requests of the operator outside the components.
LEMMA OperatorShifts == HandlersInv /\ OperatorStep => Shifted({})
BY RequestFacts, KeptFrame DEF HandlersInv, TypeOK, OperatorStep, EditModeration, Shifted

\* A process that moves holds what its new stage needs.
LEMMA ShiftEquips ==
    ASSUME HandlersInv, AllKept \/ \E p \in Proc : Shift(p)
    PROVE  \A q \in Proc : Equipped(q)'
<1>a. \A q \in Proc : Equipped(q) /\ base[q] \in Nat /\ stage[q] \in Stages
  BY DEF HandlersInv, TypeOK, HandlersTypeOK
<1>b. minute \in 0..MaxMinute
  BY DEF HandlersInv, TypeOK, GuardsTypeOK
<1>1. ASSUME NEW q \in Proc, Kept(q) PROVE Equipped(q)'
  BY <1>a, <1>1 DEF Kept, Equipped
<1>2. ASSUME NEW p \in Proc, Shift(p) PROVE Equipped(p)'
  <2>a. None \notin Case /\ None \notin Subject /\ Case \cap Subject = {} /\ Group \notin Case
    BY DEF Case
  <2>1. CASE Leaves(p)
    BY <2>1, <2>a DEF Leaves, Equipped, OfMessage
  <2>2. CASE stage[p] = "access" /\ (Moves(p, "moderate") \/ (place[p] \in Subject /\ Moves(p, "ask")))
    BY <1>a, <2>2, <2>a DEF Moves, Equipped, OfMessage
  <2>3. CASE stage[p] = "ask" /\ Moves(p, "insert")
    BY <1>a, <2>3, <2>a DEF Moves, Equipped, OfMessage
  <2>4. CASE stage[p] = "moderate" /\ Moves(p, "decide")
    BY <1>a, <2>4 DEF Moves, Equipped, OfMessage
  <2>5. CASE stage[p] = "decide" /\ (Moves(p, "answer") \/ MovesWith(p, "countUser", minute))
    BY <1>a, <1>b, <2>5 DEF Moves, MovesWith, Equipped, OfMessage
  <2>6. CASE \/ stage[p] = "countUser" /\ (Moves(p, "countChat") \/ Moves(p, "answer"))
             \/ stage[p] = "countChat" /\ (Moves(p, "cool") \/ Moves(p, "answer"))
             \/ stage[p] = "cool" /\ Moves(p, "answer")
    BY <1>a, <2>6 DEF Moves, Equipped, OfMessage
  <2>7. CASE /\ stage[p] = "answer" /\ place[p] \in Case
             /\ MovesWith(p, "complete", Cardinality(Completed \cup {place[p]}))
    BY <1>a, <2>7 DEF MovesWith, Equipped, OfMessage
  <2>8. CASE /\ stage[p] = "edit" /\ versions[pick[p]] < MaxVersion
             /\ MovesWith(p, "version", versions[pick[p]])
    BY <1>a, <2>8 DEF MovesWith, Equipped, OfMessage
  <2>9. CASE stage[p] = "seed" /\ base[p] + 1 < MaxCase /\ MovesWith(p, "seed", base[p] + 1)
    BY <1>a, <2>9 DEF MovesWith, Equipped, OfMessage
  <2>10. ASSUME NEW s \in Subject, Enters(p, s, s, 0, "access") \/ Enters(p, s, Group, 0, "access")
         PROVE  Equipped(p)'
    BY <1>a, <2>10 DEF Enters, Equipped, OfMessage, User, Place
  <2>11. ASSUME NEW e \in Case, Enters(p, Evaluator, e, 0, "access") PROVE Equipped(p)'
    BY <1>a, <2>11, <2>a DEF Enters, Equipped, OfMessage, User, Place
  <2>12. ASSUME NEW s \in Subject, Enters(p, s, None, 0, "ask") PROVE Equipped(p)'
    BY <1>a, <2>12, <2>a DEF Enters, Equipped, OfMessage
  <2>13. ASSUME NEW k \in Profile, Enters(p, None, None, k, "edit") PROVE Equipped(p)'
    BY <1>a, <2>13, <2>a DEF Enters, Equipped, OfMessage
  <2>14. ASSUME NEW k \in 0..MaxProfile, Enters(p, None, None, k, "seed") PROVE Equipped(p)'
    BY <1>a, <2>14, <2>a DEF Enters, Equipped, OfMessage
  <2> QED
    BY <1>2, <2>1, <2>2, <2>3, <2>4, <2>5, <2>6, <2>7, <2>8, <2>9, <2>10, <2>11, <2>12,
       <2>13, <2>14 DEF Shift
<1>3. ASSUME NEW p \in Proc, Shift(p) PROVE Others(p)
  BY <1>3 DEF Shift, Leaves, Moves, MovesWith, Enters
<1> QED
  BY <1>1, <1>2, <1>3 DEF AllKept, Others

-----------------------------------------------------------------------------
(* Types.                                                                  *)

\* Requests, policies and approvals.
LEMMA PairingTypes == HandlersInv /\ PairingStep => PairingTypeOK' /\ AskersKnown'
<1> SUFFICES ASSUME HandlersInv, PairingStep PROVE PairingTypeOK' /\ AskersKnown'
  OBVIOUS
<1>a. PairingTypeOK /\ AskersKnown /\ \A p \in Proc : Equipped(p)
  BY DEF HandlersInv, TypeOK
<1>0. CASE UNCHANGED pairingVars
  BY <1>a, <1>0 DEF pairingVars, PairingTypeOK, AskersKnown, Live
<1>1. CASE \E p \in Proc : CheckAccess(p) \/ RequestPairing(p)
  BY <1>0, <1>1 DEF CheckAccess, RequestPairing
<1>2. CASE \E p \in Proc, s \in Subject : GeneratePairing(p, s)
  BY <1>0, <1>2 DEF GeneratePairing
<1>3. ASSUME NEW p \in Proc, InsertRequest(p) PROVE PairingTypeOK' /\ AskersKnown'
  <2>1. PICK r \in 1..MaxRequest :
            /\ asker' = [asker EXCEPT ![r] = who[p]]
            /\ verdict' = [verdict EXCEPT ![r] = "PENDING"]
    BY <1>3 DEF InsertRequest
  <2>2. who[p] \in Subject /\ UNCHANGED <<policy, allowlist, approved>>
    BY <1>a, <1>3 DEF InsertRequest, Equipped
  <2>3. PairingTypeOK'
    BY <1>a, <2>1, <2>2 DEF PairingTypeOK
  <2>4. AskersKnown'
    BY <1>a, <2>1, <2>2 DEF PairingTypeOK, AskersKnown, Live
  <2> QED
    BY <2>3, <2>4
<1>4. CASE SetPolicy
  BY <1>a, <1>4 DEF SetPolicy, StorePolicy, PairingTypeOK, AskersKnown, Live
<1>5. ASSUME NEW r \in 1..MaxRequest, ApproveRequest(r) \/ DismissRequest(r) \/ RequestLapses(r)
      PROVE  PairingTypeOK' /\ AskersKnown'
  <2>1. PICK v \in {"APPROVED", "DISMISSED", "EXPIRED"} : verdict' = [verdict EXCEPT ![r] = v]
    BY <1>5 DEF ApproveRequest, Approve, DismissRequest, Dismiss, RequestLapses
  <2>2. /\ approved' = approved \/ approved' = approved \cup {asker[r]}
        /\ UNCHANGED <<policy, allowlist, asker>> /\ r \in Live
    BY <1>5 DEF ApproveRequest, Approve, DismissRequest, Dismiss, RequestLapses, Live
  <2>3. asker[r] \in Subject
    BY <1>a, <2>2 DEF AskersKnown
  <2>4. verdict' \in [1..MaxRequest -> {"NONE", "PENDING", "APPROVED", "DISMISSED", "EXPIRED"}]
    BY <1>a, <2>1 DEF PairingTypeOK
  <2>5. PairingTypeOK'
    BY <1>a, <2>2, <2>3, <2>4 DEF PairingTypeOK
  <2>6. AskersKnown'
    BY <1>a, <2>1, <2>2 DEF AskersKnown, Live, PairingTypeOK
  <2> QED
    BY <2>5, <2>6
<1> QED
  BY <1>1, <1>2, <1>3, <1>4, <1>5 DEF PairingStep

\* Counters count.
LEMMA GuardTypes == HandlersInv /\ GuardStep => GuardsTypeOK'
<1> SUFFICES ASSUME HandlersInv, GuardStep PROVE GuardsTypeOK'
  OBVIOUS
<1>a. /\ minute \in 0..MaxMinute /\ cooling \subseteq {Group}
      /\ count \in [Keys -> Nat] /\ granted \in [Keys -> Nat] /\ refused \in [Keys -> Nat]
  BY DEF HandlersInv, TypeOK, GuardsTypeOK
<1>b. SUFFICES /\ minute' \in 0..MaxMinute /\ cooling' \subseteq {Group}
               /\ count' \in [Keys -> Nat] /\ granted' \in [Keys -> Nat]
               /\ refused' \in [Keys -> Nat]
  BY DEF GuardsTypeOK
<1>c. ASSUME NEW f \in [Keys -> Nat], NEW k PROVE [f EXCEPT ![k] = @ + 1] \in [Keys -> Nat]
  <2>1. CASE k \in Keys
    BY <2>1
  <2>2. CASE k \notin Keys
    <3>1. [f EXCEPT ![k] = @ + 1] = f
      BY <2>2
    <3> QED
      BY <3>1
  <2> QED
    BY <2>1, <2>2
<1>1. CASE \E p \in Proc : CountUser(p) \/ CountChat(p)
  <2>1. /\ UNCHANGED <<minute, cooling, granted>>
        /\ \E k : count' = [count EXCEPT ![k] = @ + 1]
        /\ refused' = refused \/ \E k : refused' = [refused EXCEPT ![k] = @ + 1]
    BY <1>1 DEF CountUser, CountChat, CounterVerdict
  <2> QED
    BY <1>a, <1>c, <2>1
<1>2. ASSUME NEW p \in Proc, Cool(p)
      PROVE  /\ minute' \in 0..MaxMinute /\ cooling' \subseteq {Group}
             /\ count' \in [Keys -> Nat] /\ granted' \in [Keys -> Nat]
             /\ refused' \in [Keys -> Nat]
  <2>1. /\ UNCHANGED <<minute, count, refused>>
        /\ cooling' = cooling \/ cooling' = {Group}
        /\ granted' = granted \/ Grant(p)
    BY <1>2 DEF Cool
  <2>2. CASE Grant(p)
    <3>1. \E keys :
            granted' = [k \in Keys |-> IF k \in keys THEN granted[k] + 1 ELSE granted[k]]
      BY <2>2 DEF Grant
    <3>3. granted' \in [Keys -> Nat]
      BY <1>a, <3>1
    <3> QED
      BY <1>a, <2>1, <3>3
  <2> QED
    BY <1>a, <2>1, <2>2
<1>3. CASE \E p \in Proc : GuardFails(p)
  <2>1. /\ UNCHANGED <<minute, cooling, granted, refused>>
        /\ count' = count \/ \E k : count' = [count EXCEPT ![k] = @ + 1]
    BY <1>3 DEF GuardFails
  <2> QED
    BY <1>a, <1>c, <2>1
<1>4. CASE MinutePasses \/ CooldownEnds
  BY <1>a, <1>4 DEF MinutePasses, CooldownEnds
<1> QED
  BY <1>1, <1>2, <1>3, <1>4 DEF GuardStep

\* What the steps of a message change besides the process and the moderation:
\* the default profile may be created, a case is taken from the stream or its
\* completion begins.
LEMMA MessageFacts ==
    ASSUME MessageStep
    PROVE  /\ UNCHANGED <<pairingVars, guardVars, result, run>>
           /\ \/ UNCHANGED profileVars
              \/ \E k \in Fresh : AddProfile(k) /\ named' = k /\ UNCHANGED binding
<1> PICK p \in Proc :
        \/ /\ \/ \E s \in Subject, c \in Subject \cup {Group} : Receive(p, s, c)
              \/ \E e \in Case : ReceiveCase(p, e)
              \/ Fails(p) /\ UNCHANGED evaluationVars
           /\ UNCHANGED <<pairingVars, moderationVars, guardVars, profileVars>>
        \/ ModerateInbound(p) /\ UNCHANGED <<pairingVars, guardVars, profileVars, evaluationVars>>
        \/ Decide(p) /\ UNCHANGED <<pairingVars, moderationVars, guardVars, evaluationVars>>
        \/ Answer(p) /\ UNCHANGED <<pairingVars, guardVars>>
  BY DEF MessageStep
<1>1. UNCHANGED <<pairingVars, guardVars>>
  OBVIOUS
<1>2. Answer(p) => UNCHANGED <<profileVars, result, run>>
  BY DEF Answer, Moderate, Deliver, CompleteShadow, CountCompleted, evaluationVars
<1>3. UNCHANGED <<result, run>>
  BY <1>2 DEF Receive, ReceiveCase, evaluationVars
<1>4. Decide(p) => \/ UNCHANGED profileVars
                   \/ \E k \in Fresh : AddProfile(k) /\ named' = k /\ UNCHANGED binding
  BY DEF Decide, ResolveProfile, Resolve, EnsureDefault
<1> QED
  BY <1>1, <1>2, <1>3, <1>4

\* A new profile is well typed.
LEMMA AddedProfileTypes ==
    ASSUME ProfilesTypeOK, NEW k \in Fresh, AddProfile(k)
    PROVE  /\ versions' \in [Profile -> 0..MaxVersion] /\ active' \in [Profile -> 0..MaxVersion]
           /\ k \in 0..MaxProfile
<1>1. k \in Profile /\ 1 \in 0..MaxVersion /\ k \in 0..MaxProfile
  BY DEF Fresh, Profile
<1> QED
  BY <1>1 DEF AddProfile, ProfilesTypeOK

\* Profiles, their versions and their bindings.
LEMMA ProfileTypes ==
    HandlersInv /\ (ProfileStep \/ MessageStep \/ EvaluationStep) => ProfilesTypeOK'
<1> SUFFICES ASSUME HandlersInv, ProfileStep \/ MessageStep \/ EvaluationStep
             PROVE  ProfilesTypeOK'
  OBVIOUS
<1>a. ProfilesTypeOK /\ HandlersTypeOK /\ \A p \in Proc : Equipped(p)
  BY DEF HandlersInv, TypeOK
<1>0. CASE UNCHANGED profileVars
  BY <1>a, <1>0 DEF profileVars, ProfilesTypeOK
<1>1. CASE MessageStep
  BY <1>a, <1>0, <1>1, MessageFacts, AddedProfileTypes DEF ProfilesTypeOK
<1>2. CASE CreateProfile
  <2>1. PICK k \in Fresh : AddProfile(k) /\ named' \in {named, k} /\ UNCHANGED binding
    BY <1>2 DEF CreateProfile, CreateNamed
  <2> QED
    BY <1>a, <2>1, AddedProfileTypes DEF ProfilesTypeOK
<1>3. ASSUME NEW k \in Profile, UpdateProfile(k) PROVE ProfilesTypeOK'
  BY <1>a, <1>3 DEF UpdateProfile, Update, ProfilesTypeOK, Profile
<1>4. ASSUME NEW k \in Profile, DeleteProfile(k) PROVE ProfilesTypeOK'
  BY <1>a, <1>4 DEF DeleteProfile, Delete, ProfilesTypeOK
<1>5. ASSUME NEW c \in Place, NEW k \in 0..MaxProfile, BindProfile(c, k) PROVE ProfilesTypeOK'
  <2>1. binding' = [binding EXCEPT ![c] = k] /\ UNCHANGED <<versions, active, named>>
    BY <1>5 DEF BindProfile, Bind, Unbind
  <2> QED
    BY <1>a, <2>1 DEF ProfilesTypeOK
<1>6. CASE \E p \in Proc : \/ \E k \in Profile : EditPersona(p, k) \/ RollbackPersona(p, k)
                           \/ PersonaReads(p)
  BY <1>0, <1>6 DEF EditPersona, RollbackPersona, PersonaReads
<1>7. ASSUME NEW p \in Proc, PersonaWrites(p) PROVE ProfilesTypeOK'
  <2>1. pick[p] \in Profile /\ base[p] \in Nat /\ base[p] < MaxVersion
    BY <1>a, <1>7 DEF PersonaWrites, Equipped, HandlersTypeOK
  <2>2. base[p] + 1 \in 0..MaxVersion
    BY <2>1
  <2> QED
    BY <1>a, <1>7, <2>1, <2>2 DEF PersonaWrites, ProfilesTypeOK
<1>8. ASSUME NEW p \in Proc, SeedCase(p) PROVE ProfilesTypeOK'
  <2>1. /\ pick[p] \in 0..MaxProfile /\ UNCHANGED <<versions, active, named>>
        /\ binding' = binding \/ \E e \in Case : binding' = [binding EXCEPT ![e] = pick[p]]
    BY <1>a, <1>8 DEF SeedCase, Equipped
  <2> QED
    BY <1>a, <2>1 DEF ProfilesTypeOK
<1>9. ASSUME NEW p \in Proc,
             SeedFails(p) \/ CompleteResult(p) \/ \E k \in 0..MaxProfile : StartRun(p, k)
      PROVE  ProfilesTypeOK'
  BY <1>0, <1>9 DEF SeedFails, CompleteResult, StartRun
<1> QED
  BY <1>1, <1>2, <1>3, <1>4, <1>5, <1>6, <1>7, <1>8, <1>9 DEF ProfileStep, EvaluationStep

\* Counting one result more counts at most the cases there are.
LEMMA CountBound ==
    ASSUME NEW c \in Case
    PROVE  Cardinality(Completed \cup {c}) <= MaxCase
<1>1. Completed \cup {c} \subseteq Case
  BY DEF Completed
<1> QED
  BY <1>1, CaseFacts, FS_Subset

\* The run and its results.
LEMMA EvaluationTypes ==
    HandlersInv /\ CountsInv /\ (MessageStep \/ EvaluationStep) => EvaluationTypeOK'
<1> SUFFICES ASSUME HandlersInv, CountsInv, MessageStep \/ EvaluationStep
             PROVE  EvaluationTypeOK'
  OBVIOUS
<1>a. EvaluationTypeOK /\ HandlersTypeOK /\ \A p \in Proc : Equipped(p)
  BY DEF HandlersInv, TypeOK
<1>0. CASE UNCHANGED evaluationVars
  BY <1>a, <1>0 DEF evaluationVars, EvaluationTypeOK
<1>1. CASE MessageStep
  <2>1. UNCHANGED <<result, run>>
    BY <1>1, MessageFacts
  <2>2. posted' \subseteq posted /\ overlapped' \in BOOLEAN
    <3>1. CASE UNCHANGED <<posted, overlapped>>
      BY <1>a, <3>1 DEF EvaluationTypeOK
    <3>2. CASE \E p \in Proc, e \in Case : ReceiveCase(p, e)
      BY <1>a, <3>2 DEF ReceiveCase, EvaluationTypeOK
    <3>3. CASE \E p \in Proc : CountCompleted(p)
      BY <3>3 DEF CountCompleted
    <3> QED
      BY <1>1, <3>1, <3>2, <3>3 DEF MessageStep, Receive, evaluationVars, Answer, Moderate, Deliver,
         CompleteShadow
  <2> QED
    BY <1>a, <2>1, <2>2 DEF EvaluationTypeOK
<1>2. ASSUME NEW p \in Proc, NEW k \in 0..MaxProfile, StartRun(p, k) PROVE EvaluationTypeOK'
  BY <1>a, <1>2 DEF StartRun, CreateRun, EvaluationTypeOK
<1>3. ASSUME NEW p \in Proc, SeedCase(p) PROVE EvaluationTypeOK'
  <2>1. PICK e \in Case :
            /\ result' = [result EXCEPT ![e] = "RUNNING"] /\ posted' = posted \cup {e}
            /\ run' = [run EXCEPT !.status = "RUNNING"] /\ overlapped' = overlapped
    BY <1>3 DEF SeedCase, AttachConversation
  <2> QED
    BY <1>a, <2>1 DEF EvaluationTypeOK
<1>4. ASSUME NEW p \in Proc, CompleteResult(p) PROVE EvaluationTypeOK'
  <2>1. /\ stage[p] = "complete" /\ result' = [result EXCEPT ![place[p]] = "COMPLETED"]
        /\ run' = [status |-> IF base[p] >= MaxCase THEN "COMPLETED" ELSE "RUNNING",
                   completed |-> base[p]]
        /\ UNCHANGED <<posted, overlapped>>
    BY <1>4 DEF CompleteResult
  <2>2. place[p] \in Case /\ base[p] \in Nat
    BY <1>a, <2>1 DEF Equipped, HandlersTypeOK
  <2>3. base[p] <= Cardinality(Completed \cup {place[p]})
    BY <2>1 DEF CountsInv
  <2>4. base[p] \in 0..MaxCase
    BY <2>2, <2>3, CountBound, CountIsNat
  <2> QED
    BY <1>a, <2>1, <2>2, <2>4 DEF EvaluationTypeOK
<1>5. CASE \E p \in Proc : SeedFails(p)
  BY <1>0, <1>5 DEF SeedFails
<1> QED
  BY <1>1, <1>2, <1>3, <1>4, <1>5 DEF EvaluationStep

-----------------------------------------------------------------------------
(* Moderation: a text that some backend objects to is withheld.             *)

\* A set of numbers that is not empty has a least one.
LEMMA Least ==
    ASSUME NEW T, T \subseteq Nat, T # {}
    PROVE  \E x \in T : \A y \in T : x <= y
<1>1. PICK x \in T : \A y \in T : ~(<<y, x>> \in OpToRel(<, Nat))
  BY WFMin, NatLessThanWellFounded
<1>2. \A y \in T : <<y, x>> \in OpToRel(<, Nat) <=> y < x
  BY DEF OpToRel
<1>3. \A y \in T : ~(y < x)
  BY <1>1, <1>2
<1>4. \A y \in T : x <= y
  BY ONLY <1>3, x \in T, T \subseteq Nat
<1> QED
  BY <1>4

\* The first backend that objects decides, and the ones before it pass the
\* text on: moderate() flags whatever one of them would withhold.
LEMMA ObjectionsAreFlagged ==
    ASSUME NEW v \in Verdicts, NEW closed \in BOOLEAN, Objected(v, closed)
    PROVE  Flagged(v, closed)
<1> DEFINE T == {i \in 1..Backends : v[i] = "flag" \/ (v[i] = "error" /\ closed)}
<1>1. T \subseteq Nat /\ T # {}
  BY DEF Objected
<1>2. PICK i \in T : \A j \in T : i <= j
  BY <1>1, Least
<1>3. i \in 1..Backends /\ (v[i] = "flag" \/ (v[i] = "error" /\ closed))
  OBVIOUS
<1>4. ASSUME NEW j \in 1..(i - 1) PROVE v[j] = "clear" \/ (v[j] = "error" /\ ~closed)
  <2>1. j \in 1..Backends /\ ~(i <= j)
    BY <1>3
  <2>2. j \notin T
    BY <1>2, <2>1
  <2>3. v[j] \in {"clear", "flag", "error"}
    BY <2>1 DEF Verdicts
  <2> QED
    BY <2>1, <2>2, <2>3
<1> QED
  BY <1>3, <1>4 DEF Flagged

\* What the chain passes, nobody objected to: a text that slips through is one
\* more call of the hook that raised.
LEMMA ModerateKeeps ==
    ASSUME NEW A, NEW B, FlaggedIsWithheld, ModerationTypeOK, Moderate(A, B)
    PROVE  FlaggedIsWithheld' /\ ModerationTypeOK'
<1>a. mode' \in Modes /\ leaked \in Nat /\ raised \in Nat /\ MaxFaults \in Nat /\ leaked <= raised
  BY HandlersAssumption DEF Moderate, FlaggedIsWithheld, ModerationTypeOK
<1>1. CASE UNCHANGED <<leaked, raised>>
  BY <1>a, <1>1 DEF FlaggedIsWithheld, ModerationTypeOK
<1>2. ASSUME NEW v \in Verdicts, ~Flagged(v, mode = "closed"), UNCHANGED raised,
             LetThrough(Objected(v, mode = "closed"))
      PROVE  UNCHANGED <<leaked, raised>>
  <2>1. ~Objected(v, mode = "closed")
    BY <1>2, ObjectionsAreFlagged
  <2> QED
    BY <1>2, <2>1 DEF LetThrough
<1>3. CASE HookRaises
  <2>1. /\ raised < MaxFaults /\ raised' = raised + 1
        /\ leaked' = leaked \/ leaked' = leaked + 1
    BY <1>3 DEF HookRaises, LetThrough
  <2> QED
    BY <1>a, <2>1 DEF FlaggedIsWithheld, ModerationTypeOK
<1> QED
  BY <1>1, <1>2, <1>3 DEF Moderate, Outcomes

\* Every step of the front door.
LEMMA ModerationStep ==
    HandlersInv /\ FlaggedIsWithheld /\ Next => FlaggedIsWithheld' /\ ModerationTypeOK'
<1> SUFFICES ASSUME HandlersInv, FlaggedIsWithheld, Next
             PROVE  FlaggedIsWithheld' /\ ModerationTypeOK'
  OBVIOUS
<1>a. ModerationTypeOK
  BY DEF HandlersInv, TypeOK
<1>1. CASE UNCHANGED moderationVars
  BY <1>a, <1>1 DEF moderationVars, FlaggedIsWithheld, ModerationTypeOK
<1>2. CASE PairingStep \/ GuardStep \/ ProfileStep \/ EvaluationStep
  BY <1>1, <1>2 DEF PairingStep, GuardStep, ProfileStep, EvaluationStep
<1>3. CASE MessageStep
  BY <1>a, <1>1, <1>3, ModerateKeeps DEF MessageStep, ModerateInbound, Answer
<1>4. CASE OperatorStep
  BY <1>a, <1>4 DEF OperatorStep, EditModeration, FlaggedIsWithheld, ModerationTypeOK
<1> QED
  BY <1>2, <1>3, <1>4 DEF Next

\* The parts of the type invariant and what processes hold.
LEMMA HandlersStep == FrontInv /\ Next => HandlersInv'
<1> SUFFICES ASSUME FrontInv, Next PROVE HandlersInv'
  OBVIOUS
<1>a. HandlersInv /\ CountsInv /\ FlaggedIsWithheld
  BY DEF FrontInv
<1>1. HandlersTypeOK' /\ (AllKept \/ \E p \in Proc : Shift(p))
  BY <1>a, PairingShifts, GuardShifts, ProfileShifts, EvaluationShifts, MessageShifts, OperatorShifts
     DEF Next, Shifted
<1>2. \A q \in Proc : Equipped(q)'
  BY <1>a, <1>1, ShiftEquips
<1>3. ModerationTypeOK'
  BY <1>a, ModerationStep
<1>4. PairingTypeOK' /\ AskersKnown'
  <2>1. PairingStep \/ UNCHANGED pairingVars
    BY MessageFacts DEF Next, GuardStep, ProfileStep, EvaluationStep, OperatorStep
  <2>2. CASE UNCHANGED pairingVars
    BY <1>a, <2>2 DEF HandlersInv, TypeOK, pairingVars, PairingTypeOK, AskersKnown, Live
  <2> QED
    BY <1>a, <2>1, <2>2, PairingTypes
<1>5. GuardsTypeOK'
  <2>1. GuardStep \/ UNCHANGED guardVars
    BY MessageFacts DEF Next, PairingStep, ProfileStep, EvaluationStep, OperatorStep
  <2>2. CASE UNCHANGED guardVars
    BY <1>a, <2>2 DEF HandlersInv, TypeOK, guardVars, GuardsTypeOK
  <2> QED
    BY <1>a, <2>1, <2>2, GuardTypes
<1>6. ProfilesTypeOK'
  <2>1. ProfileStep \/ MessageStep \/ EvaluationStep \/ UNCHANGED profileVars
    BY DEF Next, PairingStep, GuardStep, OperatorStep
  <2>2. CASE UNCHANGED profileVars
    BY <1>a, <2>2 DEF HandlersInv, TypeOK, profileVars, ProfilesTypeOK
  <2> QED
    BY <1>a, <2>1, <2>2, ProfileTypes
<1>7. EvaluationTypeOK'
  <2>1. MessageStep \/ EvaluationStep \/ UNCHANGED evaluationVars
    BY DEF Next, PairingStep, GuardStep, ProfileStep, OperatorStep
  <2>2. CASE UNCHANGED evaluationVars
    BY <1>a, <2>2 DEF HandlersInv, TypeOK, evaluationVars, EvaluationTypeOK
  <2> QED
    BY <1>a, <2>1, <2>2, EvaluationTypes
<1> QED
  BY <1>1, <1>2, <1>3, <1>4, <1>5, <1>6, <1>7 DEF HandlersInv, TypeOK

-----------------------------------------------------------------------------
(* Pairing: the lock of the connection.                                    *)

\* Which stages the steps of the components bring a process to.
LEMMA Frames ==
    ASSUME HandlersInv, Next
    PROVE  /\ PairingStep => Frame(PairingStages)
           /\ GuardStep => Frame(GuardStages)
           /\ ProfileStep => Frame(ProfileStages)
           /\ EvaluationStep => Frame(EvaluationStages)
           /\ MessageStep => Frame(MessageStages)
           /\ OperatorStep => Frame({})
BY PairingShifts, GuardShifts, ProfileShifts, EvaluationShifts, MessageShifts, OperatorShifts
   DEF Shifted

\* The requests are finitely many.
LEMMA LiveFinite == IsFiniteSet(Live) /\ Cardinality(Live) \in Nat
<1>1. 1 \in Int /\ MaxRequest \in Int
  OBVIOUS
<1>2. IsFiniteSet(1..MaxRequest) /\ Live \subseteq 1..MaxRequest
  BY <1>1, FS_Interval DEF Live
<1> QED
  BY <1>2, FS_Subset, FS_CardinalityType

\* With the requests as they are and nobody new at the insert, nothing changes.
LEMMA PairingFrame ==
    ASSUME PairingInv, UNCHANGED <<asker, verdict>>,
           \A q \in Proc : stage'[q] = "insert" => stage[q] = "insert" /\ who'[q] = who[q]
    PROVE  PairingInv'
<1>1. Live' = Live
  BY DEF Live
<1>2. PairingBounded'
  BY <1>1 DEF PairingInv, PairingBounded
<1> QED
  BY <1>1, <1>2 DEF PairingInv

\* A request that is decided or lapses makes room.
LEMMA PairingShrinks ==
    ASSUME PairingInv, Live' \subseteq Live, asker' = asker, AllKept
    PROVE  PairingInv'
<1>1. Cardinality(Live') <= Cardinality(Live) /\ Cardinality(Live') \in Nat
  BY LiveFinite, FS_Subset, FS_CardinalityType
<1>2. Cardinality(Live) \in Nat
  BY LiveFinite
<1>3. PairingBounded'
  <2>1. Cardinality(Live) <= PendingLimit
    BY DEF PairingInv, PairingBounded
  <2>2. Cardinality(Live)' <= PendingLimit
    BY <1>1, <1>2, <2>1
  <2>3. \A r, e \in Live' : asker'[r] = asker'[e] => r = e
    BY DEF PairingInv, PairingBounded
  <2> QED
    BY <2>2, <2>3 DEF PairingBounded
<1>4. ASSUME NEW p \in Proc, stage'[p] = "insert"
      PROVE  /\ Cardinality(Live') < PendingLimit
             /\ \A r \in Live' : asker'[r] # who'[p]
             /\ \A q \in Proc : stage'[q] = "insert" => q = p
  <2>1. /\ Cardinality(Live) < PendingLimit
        /\ \A r \in Live : asker[r] # who[p]
        /\ \A q \in Proc : stage[q] = "insert" => q = p
        /\ who'[p] = who[p] /\ \A q \in Proc : stage'[q] = stage[q]
    BY <1>4 DEF PairingInv, AllKept, Kept
  <2>2. Cardinality(Live') < PendingLimit
    BY <1>1, <1>2, <2>1
  <2> QED
    BY <2>1, <2>2
<1> QED
  BY <1>3, <1>4 DEF PairingInv

\* Every step of the front door.
LEMMA PairingInvStep == FrontInv /\ Next => PairingInv'
<1> SUFFICES ASSUME FrontInv, Next PROVE PairingInv'
  OBVIOUS
<1>a. HandlersInv /\ PairingInv
  BY DEF FrontInv
<1>b. HandlersTypeOK /\ PairingTypeOK
  BY <1>a DEF HandlersInv, TypeOK
<1>c. ASSUME NEW p \in Proc, Done(p), UNCHANGED <<asker, verdict>> PROVE PairingInv'
  <2>1. Leaves(p)
    BY <1>b, <1>c, DoneFacts
  <2> QED
    BY <1>a, <1>c, <2>1, PairingFrame DEF Leaves, Others, Kept
<1>1. CASE ~PairingStep
  <2>1. UNCHANGED pairingVars
    BY <1>1, MessageFacts DEF Next, GuardStep, ProfileStep, EvaluationStep, OperatorStep
  <2>2. \A q \in Proc : stage'[q] = "insert" => Kept(q)
    BY <1>1, <1>a, Frames DEF Next, Frame, GuardStages, ProfileStages, EvaluationStages, MessageStages
  <2> QED
    BY <1>a, <2>1, <2>2, PairingFrame DEF pairingVars, Kept
<1>2. ASSUME NEW p \in Proc, CheckAccess(p) PROVE PairingInv'
  <2>1. UNCHANGED <<asker, verdict>> /\ (Done(p) \/ Goto(p, "moderate") \/ Goto(p, "ask"))
    BY <1>2 DEF CheckAccess, pairingVars
  <2>2. Goto(p, "moderate") => Moves(p, "moderate")
    BY <1>b, GotoFacts, StageNames
  <2>3. Goto(p, "ask") => Moves(p, "ask")
    BY <1>b, GotoFacts, StageNames
  <2> QED
    BY <1>a, <1>c, <2>1, <2>2, <2>3, PairingFrame DEF Moves, Others, Kept
<1>3. ASSUME NEW p \in Proc, RequestPairing(p) PROVE PairingInv'
  <2>1. UNCHANGED <<asker, verdict>> /\ \A q \in Proc : stage[q] # "insert"
    BY <1>3 DEF RequestPairing, pairingVars
  <2>2. CASE Done(p)
    BY <1>c, <2>1, <2>2
  <2>3. CASE /\ \A r \in Live : asker[r] # who[p]
             /\ Cardinality(Live) < PendingLimit
             /\ Goto(p, "insert")
    <3>1. Moves(p, "insert")
      BY <1>b, <2>3, GotoFacts, StageNames
    <3>2. \A q \in Proc : stage'[q] = "insert" => q = p
      BY <2>1, <3>1 DEF Moves, Others, Kept
    <3>3. Live' = Live /\ asker' = asker /\ who'[p] = who[p]
      BY <2>1, <3>1 DEF Live, Moves
    <3>4. PairingBounded'
      BY <1>a, <3>3 DEF PairingInv, PairingBounded
    <3> QED
      BY <2>3, <3>2, <3>3, <3>4 DEF PairingInv
  <2> QED
    BY <1>3, <2>2, <2>3 DEF RequestPairing
<1>4. ASSUME NEW p \in Proc, InsertRequest(p) PROVE PairingInv'
  <2>1. PICK r \in 1..MaxRequest :
            /\ verdict[r] = "NONE"
            /\ asker' = [asker EXCEPT ![r] = who[p]]
            /\ verdict' = [verdict EXCEPT ![r] = "PENDING"]
    BY <1>4 DEF InsertRequest
  <2>2. stage[p] = "insert" /\ Leaves(p)
    BY <1>4, <1>b, DoneFacts DEF InsertRequest
  <2>3. /\ Cardinality(Live) < PendingLimit /\ \A e \in Live : asker[e] # who[p]
        /\ \A q \in Proc : stage[q] = "insert" => q = p
    BY <1>a, <2>2 DEF PairingInv
  <2>4. Live' = Live \cup {r} /\ r \notin Live
    BY <1>b, <2>1 DEF Live, PairingTypeOK
  <2>5. Cardinality(Live') = Cardinality(Live) + 1
    BY <2>4, LiveFinite, FS_AddElement
  <2>6. Cardinality(Live)' <= PendingLimit
    BY <2>3, <2>5, LiveFinite
  <2>7. asker'[r] = who[p] /\ \A e \in Live : asker'[e] = asker[e]
    BY <1>b, <2>1, <2>4 DEF PairingTypeOK, Live
  <2>8. \A e, f \in Live : asker[e] = asker[f] => e = f
    BY <1>a DEF PairingInv, PairingBounded
  <2>9. PairingBounded'
    BY <2>3, <2>4, <2>6, <2>7, <2>8 DEF PairingBounded
  <2>10. \A q \in Proc : stage'[q] # "insert"
    BY <2>2, <2>3 DEF Leaves, Others, Kept
  <2> QED
    BY <2>9, <2>10 DEF PairingInv
<1>5. ASSUME NEW p \in Proc, NEW s \in Subject, GeneratePairing(p, s) PROVE PairingInv'
  <2>1. Enters(p, s, None, 0, "ask") /\ UNCHANGED <<asker, verdict>>
    BY <1>b, <1>5, BeginFacts, StageNames DEF GeneratePairing, User, pairingVars
  <2> QED
    BY <1>a, <2>1, PairingFrame DEF Enters, Others, Kept
<1>6. CASE SetPolicy
  <2>1. AllKept /\ UNCHANGED <<asker, verdict>>
    BY <1>b, <1>6, RequestFacts DEF SetPolicy, StorePolicy
  <2> QED
    BY <1>a, <2>1, PairingFrame DEF AllKept, Kept
<1>7. ASSUME NEW r \in 1..MaxRequest, ApproveRequest(r) \/ DismissRequest(r) \/ RequestLapses(r)
      PROVE  PairingInv'
  <2>1. PICK v \in {"APPROVED", "DISMISSED", "EXPIRED"} : verdict' = [verdict EXCEPT ![r] = v]
    BY <1>7 DEF ApproveRequest, Approve, DismissRequest, Dismiss, RequestLapses
  <2>2. asker' = asker /\ AllKept
    BY <1>b, <1>7, RequestFacts DEF ApproveRequest, Approve, DismissRequest, Dismiss, RequestLapses
  <2>3. Live' \subseteq Live
    BY <1>b, <2>1 DEF Live, PairingTypeOK
  <2> QED
    BY <1>a, <2>2, <2>3, PairingShrinks
<1> QED
  BY <1>1, <1>2, <1>3, <1>4, <1>5, <1>6, <1>7 DEF PairingStep

-----------------------------------------------------------------------------
(* The guards: a counter and the turns it was incremented for.              *)

\* The turns under a key are finitely many.
LEMMA CountedFinite ==
    ASSUME NEW k PROVE IsFiniteSet(Counted(k)) /\ Cardinality(Counted(k)) \in Nat
<1>1. Counted(k) \subseteq Proc
  BY DEF Counted
<1> QED
  BY <1>1, FS_Subset, FS_CardinalityType

\* The numbers of a key.
LEMMA KeyTypes ==
    ASSUME GuardsTypeOK, NEW k \in Keys
    PROVE  count[k] \in Nat /\ granted[k] \in Nat /\ refused[k] \in Nat /\ Limit(k) \in Nat
BY DEF GuardsTypeOK, Limit

\* No turn is added and the counter does not fall.
LEMMA KeyShrinks ==
    ASSUME GuardsTypeOK, GuardsTypeOK', NEW k \in Keys, KeyInv(k),
           Counted(k)' \subseteq Counted(k), granted'[k] = granted[k], count'[k] >= count[k],
           refused'[k] <= 1, refused'[k] > 0 => count'[k] > Limit(k)
    PROVE  KeyInv(k)'
<1>1. Cardinality(Counted(k)') <= Cardinality(Counted(k)) /\ Cardinality(Counted(k)') \in Nat
  BY CountedFinite, FS_Subset, FS_CardinalityType
<1>2. /\ count[k] \in Nat /\ granted[k] \in Nat /\ Limit(k) \in Nat
      /\ Cardinality(Counted(k)) \in Nat
  BY KeyTypes, CountedFinite
<1>3. count'[k] \in Nat
  BY DEF GuardsTypeOK
<1>4. /\ granted[k] + Cardinality(Counted(k)) <= count[k]
      /\ granted[k] + Cardinality(Counted(k)) <= Limit(k)
  BY DEF KeyInv
<1>5. /\ granted[k] + Cardinality(Counted(k)') <= count'[k]
      /\ granted[k] + Cardinality(Counted(k)') <= Limit(k)
  BY <1>1, <1>2, <1>3, <1>4
<1>6. Limit(k)' = Limit(k)
  BY DEF Limit
<1> QED
  BY <1>5, <1>6 DEF KeyInv

\* A turn is counted within the limit.
LEMMA KeyGains ==
    ASSUME GuardsTypeOK, NEW k \in Keys, KeyInv(k), NEW p, p \notin Counted(k),
           Counted(k)' = Counted(k) \cup {p}, granted'[k] = granted[k],
           count'[k] = count[k] + 1, count[k] < Limit(k), refused'[k] = refused[k]
    PROVE  KeyInv(k)'
<1>1. Cardinality(Counted(k)') = Cardinality(Counted(k)) + 1
  BY CountedFinite, FS_AddElement
<1>2. /\ count[k] \in Nat /\ granted[k] \in Nat /\ refused[k] \in Nat /\ Limit(k) \in Nat
      /\ Cardinality(Counted(k)) \in Nat
  BY KeyTypes, CountedFinite
<1>3. /\ granted[k] + Cardinality(Counted(k)) <= count[k] /\ refused[k] <= 1
      /\ refused[k] > 0 => count[k] > Limit(k)
  BY DEF KeyInv
<1>4. /\ granted[k] + (Cardinality(Counted(k)) + 1) <= count[k] + 1
      /\ granted[k] + (Cardinality(Counted(k)) + 1) <= Limit(k)
      /\ refused[k] > 0 => count[k] + 1 > Limit(k)
  BY <1>2, <1>3
<1>5. Limit(k)' = Limit(k)
  BY DEF Limit
<1> QED
  BY <1>1, <1>3, <1>4, <1>5 DEF KeyInv

\* A counted turn is let through.
LEMMA KeyGrants ==
    ASSUME GuardsTypeOK, NEW k \in Keys, KeyInv(k), NEW p \in Counted(k),
           Counted(k)' = Counted(k) \ {p}, granted'[k] = granted[k] + 1,
           UNCHANGED <<count, refused>>
    PROVE  KeyInv(k)'
<1>1. Cardinality(Counted(k)') = Cardinality(Counted(k)) - 1
  <2>1. IsFiniteSet(Counted(k))
    BY CountedFinite
  <2>2. Cardinality(Counted(k) \ {p}) = Cardinality(Counted(k)) - 1
    BY ONLY <2>1, p \in Counted(k), FS_RemoveElement
  <2> QED
    BY <2>2
<1>2. granted[k] \in Nat /\ Cardinality(Counted(k)) \in Nat
  BY KeyTypes, CountedFinite
<1>3. granted'[k] + Cardinality(Counted(k)') = granted[k] + Cardinality(Counted(k))
  BY <1>1, <1>2
<1>4. Limit(k)' = Limit(k)
  BY DEF Limit
<1> QED
  BY <1>3, <1>4 DEF KeyInv

\* Only the process that moves can leave or join the turns of a key.
LEMMA CountedOthers ==
    ASSUME NEW p \in Proc, Others(p), NEW k
    PROVE  \A q \in Proc \ {p} : q \in Counted(k)' <=> q \in Counted(k)
BY DEF Others, Kept, Counted

\* A process that moves out of the counted stages.
LEMMA CountedLeaves ==
    ASSUME NEW p \in Proc, Others(p), stage'[p] \notin {"countChat", "cool"}, NEW k
    PROVE  Counted(k)' = Counted(k) \ {p}
<1>1. p \notin Counted(k)' /\ Counted(k)' \subseteq Proc /\ Counted(k) \subseteq Proc
  BY DEF Counted
<1> QED
  BY <1>1, CountedOthers

\* A process that moves on to the counter of the conversation.
LEMMA CountedByUser ==
    ASSUME NEW p \in Proc, stage[p] = "countUser", Moves(p, "countChat"), NEW k
    PROVE  /\ p \notin Counted(k)
           /\ Counted(k)' = IF k = UserKey(who[p], base[p]) THEN Counted(k) \cup {p} ELSE Counted(k)
<1>1. p \notin Counted(k) /\ Counted(k)' \subseteq Proc /\ Counted(k) \subseteq Proc
  BY DEF Counted
<1>2. p \in Counted(k)' <=> k = UserKey(who[p], base[p])
  BY DEF Moves, Counted
<1>3. \A q \in Proc \ {p} : q \in Counted(k)' <=> q \in Counted(k)
  BY CountedOthers DEF Moves
<1> QED
  BY <1>1, <1>2, <1>3

\* A process that moves on to the cooldown.
LEMMA CountedByChat ==
    ASSUME NEW p \in Proc, stage[p] = "countChat", Moves(p, "cool"), NEW k
    PROVE  /\ p \notin Counted(ChatKey(place[p], base[p]))
           /\ Counted(k)' = IF k = ChatKey(place[p], base[p]) THEN Counted(k) \cup {p} ELSE Counted(k)
<1>1. Counted(k)' \subseteq Proc /\ Counted(k) \subseteq Proc
  BY DEF Counted
<1>2. p \in Counted(k) <=> k = UserKey(who[p], base[p])
  BY DEF Counted
<1>3. p \in Counted(k)' <=> k = UserKey(who[p], base[p]) \/ k = ChatKey(place[p], base[p])
  BY DEF Moves, Counted
<1>4. \A q \in Proc \ {p} : q \in Counted(k)' <=> q \in Counted(k)
  BY CountedOthers DEF Moves
<1>5. p \notin Counted(ChatKey(place[p], base[p]))
  BY DEF Counted, UserKey, ChatKey
<1> QED
  BY <1>1, <1>2, <1>3, <1>4, <1>5

\* _counter_verdict on a key: the turn is counted, or refused aloud when it is
\* the first over the limit, or ignored.
LEMMA VerdictKeeps ==
    ASSUME HandlersTypeOK, GuardsTypeOK, GuardsTypeOK', GuardsInv, NEW p \in Proc, NEW k \in Keys,
           NEW next, CounterVerdict(p, k, Limit(k), next), UNCHANGED granted,
           count[k] < Limit(k) =>
               /\ p \notin Counted(k)
               /\ \A e \in Keys : Counted(e)' = IF e = k THEN Counted(e) \cup {p} ELSE Counted(e)
    PROVE  GuardsInv'
<1>a. /\ count'[k] = count[k] + 1 /\ \A e \in Keys : e # k => count'[e] = count[e]
      /\ \A e \in Keys : count[e] \in Nat /\ refused[e] \in Nat /\ Limit(e) \in Nat /\ KeyInv(e)
  BY KeyTypes DEF CounterVerdict, GuardsTypeOK, GuardsInv
<1>b. \A e \in Keys : refused[e] <= 1 /\ (refused[e] > 0 => count[e] > Limit(e))
  BY <1>a DEF KeyInv
<1>1. CASE count[k] < Limit(k)
  <2>1. UNCHANGED refused
    BY <1>1 DEF CounterVerdict
  <2>2. KeyInv(k)'
    BY <1>1, <1>a, <2>1, KeyGains
  <2>3. ASSUME NEW e \in Keys, e # k PROVE KeyInv(e)'
    BY <1>1, <1>a, <1>b, <2>1, <2>3, KeyShrinks
  <2> QED
    BY <2>2, <2>3 DEF GuardsInv
<1>2. CASE count[k] >= Limit(k)
  <2>1. /\ Others(p) /\ stage'[p] \notin {"countChat", "cool"}
        /\ \A e \in Keys : e # k => refused'[e] = refused[e]
        /\ \/ count[k] = Limit(k) /\ refused'[k] = refused[k] + 1
           \/ refused'[k] = refused[k]
    <3>1. \/ Goto(p, "answer") /\ count[k] = Limit(k) /\ refused' = [refused EXCEPT ![k] = @ + 1]
          \/ Done(p) /\ UNCHANGED refused
      BY <1>2, <1>a DEF CounterVerdict
    <3>2. Others(p) /\ stage'[p] \in {"answer", "idle"}
      BY <3>1, GotoFacts, DoneFacts, StageNames DEF Moves, Leaves
    <3> QED
      BY <3>1, <3>2 DEF GuardsTypeOK
  <2>2. ASSUME NEW e \in Keys PROVE KeyInv(e)'
    <3>1. Counted(e)' \subseteq Counted(e)
      BY <2>1, CountedLeaves
    <3>2. count'[e] >= count[e]
      BY <1>a
    <3>3. refused'[e] <= 1 /\ (refused'[e] > 0 => count'[e] > Limit(e))
      BY <1>a, <1>b, <2>1
    <3> QED
      BY <1>a, <3>1, <3>2, <3>3, KeyShrinks
  <2> QED
    BY <2>2 DEF GuardsInv
<1> QED
  BY <1>1, <1>2, <1>a

\* With the counters as they are and nobody new at the counted stages, nothing
\* changes but that turns may be over.
LEMMA GuardsFrame ==
    ASSUME GuardsTypeOK, GuardsTypeOK', GuardsInv, UNCHANGED <<count, granted, refused>>,
           \A q \in Proc : stage'[q] \in {"countChat", "cool"} => Kept(q)
    PROVE  GuardsInv'
<1>1. SUFFICES ASSUME NEW k \in Keys PROVE KeyInv(k)'
  BY DEF GuardsInv
<1>2. Counted(k)' \subseteq Counted(k)
  BY DEF Counted, Kept
<1>3. KeyInv(k) /\ count[k] \in Nat
  BY KeyTypes DEF GuardsInv
<1>4. count'[k] >= count[k] /\ refused'[k] <= 1 /\ (refused'[k] > 0 => count'[k] > Limit(k))
  BY <1>3 DEF KeyInv
<1> QED
  BY <1>2, <1>3, <1>4, KeyShrinks

\* The key of the sender and the key of the conversation of a turn.
LEMMA KeysOfTurn ==
    ASSUME HandlersInv, NEW p \in Proc, stage[p] \in {"countUser", "countChat", "cool"}
    PROVE  /\ UserKey(who[p], base[p]) \in Keys /\ ChatKey(place[p], base[p]) \in Keys
           /\ Limit(UserKey(who[p], base[p])) = UserLimit
           /\ Limit(ChatKey(place[p], base[p])) = ChatLimit
<1>1. who[p] \in User /\ place[p] \in Place /\ base[p] \in 0..MaxMinute
  BY DEF HandlersInv, Equipped, OfMessage
<1> QED
  BY <1>1 DEF Keys, Limit, UserKey, ChatKey

\* Every step of the front door.
LEMMA GuardsInvStep == FrontInv /\ Next => GuardsInv'
<1> SUFFICES ASSUME FrontInv, Next PROVE GuardsInv'
  OBVIOUS
<1>a. HandlersInv /\ GuardsInv /\ HandlersTypeOK /\ GuardsTypeOK
  BY DEF FrontInv, HandlersInv, TypeOK
<1>b. GuardsTypeOK'
  BY HandlersStep DEF HandlersInv, TypeOK
<1>c. \A k \in Keys : KeyInv(k) /\ count[k] \in Nat /\ granted[k] \in Nat
  BY <1>a, KeyTypes DEF GuardsInv
<1>1. CASE ~GuardStep
  <2>1. UNCHANGED guardVars
    BY <1>1, MessageFacts DEF Next, PairingStep, ProfileStep, EvaluationStep, OperatorStep
  <2>2. \A q \in Proc : stage'[q] \in {"countChat", "cool"} => Kept(q)
    BY <1>1, <1>a, Frames DEF Next, Frame, PairingStages, ProfileStages, EvaluationStages, MessageStages
  <2> QED
    BY <1>a, <1>b, <2>1, <2>2, GuardsFrame DEF guardVars
<1>2. ASSUME NEW p \in Proc, CountUser(p) PROVE GuardsInv'
  <2> DEFINE k == UserKey(who[p], base[p])
  <2>1. /\ stage[p] = "countUser" /\ UNCHANGED granted /\ k \in Keys /\ Limit(k) = UserLimit
        /\ CounterVerdict(p, k, Limit(k), "countChat")
    BY <1>2, <1>a, KeysOfTurn DEF CountUser
  <2>2. ASSUME count[k] < Limit(k)
        PROVE  /\ p \notin Counted(k)
               /\ \A e \in Keys : Counted(e)' = IF e = k THEN Counted(e) \cup {p} ELSE Counted(e)
    <3>1. Moves(p, "countChat")
      BY <1>a, <2>1, <2>2, GotoFacts, StageNames DEF CounterVerdict
    <3> QED
      BY <2>1, <3>1, CountedByUser
  <2> HIDE DEF k
  <2> QED
    BY <1>a, <1>b, <2>1, <2>2, VerdictKeeps
<1>3. ASSUME NEW p \in Proc, CountChat(p) PROVE GuardsInv'
  <2> DEFINE k == ChatKey(place[p], base[p])
  <2>1. /\ stage[p] = "countChat" /\ UNCHANGED granted /\ k \in Keys /\ Limit(k) = ChatLimit
        /\ CounterVerdict(p, k, Limit(k), "cool")
    BY <1>3, <1>a, KeysOfTurn DEF CountChat
  <2>2. ASSUME count[k] < Limit(k)
        PROVE  /\ p \notin Counted(k)
               /\ \A e \in Keys : Counted(e)' = IF e = k THEN Counted(e) \cup {p} ELSE Counted(e)
    <3>1. Moves(p, "cool")
      BY <1>a, <2>1, <2>2, GotoFacts, StageNames DEF CounterVerdict
    <3> QED
      BY <2>1, <3>1, CountedByChat
  <2> HIDE DEF k
  <2> QED
    BY <1>a, <1>b, <2>1, <2>2, VerdictKeeps
<1>4. ASSUME NEW p \in Proc, Cool(p) PROVE GuardsInv'
  <2>1. stage[p] = "cool" /\ UNCHANGED <<count, refused>>
    BY <1>4 DEF Cool
  <2>2. Others(p) /\ stage'[p] \notin {"countChat", "cool"}
    <3>1. Done(p) \/ Goto(p, "answer")
      BY <1>4 DEF Cool, Grant
    <3> QED
      BY <1>a, <3>1, GotoFacts, DoneFacts, StageNames DEF Moves, Leaves
  <2>3. CASE UNCHANGED granted
    BY <1>a, <1>b, <2>1, <2>2, <2>3, GuardsFrame DEF Others
  <2>4. CASE Grant(p)
    <3> DEFINE keys == {UserKey(who[p], base[p]), ChatKey(place[p], base[p])}
    <3>1. SUFFICES ASSUME NEW k \in Keys PROVE KeyInv(k)'
      BY DEF GuardsInv
    <3>2. Counted(k)' = Counted(k) \ {p}
      BY <2>2, CountedLeaves
    <3>3. granted'[k] = IF k \in keys THEN granted[k] + 1 ELSE granted[k]
      BY <2>4 DEF Grant
    <3>4. p \in Counted(k) <=> k \in keys
      BY <2>1 DEF Counted
    <3> HIDE DEF keys
    <3>5. CASE k \in keys
      BY <1>a, <1>c, <2>1, <3>2, <3>3, <3>4, <3>5, KeyGrants
    <3>6. CASE k \notin keys
      <4>1. count'[k] >= count[k] /\ refused'[k] <= 1 /\ (refused'[k] > 0 => count'[k] > Limit(k))
        BY <1>c, <2>1 DEF KeyInv
      <4> QED
        BY <1>a, <1>b, <1>c, <3>2, <3>3, <3>6, <4>1, KeyShrinks
    <3> QED
      BY <3>5, <3>6
  <2> QED
    BY <1>4, <2>3, <2>4 DEF Cool
<1>5. ASSUME NEW p \in Proc, GuardFails(p) PROVE GuardsInv'
  <2>1. /\ stage[p] \in {"countUser", "countChat", "cool"} /\ UNCHANGED <<granted, refused>>
        /\ stage' = [stage EXCEPT ![p] = "answer"] /\ UNCHANGED <<who, place, pick, base, jobs>>
    BY <1>5 DEF GuardFails
  <2>2. \A k \in Keys : count'[k] = count[k] \/ count'[k] = count[k] + 1
    BY <1>5, <1>a DEF GuardFails, GuardsTypeOK
  <2>3. Others(p) /\ stage'[p] = "answer"
    BY <1>a, <2>1 DEF HandlersTypeOK, Others, Kept
  <2>4. ASSUME NEW k \in Keys PROVE KeyInv(k)'
    <3>1. Counted(k)' \subseteq Counted(k)
      BY <2>3, CountedLeaves
    <3>2. count'[k] >= count[k]
      BY <1>c, <2>2
    <3>3. refused[k] <= 1 /\ (refused[k] > 0 => count[k] > Limit(k))
      BY <1>c DEF KeyInv
    <3>4. refused'[k] <= 1 /\ (refused'[k] > 0 => count'[k] > Limit(k))
      BY <1>a, <1>c, <2>1, <2>2, <3>3, KeyTypes
    <3> QED
      BY <1>a, <1>b, <1>c, <2>1, <3>1, <3>2, <3>4, KeyShrinks
  <2> QED
    BY <2>4 DEF GuardsInv
<1>6. CASE MinutePasses \/ CooldownEnds
  <2>1. AllKept /\ UNCHANGED <<count, granted, refused>>
    BY <1>6, <1>a, RequestFacts DEF MinutePasses, CooldownEnds
  <2> QED
    BY <1>a, <1>b, <2>1, GuardsFrame DEF AllKept
<1> QED
  BY <1>1, <1>2, <1>3, <1>4, <1>5, <1>6 DEF GuardStep

-----------------------------------------------------------------------------
(* Profiles: the lock on the row.                                          *)

\* Nobody new holds a lock, and profiles at most appear.
LEMMA ProfilesFrame ==
    ASSUME HandlersInv, ProfilesInv, active' = versions',
           \A q \in Proc : stage'[q] = "version" => Kept(q),
           \A k \in Profile : versions'[k] = versions[k] \/ (~Exists(k) /\ Exists(k)'),
           \A c \in Place : binding'[c] # 0 => versions'[binding'[c]] > 0
    PROVE  ProfilesInv'
<1>1. ASSUME NEW p \in Proc, stage'[p] = "version"
      PROVE  /\ versions'[pick'[p]] > 0 /\ base'[p] = versions'[pick'[p]]
             /\ \A q \in Proc : stage'[q] = "version" /\ pick'[q] = pick'[p] => q = p
  <2>1. /\ stage[p] = "version" /\ pick'[p] = pick[p] /\ base'[p] = base[p]
        /\ \A q \in Proc : stage'[q] = "version" => stage[q] = "version" /\ pick'[q] = pick[q]
    BY <1>1 DEF Kept
  <2>2. /\ Exists(pick[p]) /\ base[p] = versions[pick[p]]
        /\ \A q \in Proc : stage[q] = "version" /\ pick[q] = pick[p] => q = p
    BY <2>1 DEF ProfilesInv, PersonaIsNewest
  <2>3. pick[p] \in Profile
    BY <2>1 DEF HandlersInv, Equipped
  <2>4. versions'[pick[p]] = versions[pick[p]]
    BY <2>2, <2>3
  <2> QED
    BY <2>1, <2>2, <2>4 DEF Exists
<1> QED
  BY <1>1 DEF ProfilesInv, PersonaIsNewest, Exists

\* A profile appears under a number that was free.
LEMMA ProfileAdded ==
    ASSUME HandlersInv, ProfilesInv, NEW k \in Fresh, AddProfile(k), UNCHANGED binding,
           \A q \in Proc : stage'[q] = "version" => Kept(q)
    PROVE  ProfilesInv'
<1>1. k \in Profile /\ ~Exists(k) /\ active = versions
  BY DEF Fresh, ProfilesInv, PersonaIsNewest
<1>2. versions \in [Profile -> 0..MaxVersion] /\ binding \in [Place -> 0..MaxProfile]
  BY DEF HandlersInv, TypeOK, ProfilesTypeOK
<1>3. /\ active' = versions' /\ versions'[k] = 1
      /\ \A e \in Profile : e # k => versions'[e] = versions[e]
  BY <1>1, <1>2 DEF AddProfile
<1>4. \A e \in Profile : versions'[e] = versions[e] \/ (~Exists(e) /\ Exists(e)')
  BY <1>1, <1>3 DEF Exists
<1>5. ASSUME NEW c \in Place, binding'[c] # 0 PROVE versions'[binding'[c]] > 0
  <2>1. binding[c] # 0 /\ Exists(binding[c]) /\ binding[c] \in Profile
    BY <1>2, <1>5 DEF ProfilesInv, PersonaIsNewest, Profile
  <2> QED
    BY <1>3, <2>1 DEF Exists
<1> QED
  BY <1>3, <1>4, <1>5, ProfilesFrame

\* Profiles and versions stay, and what is bound is there.
LEMMA ProfileBound ==
    ASSUME HandlersInv, ProfilesInv, UNCHANGED <<versions, active>>,
           \A q \in Proc : stage'[q] = "version" => Kept(q),
           \A c \in Place : binding'[c] \in {0, binding[c]} \/ Exists(binding'[c])
    PROVE  ProfilesInv'
<1>1. active' = versions'
  BY DEF ProfilesInv, PersonaIsNewest
<1>2. \A c \in Place : binding[c] # 0 => Exists(binding[c])
  BY DEF ProfilesInv, PersonaIsNewest
<1>3. \A c \in Place : binding'[c] # 0 => versions'[binding'[c]] > 0
  BY <1>2 DEF Exists
<1> QED
  BY <1>1, <1>3, ProfilesFrame

\* Every step of the front door.
LEMMA ProfilesInvStep == FrontInv /\ Next => ProfilesInv'
<1> SUFFICES ASSUME FrontInv, Next PROVE ProfilesInv'
  OBVIOUS
<1>a. HandlersInv /\ ProfilesInv
  BY DEF FrontInv
<1>b. HandlersTypeOK /\ ProfilesTypeOK /\ \A p \in Proc : Equipped(p)
  BY <1>a DEF HandlersInv, TypeOK
<1>c. \A q \in Proc : ~ProfileStep /\ stage'[q] = "version" => Kept(q)
  BY <1>a, Frames DEF Next, Frame, GuardStages, PairingStages, EvaluationStages, MessageStages
<1>d. CASE UNCHANGED profileVars /\ \A q \in Proc : stage'[q] = "version" => Kept(q)
  BY <1>a, <1>d, ProfileBound DEF profileVars
<1>1. CASE ~ProfileStep
  <2>1. CASE PairingStep \/ GuardStep \/ OperatorStep
    BY <1>c, <1>d, <1>1, <2>1 DEF PairingStep, GuardStep, OperatorStep
  <2>2. CASE MessageStep
    BY <1>a, <1>c, <1>d, <1>1, <2>2, MessageFacts, ProfileAdded
  <2>3. CASE EvaluationStep
    <3>1. CASE UNCHANGED profileVars
      BY <1>c, <1>d, <1>1, <3>1
    <3>2. ASSUME NEW p \in Proc, SeedCase(p) PROVE ProfilesInv'
      <4>1. /\ UNCHANGED <<versions, active>>
            /\ \/ binding' = binding
               \/ Exists(pick[p]) /\ binding' = [binding EXCEPT ![base[p] + 1] = pick[p]]
        BY <3>2 DEF SeedCase
      <4>2. \A c \in Place : binding'[c] \in {0, binding[c]} \/ Exists(binding'[c])
        BY <1>b, <4>1 DEF ProfilesTypeOK
      <4> QED
        BY <1>a, <1>c, <1>1, <4>1, <4>2, ProfileBound
    <3> QED
      BY <2>3, <3>1, <3>2 DEF EvaluationStep, StartRun, SeedFails, CompleteResult
  <2> QED
    BY <1>1, <2>1, <2>2, <2>3 DEF Next
<1>2. CASE \/ CreateProfile \/ \E k \in Profile : UpdateProfile(k)
           \/ \E c \in Place, k \in 0..MaxProfile : BindProfile(c, k)
  <2>1. \A q \in Proc : Kept(q)
    <3>1. Request
      BY <1>2 DEF CreateProfile, UpdateProfile, BindProfile
    <3> QED
      BY <1>b, <3>1, RequestFacts DEF AllKept
  <2>2. CASE CreateProfile
    BY <1>a, <2>1, <2>2, ProfileAdded DEF CreateProfile, CreateNamed
  <2>3. CASE \E k \in Profile : UpdateProfile(k)
    BY <1>a, <2>1, <2>3, ProfileBound DEF UpdateProfile, Update
  <2>4. ASSUME NEW c \in Place, NEW e \in 0..MaxProfile, BindProfile(c, e) PROVE ProfilesInv'
    <3>1. /\ UNCHANGED <<versions, active>> /\ binding' = [binding EXCEPT ![c] = e]
          /\ e = 0 \/ Exists(e)
      BY <2>4 DEF BindProfile, Bind, Unbind
    <3>2. \A d \in Place : binding'[d] \in {0, binding[d]} \/ Exists(binding'[d])
      BY <1>b, <3>1 DEF ProfilesTypeOK
    <3> QED
      BY <1>a, <2>1, <3>1, <3>2, ProfileBound
  <2> QED
    BY <1>2, <2>2, <2>3, <2>4
<1>3. ASSUME NEW k \in Profile, DeleteProfile(k) PROVE ProfilesInv'
  <2>1. /\ AllKept /\ \A c \in Place : binding[c] # k
        /\ \A q \in Proc : ~(stage[q] = "version" /\ pick[q] = k)
        /\ versions' = [versions EXCEPT ![k] = 0] /\ active' = [active EXCEPT ![k] = 0]
        /\ UNCHANGED binding
    BY <1>b, <1>3, RequestFacts DEF DeleteProfile, Delete
  <2>2. active' = versions' /\ \A e \in Profile : e # k => versions'[e] = versions[e]
    BY <1>a, <1>b, <2>1 DEF ProfilesInv, PersonaIsNewest, ProfilesTypeOK
  <2>3. ASSUME NEW p \in Proc, stage'[p] = "version"
        PROVE  /\ versions'[pick'[p]] > 0 /\ base'[p] = versions'[pick'[p]]
               /\ \A q \in Proc : stage'[q] = "version" /\ pick'[q] = pick'[p] => q = p
    <3>1. /\ stage[p] = "version" /\ pick'[p] = pick[p] /\ base'[p] = base[p]
          /\ \A q \in Proc : stage'[q] = stage[q] /\ pick'[q] = pick[q]
      BY <2>1, <2>3 DEF AllKept, Kept
    <3>2. /\ versions[pick[p]] > 0 /\ base[p] = versions[pick[p]]
          /\ \A q \in Proc : stage[q] = "version" /\ pick[q] = pick[p] => q = p
      BY <1>a, <3>1 DEF ProfilesInv, PersonaIsNewest, Exists
    <3>3. pick[p] \in Profile /\ pick[p] # k
      BY <1>b, <2>1, <3>1 DEF Equipped
    <3> QED
      BY <2>2, <3>1, <3>2, <3>3
  <2>4. ASSUME NEW c \in Place, binding'[c] # 0 PROVE versions'[binding'[c]] > 0
    <3>1. binding[c] # 0 /\ binding[c] # k /\ binding[c] \in Profile /\ Exists(binding[c])
      BY <1>a, <1>b, <2>1, <2>4 DEF ProfilesInv, PersonaIsNewest, ProfilesTypeOK, Profile
    <3> QED
      BY <2>1, <2>2, <3>1 DEF Exists
  <2> QED
    BY <2>2, <2>3, <2>4 DEF ProfilesInv, PersonaIsNewest, Exists
<1>4. ASSUME NEW p \in Proc, NEW k \in Profile, EditPersona(p, k) \/ RollbackPersona(p, k)
      PROVE  ProfilesInv'
  <2>1. k \in Nat /\ Begin(p, None, None, k, "edit") /\ UNCHANGED profileVars
    BY <1>4 DEF EditPersona, RollbackPersona, Profile
  <2>2. Enters(p, None, None, k, "edit")
    BY <1>b, <2>1, BeginFacts, StageNames
  <2> QED
    BY <1>d, <2>1, <2>2 DEF Enters, Others
<1>5. ASSUME NEW p \in Proc, PersonaReads(p) PROVE ProfilesInv'
  <2>1. /\ stage[p] = "edit" /\ UNCHANGED profileVars
        /\ \A q \in Proc : ~(stage[q] = "version" /\ pick[q] = pick[p])
    BY <1>5 DEF PersonaReads
  <2>2. CASE Done(p)
    <3>1. Leaves(p)
      BY <1>b, <2>2, DoneFacts
    <3> QED
      BY <1>d, <2>1, <3>1 DEF Leaves, Others
  <2>3. CASE Exists(pick[p]) /\ Read(p, "version", versions[pick[p]])
    <3>1. versions[pick[p]] \in Nat
      BY <1>b, <2>1 DEF Equipped, ProfilesTypeOK
    <3>2. MovesWith(p, "version", versions[pick[p]])
      BY <1>b, <2>3, <3>1, ReadFacts, StageNames
    <3>3. UNCHANGED <<versions, active, binding>>
      BY <2>1 DEF profileVars
    <3>4. ASSUME NEW e \in Proc, stage'[e] = "version"
          PROVE  /\ versions[pick'[e]] > 0 /\ base'[e] = versions[pick'[e]]
                 /\ \A q \in Proc : stage'[q] = "version" /\ pick'[q] = pick'[e] => q = e
      <4>1. /\ pick'[e] = pick[e] /\ \A q \in Proc : pick'[q] = pick[q]
            /\ \A q \in Proc : stage'[q] = "version" => q = p \/ stage[q] = "version"
        BY <3>2 DEF MovesWith, Others, Kept
      <4>2. CASE e = p
        BY <2>1, <2>3, <3>2, <4>1, <4>2 DEF MovesWith, Exists
      <4>3. CASE e # p
        <5>1. stage[e] = "version" /\ base'[e] = base[e]
          BY <1>b, <3>2, <3>4, <4>3 DEF MovesWith, Others, Kept
        <5>2. /\ versions[pick[e]] > 0 /\ base[e] = versions[pick[e]]
              /\ \A q \in Proc : stage[q] = "version" /\ pick[q] = pick[e] => q = e
          BY <1>a, <5>1 DEF ProfilesInv, PersonaIsNewest, Exists
        <5> QED
          BY <2>1, <4>1, <5>1, <5>2
      <4> QED
        BY <4>2, <4>3
    <3> QED
      BY <1>a, <3>3, <3>4 DEF ProfilesInv, PersonaIsNewest, Exists
  <2> QED
    BY <1>5, <2>2, <2>3 DEF PersonaReads
<1>6. ASSUME NEW p \in Proc, PersonaWrites(p) PROVE ProfilesInv'
  <2>1. /\ stage[p] = "version" /\ Leaves(p) /\ UNCHANGED binding
        /\ versions' = [versions EXCEPT ![pick[p]] = base[p] + 1]
        /\ active' = [active EXCEPT ![pick[p]] = base[p] + 1]
    BY <1>b, <1>6, DoneFacts DEF PersonaWrites
  <2>2. pick[p] \in Profile /\ base[p] \in Nat
    BY <1>b, <2>1 DEF Equipped, HandlersTypeOK
  <2>3. /\ active' = versions' /\ versions'[pick[p]] = base[p] + 1
        /\ \A k \in Profile : k # pick[p] => versions'[k] = versions[k]
    BY <1>a, <1>b, <2>1, <2>2 DEF ProfilesInv, PersonaIsNewest, ProfilesTypeOK
  <2>4. ASSUME NEW e \in Proc, stage'[e] = "version"
        PROVE  /\ versions'[pick'[e]] > 0 /\ base'[e] = versions'[pick'[e]]
               /\ \A q \in Proc : stage'[q] = "version" /\ pick'[q] = pick'[e] => q = e
    <3>1. e # p /\ \A q \in Proc : stage'[q] = "version" => q # p /\ Kept(q)
      BY <2>1, <2>4 DEF Leaves, Others
    <3>2. stage[e] = "version" /\ pick'[e] = pick[e] /\ base'[e] = base[e]
      BY <2>4, <3>1 DEF Kept
    <3>3. /\ versions[pick[e]] > 0 /\ base[e] = versions[pick[e]]
          /\ \A q \in Proc : stage[q] = "version" /\ pick[q] = pick[e] => q = e
      BY <1>a, <3>2 DEF ProfilesInv, PersonaIsNewest, Exists
    <3>4. pick[e] \in Profile /\ pick[e] # pick[p]
      BY <1>b, <2>1, <3>1, <3>2, <3>3 DEF Equipped
    <3> QED
      BY <2>3, <3>1, <3>2, <3>3, <3>4 DEF Kept
  <2>5. ASSUME NEW c \in Place, binding'[c] # 0 PROVE versions'[binding'[c]] > 0
    <3>1. binding[c] # 0 /\ binding[c] \in Profile /\ versions[binding[c]] > 0
      BY <1>a, <1>b, <2>1, <2>5 DEF ProfilesInv, PersonaIsNewest, ProfilesTypeOK, Profile, Exists
    <3>2. base[p] + 1 > 0
      BY <2>2
    <3> QED
      BY <2>1, <2>3, <3>1, <3>2
  <2> QED
    BY <2>3, <2>4, <2>5 DEF ProfilesInv, PersonaIsNewest, Exists
<1> QED
  BY <1>1, <1>2, <1>3, <1>4, <1>5, <1>6 DEF ProfileStep

-----------------------------------------------------------------------------
(* Evaluation: where the cases of the run are, and what was counted.        *)

\* A process is at the place of a case only if it was, or has just taken it
\* from the stream.
LEMMA PlaceFrame ==
    ASSUME NEW Q, "access" \notin Q, Shifted(Q)
    PROVE  \A q \in Proc : place'[q] \in Case => place'[q] = place[q]
<1>1. None \notin Case /\ Group \notin Case /\ Subject \cap Case = {}
  BY DEF Case
<1>2. CASE AllKept
  BY <1>2 DEF AllKept, Kept
<1>3. ASSUME NEW p \in Proc, Shift(p)
      PROVE  \A q \in Proc : place'[q] \in Case => place'[q] = place[q]
  <2>1. Others(p)
    BY <1>3 DEF Shift, Leaves, Moves, MovesWith, Enters
  <2>2. ASSUME place'[p] \in Case, place'[p] # place[p] PROVE FALSE
    <3>1. stage'[p] = "access"
      BY <1>1, <1>3, <2>2 DEF Shift, Leaves, Moves, MovesWith, Enters
    <3> QED
      BY <2>2, <3>1 DEF Shifted, Frame, Kept
  <2> QED
    BY <2>1, <2>2 DEF Others, Kept
<1> QED
  BY <1>2, <1>3 DEF Shifted

\* The cases stay where they are or are dropped by the process that had them.
LEMMA CasesFrame ==
    ASSUME EvaluationTypeOK, CasesInv, UNCHANGED <<result, run, posted>>,
           \A q \in Proc : stage'[q] = "seed" => Kept(q),
           \A q \in Proc : place'[q] \in Case => place'[q] = place[q]
    PROVE  CasesInv'
<1>1. Completed' = Completed
  BY DEF Completed
<1>2. run.status = "NONE" =>
          \A p \in Proc : stage'[p] # "seed" /\ place'[p] \notin Case
  BY DEF CasesInv, Kept
<1>3. ASSUME NEW p \in Proc, stage'[p] = "seed"
      PROVE  /\ \A q \in Proc : stage'[q] = "seed" => q = p
             /\ \A e \in Case : e > base'[p] =>
                    e \notin posted \cup Completed /\ \A q \in Proc : place'[q] # e
  <2>1. stage[p] = "seed" /\ base'[p] = base[p]
    BY <1>3 DEF Kept
  <2>2. /\ \A q \in Proc : stage[q] = "seed" => q = p
        /\ \A e \in Case : e > base[p] =>
                e \notin posted \cup Completed /\ \A q \in Proc : place[q] # e
    BY <2>1 DEF CasesInv
  <2> QED
    BY <2>1, <2>2 DEF Kept
<1>4. \A e \in posted : e \notin Completed /\ \A q \in Proc : place'[q] # e
  BY DEF CasesInv, EvaluationTypeOK
<1>5. \A p \in Proc : place'[p] \in Case =>
          place'[p] \notin Completed /\ \A q \in Proc : place'[q] = place'[p] => q = p
  BY DEF CasesInv
<1> QED
  BY <1>1, <1>2, <1>3, <1>4, <1>5 DEF CasesInv

\* Every step of the front door.
LEMMA CasesInvStep == FrontInv /\ Next => CasesInv'
<1> SUFFICES ASSUME FrontInv, Next PROVE CasesInv'
  OBVIOUS
<1>a. HandlersInv /\ CasesInv
  BY DEF FrontInv
<1>b. HandlersTypeOK /\ EvaluationTypeOK /\ \A p \in Proc : Equipped(p) /\ base[p] \in Nat
  BY <1>a DEF HandlersInv, TypeOK, HandlersTypeOK
<1>c. None \notin Case /\ Group \notin Case /\ Subject \cap Case = {} /\ posted \subseteq Case
  BY <1>b DEF Case, EvaluationTypeOK
<1>1. CASE PairingStep \/ GuardStep \/ ProfileStep \/ OperatorStep
  <2>1. UNCHANGED <<result, run, posted>>
    BY <1>1 DEF PairingStep, GuardStep, ProfileStep, OperatorStep, evaluationVars
  <2>2. \A q \in Proc : place'[q] \in Case => place'[q] = place[q]
    <3>1. \/ Shifted(PairingStages) \/ Shifted(GuardStages)
          \/ Shifted(ProfileStages) \/ Shifted({})
      BY <1>1, <1>a, PairingShifts, GuardShifts, ProfileShifts, OperatorShifts
    <3>2. "access" \notin PairingStages \cup GuardStages \cup ProfileStages
      BY DEF PairingStages, GuardStages, ProfileStages
    <3> QED
      BY <3>1, <3>2, PlaceFrame
  <2>3. \A q \in Proc : stage'[q] = "seed" => Kept(q)
    BY <1>1, <1>a, Frames DEF Frame, PairingStages, GuardStages, ProfileStages
  <2> QED
    BY <1>a, <1>b, <2>1, <2>2, <2>3, CasesFrame
<1>2. CASE MessageStep
  <2>1. UNCHANGED <<result, run>> /\ \A q \in Proc : stage'[q] = "seed" => Kept(q)
    BY <1>2, <1>a, MessageFacts, Frames DEF Frame, MessageStages
  <2>2. ASSUME NEW p \in Proc, NEW e \in Case, ReceiveCase(p, e) PROVE CasesInv'
    <3>1. e \in posted /\ posted' = posted \ {e}
      BY <2>2 DEF ReceiveCase
    <3>2. Enters(p, Evaluator, e, 0, "access")
      BY <1>b, <2>2, BeginFacts, StageNames DEF ReceiveCase, User, Place
    <3>3. /\ place'[p] = e /\ \A q \in Proc : q # p => place'[q] = place[q]
          /\ Completed' = Completed /\ run.status # "NONE"
          /\ e \notin Completed /\ \A q \in Proc : place[q] # e
      BY <1>a, <2>1, <3>1, <3>2 DEF Enters, Others, Kept, Completed, CasesInv
    <3>4. ASSUME NEW q \in Proc, stage'[q] = "seed"
          PROVE  /\ \A r \in Proc : stage'[r] = "seed" => r = q
                 /\ \A f \in Case : f > base'[q] =>
                        f \notin posted' \cup Completed /\ \A r \in Proc : place'[r] # f
      <4>1. stage[q] = "seed" /\ base'[q] = base[q] /\ \A r \in Proc : stage'[r] = "seed" => stage[r] = "seed"
        BY <2>1, <3>4 DEF Kept
      <4>2. /\ \A r \in Proc : stage[r] = "seed" => r = q
            /\ \A f \in Case : f > base[q] =>
                   f \notin posted \cup Completed /\ \A r \in Proc : place[r] # f
        BY <1>a, <4>1 DEF CasesInv
      <4> QED
        BY <3>1, <3>3, <4>1, <4>2
    <3>5. \A f \in posted' : f \notin Completed /\ \A q \in Proc : place'[q] # f
      BY <1>a, <3>1, <3>3 DEF CasesInv
    <3>6. \A q \in Proc : place'[q] \in Case =>
              place'[q] \notin Completed /\ \A r \in Proc : place'[r] = place'[q] => r = q
      BY <1>a, <3>1, <3>3 DEF CasesInv
    <3> QED
      BY <2>1, <3>3, <3>4, <3>5, <3>6 DEF CasesInv
  <2>3. ASSUME NEW p \in Proc,
               \/ \E s \in Subject, c \in Subject \cup {Group} : Receive(p, s, c)
               \/ (Fails(p) \/ ModerateInbound(p) \/ Decide(p)) /\ UNCHANGED posted
               \/ Answer(p)
        PROVE  UNCHANGED posted /\ \A q \in Proc : place'[q] \in Case => place'[q] = place[q]
    <3>1. UNCHANGED posted
      BY <2>3 DEF Receive, evaluationVars, Answer, Moderate, Deliver, CompleteShadow, CountCompleted
    <3>2. CASE UNCHANGED place
      BY <3>1, <3>2
    <3>3. CASE Return(p)
      BY <1>b, <1>c, <3>1, <3>3 DEF Return, HandlersTypeOK
    <3>4. CASE \E s \in Subject, c \in Subject \cup {Group} : Receive(p, s, c)
      BY <1>b, <1>c, <3>1, <3>4 DEF Receive, Begin, HandlersTypeOK
    <3> QED
      BY <2>3, <3>1, <3>2, <3>3, <3>4 DEF Fails, ModerateInbound, Moderate, Decide, Guarded,
         Answer, Deliver, CompleteShadow, CountCompleted, Goto, Read, Done
  <2>4. \/ \E p \in Proc, e \in Case : ReceiveCase(p, e)
        \/ UNCHANGED posted /\ \A q \in Proc : place'[q] \in Case => place'[q] = place[q]
    BY <1>2, <2>3 DEF MessageStep, evaluationVars
  <2> QED
    BY <1>a, <1>b, <2>1, <2>2, <2>4, CasesFrame
<1>3. ASSUME NEW p \in Proc, NEW k \in 0..MaxProfile, StartRun(p, k) PROVE CasesInv'
  <2>1. /\ run.status = "NONE" /\ UNCHANGED posted /\ run'.status = "QUEUED"
        /\ result' = [e \in Case |-> "QUEUED"] /\ k \in Nat /\ Begin(p, None, None, k, "seed")
    BY <1>3 DEF StartRun, CreateRun
  <2>2. Enters(p, None, None, k, "seed")
    BY <1>b, <2>1, BeginFacts, StageNames
  <2>3. posted = {} /\ \A q \in Proc : stage[q] # "seed" /\ place[q] \notin Case
    BY <1>a, <2>1 DEF CasesInv
  <2>4. Completed' = {} /\ \A q \in Proc : place'[q] \notin Case
    BY <1>c, <2>1, <2>2, <2>3 DEF Completed, Enters, Others, Kept
  <2>5. \A q \in Proc : stage'[q] = "seed" => q = p
    BY <2>2, <2>3 DEF Enters, Others, Kept
  <2> QED
    BY <2>1, <2>3, <2>4, <2>5 DEF CasesInv
<1>4. ASSUME NEW p \in Proc, SeedCase(p) PROVE CasesInv'
  <2> DEFINE e == base[p] + 1
  <2>1. /\ stage[p] = "seed" /\ e \in Case /\ result' = [result EXCEPT ![e] = "RUNNING"]
        /\ run' = [run EXCEPT !.status = "RUNNING"] /\ posted' = posted \cup {e}
        /\ IF e = MaxCase THEN Done(p) ELSE Read(p, "seed", e)
    BY <1>4 DEF SeedCase, AttachConversation
  <2>2. /\ \A q \in Proc : stage[q] = "seed" => q = p
        /\ \A f \in Case : f > base[p] =>
               f \notin posted \cup Completed /\ \A q \in Proc : place[q] # f
    BY <1>a, <2>1 DEF CasesInv
  <2>3. base[p] \in Nat /\ e \notin posted \cup Completed /\ \A q \in Proc : place[q] # e
    BY <1>b, <2>1, <2>2
  <2>4. Completed' = Completed /\ run'.status # "NONE"
    BY <1>b, <2>1, <2>3 DEF Completed, EvaluationTypeOK
  <2>5. /\ Others(p) /\ place'[p] \in {place[p], None}
        /\ stage'[p] = "idle" \/ (stage'[p] = "seed" /\ base'[p] = e)
    <3>1. e \in Nat
      BY <2>3
    <3> HIDE DEF e
    <3> QED
      BY <1>b, <2>1, <3>1, DoneFacts, ReadFacts, StageNames DEF Leaves, MovesWith
  <2>6. \A q \in Proc : place'[q] \in {place[q], None}
    BY <2>5 DEF Others, Kept
  <2>7. ASSUME NEW q \in Proc, stage'[q] = "seed"
        PROVE  /\ \A r \in Proc : stage'[r] = "seed" => r = q
               /\ \A f \in Case : f > base'[q] =>
                      f \notin posted' \cup Completed /\ \A r \in Proc : place'[r] # f
    <3>1. q = p /\ base'[p] = e /\ \A r \in Proc : stage'[r] = "seed" => r = p
      BY <2>2, <2>5, <2>7 DEF Others, Kept
    <3>2. ASSUME NEW f \in Case, f > e
          PROVE  f \notin posted' \cup Completed /\ \A r \in Proc : place'[r] # f
      <4>1. f > base[p] /\ f # e
        BY <2>3, <3>2 DEF Case
      <4> QED
        BY <1>c, <2>1, <2>2, <2>6, <4>1
    <3> QED
      BY <3>1, <3>2
  <2>8. \A f \in posted' : f \notin Completed /\ \A q \in Proc : place'[q] # f
    BY <1>a, <1>c, <2>1, <2>3, <2>6 DEF CasesInv
  <2>9. \A q \in Proc : place'[q] \in Case =>
            place'[q] \notin Completed /\ \A r \in Proc : place'[r] = place'[q] => r = q
    BY <1>a, <1>c, <2>6 DEF CasesInv
  <2> QED
    BY <2>4, <2>7, <2>8, <2>9 DEF CasesInv
<1>5. ASSUME NEW p \in Proc, SeedFails(p) PROVE CasesInv'
  <2>1. Leaves(p) /\ UNCHANGED <<result, run, posted>>
    BY <1>b, <1>5, DoneFacts DEF SeedFails, evaluationVars
  <2> QED
    BY <1>a, <1>b, <1>c, <2>1, CasesFrame DEF Leaves, Others, Kept
<1>6. ASSUME NEW p \in Proc, CompleteResult(p) PROVE CasesInv'
  <2>1. /\ stage[p] = "complete" /\ result' = [result EXCEPT ![place[p]] = "COMPLETED"]
        /\ run'.status # "NONE" /\ UNCHANGED posted /\ Leaves(p) /\ place[p] \in Case
    BY <1>b, <1>6, DoneFacts DEF CompleteResult, Equipped
  <2>2. Completed' = Completed \cup {place[p]}
    BY <1>b, <2>1 DEF Completed, EvaluationTypeOK
  <2>3. \A q \in Proc : q # p => place'[q] = place[q] /\ stage'[q] = stage[q] /\ base'[q] = base[q]
    BY <2>1 DEF Leaves, Others, Kept
  <2>4. place'[p] = None /\ stage'[p] = "idle"
    BY <2>1 DEF Leaves
  <2>5. ASSUME NEW q \in Proc, stage'[q] = "seed"
        PROVE  /\ \A r \in Proc : stage'[r] = "seed" => r = q
               /\ \A f \in Case : f > base'[q] =>
                      f \notin posted \cup Completed' /\ \A r \in Proc : place'[r] # f
    <3>1. q # p /\ stage[q] = "seed" /\ base'[q] = base[q]
      BY <2>3, <2>4, <2>5
    <3>2. /\ \A r \in Proc : stage[r] = "seed" => r = q
          /\ \A f \in Case : f > base[q] =>
                 f \notin posted \cup Completed /\ \A r \in Proc : place[r] # f
      BY <1>a, <3>1 DEF CasesInv
    <3> QED
      BY <1>c, <2>2, <2>3, <2>4, <3>1, <3>2
  <2>6. \A f \in posted : f \notin Completed' /\ \A q \in Proc : place'[q] # f
    BY <1>a, <1>c, <2>2, <2>3, <2>4 DEF CasesInv
  <2>7. \A q \in Proc : place'[q] \in Case =>
            place'[q] \notin Completed' /\ \A r \in Proc : place'[r] = place'[q] => r = q
    BY <1>a, <1>c, <2>1, <2>2, <2>3, <2>4 DEF CasesInv
  <2> QED
    BY <2>1, <2>5, <2>6, <2>7 DEF CasesInv
<1> QED
  BY <1>1, <1>2, <1>3, <1>4, <1>5, <1>6 DEF Next, EvaluationStep

\* The results and the count stay, and nobody new is about to complete one.
LEMMA CountsFrame ==
    ASSUME CountsInv, UNCHANGED <<result, run, overlapped>>,
           \A q \in Proc : stage'[q] = "complete" => Kept(q)
    PROVE  CountsInv'
<1>1. Completed' = Completed
  BY DEF Completed
<1>2. RunCounts'
  BY <1>1 DEF CountsInv, RunCounts
<1>3. ASSUME NEW p \in Proc, stage'[p] = "complete"
      PROVE  /\ base'[p] <= Cardinality(Completed \cup {place'[p]})
             /\ ~overlapped =>
                    /\ base'[p] = Cardinality(Completed \cup {place'[p]})
                    /\ \A q \in Proc : stage'[q] = "complete" => q = p
  <2>1. stage[p] = "complete" /\ base'[p] = base[p] /\ place'[p] = place[p]
    BY <1>3 DEF Kept
  <2> QED
    BY <2>1 DEF CountsInv, Kept
<1> QED
  BY <1>1, <1>2, <1>3 DEF CountsInv

\* The completed results are finitely many, and all of them when they are as
\* many as the cases.
LEMMA CompletedFacts ==
    ASSUME NEW S, S \subseteq Case
    PROVE  /\ IsFiniteSet(S) /\ Cardinality(S) \in Nat /\ Cardinality(S) <= MaxCase
           /\ Cardinality(S) >= MaxCase <=> S = Case
<1>1. IsFiniteSet(S) /\ Cardinality(S) <= MaxCase /\ (Cardinality(S) = MaxCase => S = Case)
  BY CaseFacts, FS_Subset
<1>2. Cardinality(S) \in Nat
  BY <1>1, FS_CardinalityType
<1>3. S = Case => Cardinality(S) = MaxCase
  BY CaseFacts
<1> QED
  BY <1>1, <1>2, <1>3

\* Every step of the front door.
LEMMA CountsInvStep == FrontInv /\ Next => CountsInv'
<1> SUFFICES ASSUME FrontInv, Next PROVE CountsInv'
  OBVIOUS
<1>a. HandlersInv /\ CasesInv /\ CountsInv /\ RunCounts
  BY DEF FrontInv, CountsInv
<1>b. HandlersTypeOK /\ EvaluationTypeOK /\ \A p \in Proc : Equipped(p) /\ base[p] \in Nat
  BY <1>a DEF HandlersInv, TypeOK, HandlersTypeOK
<1>c. Completed \subseteq Case
  BY DEF Completed
<1>1. CASE PairingStep \/ GuardStep \/ ProfileStep \/ OperatorStep
  <2>1. UNCHANGED <<result, run, overlapped>>
    BY <1>1 DEF PairingStep, GuardStep, ProfileStep, OperatorStep, evaluationVars
  <2>2. \A q \in Proc : stage'[q] = "complete" => Kept(q)
    BY <1>1, <1>a, Frames DEF Frame, PairingStages, GuardStages, ProfileStages
  <2> QED
    BY <1>a, <2>1, <2>2, CountsFrame
<1>2. ASSUME NEW p \in Proc, Answer(p), place[p] \in Case, CountCompleted(p), UNCHANGED <<result, run>>
      PROVE  CountsInv'
  <2> DEFINE n == Cardinality(Completed \cup {place[p]})
  <2>1. n \in Nat
    BY <1>2, CountIsNat
  <2>2. /\ Read(p, "complete", n) /\ stage[p] = "answer"
        /\ overlapped' = (overlapped \/ \E q \in Proc : stage[q] = "complete")
    BY <1>2 DEF CountCompleted, Answer
  <2>3. MovesWith(p, "complete", n)
    <3> HIDE DEF n
    <3> QED
      BY <1>b, <2>1, <2>2, ReadFacts, StageNames
  <2>4. Completed' = Completed
    BY <1>2 DEF Completed
  <2>5. RunCounts'
    <3>1. ~overlapped' => ~overlapped
      BY <2>2
    <3> QED
      BY <1>2, <1>a, <2>4, <3>1 DEF RunCounts
  <2>6. ASSUME NEW q \in Proc, stage'[q] = "complete"
        PROVE  /\ base'[q] <= Cardinality(Completed \cup {place'[q]})
               /\ ~overlapped' =>
                      /\ base'[q] = Cardinality(Completed \cup {place'[q]})
                      /\ \A r \in Proc : stage'[r] = "complete" => r = q
    <3>1. CASE q = p
      <4>1. base'[q] = n /\ place'[q] = place[p]
        BY <2>3, <3>1 DEF MovesWith
      <4>2. ~overlapped' => \A r \in Proc : stage'[r] = "complete" => r = p
        BY <2>2, <2>3 DEF MovesWith, Others, Kept
      <4> QED
        BY <2>1, <3>1, <4>1, <4>2
    <3>2. CASE q # p
      <4>1. stage[q] = "complete" /\ base'[q] = base[q] /\ place'[q] = place[q]
        BY <2>3, <2>6, <3>2 DEF MovesWith, Others, Kept
      <4> QED
        BY <1>a, <2>2, <4>1 DEF CountsInv
    <3> QED
      BY <3>1, <3>2
  <2> QED
    BY <2>4, <2>5, <2>6 DEF CountsInv
<1>3. CASE MessageStep
  <2>1. UNCHANGED <<result, run>>
    BY <1>3, MessageFacts
  <2>2. \/ \E p \in Proc : Answer(p) /\ place[p] \in Case /\ CountCompleted(p)
        \/ /\ UNCHANGED overlapped
           /\ \A q \in Proc : stage'[q] = "complete" => Kept(q)
    <3>1. PICK p \in Proc :
              \/ \E s \in Subject, c \in Subject \cup {Group} : Receive(p, s, c)
              \/ \E e \in Case : ReceiveCase(p, e)
              \/ Fails(p) /\ UNCHANGED overlapped
              \/ ModerateInbound(p) /\ UNCHANGED overlapped
              \/ Decide(p) /\ UNCHANGED overlapped
              \/ Answer(p)
      BY <1>3 DEF MessageStep, evaluationVars
    <3>2. \/ UNCHANGED overlapped
          \/ Answer(p) /\ place[p] \in Case /\ CountCompleted(p)
      BY <3>1 DEF Receive, ReceiveCase, evaluationVars, Answer, Moderate, Deliver, CompleteShadow
    <3>3. \/ Answer(p) /\ place[p] \in Case /\ CountCompleted(p)
          \/ /\ \A q \in Proc : q # p => stage'[q] = stage[q] /\ base'[q] = base[q] /\ place'[q] = place[q]
                                         /\ who'[q] = who[q] /\ pick'[q] = pick[q]
             /\ stage'[p] # "complete"
      BY <3>1, <1>b DEF Receive, ReceiveCase, Fails, ModerateInbound, Moderate, Decide,
         Guarded, Answer, Deliver, CompleteShadow, Begin, Goto, Read, Done, Return, HandlersTypeOK
    <3> QED
      BY <3>2, <3>3 DEF Kept
  <2> QED
    BY <1>2, <1>a, <2>1, <2>2, CountsFrame
<1>4. ASSUME NEW p \in Proc, NEW k \in 0..MaxProfile, StartRun(p, k) PROVE CountsInv'
  <2>1. /\ run.status = "NONE" /\ UNCHANGED overlapped /\ k \in Nat
        /\ run' = [status |-> "QUEUED", completed |-> 0]
        /\ result' = [e \in Case |-> "QUEUED"] /\ Begin(p, None, None, k, "seed")
    BY <1>4 DEF StartRun, CreateRun
  <2>2. Enters(p, None, None, k, "seed")
    BY <1>b, <2>1, BeginFacts, StageNames
  <2>3. Completed' = {} /\ Cardinality(Completed') = 0 /\ Case # {}
    <3>1. Completed' = {}
      BY <2>1 DEF Completed
    <3> QED
      BY <3>1, FS_EmptySet DEF Case
  <2>4. \A q \in Proc : stage'[q] # "complete"
    BY <1>a, <1>b, <2>1, <2>2 DEF CasesInv, Equipped, Enters, Others, Kept
  <2>5. RunCounts'
    BY <2>1, <2>3 DEF RunCounts
  <2> QED
    BY <2>4, <2>5 DEF CountsInv
<1>5. ASSUME NEW p \in Proc, SeedCase(p) PROVE CountsInv'
  <2> DEFINE e == base[p] + 1
  <2>1. /\ stage[p] = "seed" /\ e \in Case /\ result' = [result EXCEPT ![e] = "RUNNING"]
        /\ run' = [run EXCEPT !.status = "RUNNING"] /\ UNCHANGED overlapped
        /\ IF e = MaxCase THEN Done(p) ELSE Read(p, "seed", e)
    BY <1>5 DEF SeedCase, AttachConversation
  <2>2. e \in Nat /\ e > base[p]
    BY <1>b
  <2>3. e \notin Completed
    BY <1>a, <2>1, <2>2 DEF CasesInv
  <2>4. Completed' = Completed /\ run'.status = "RUNNING" /\ run'.completed = run.completed
    BY <1>b, <2>1, <2>3 DEF Completed, EvaluationTypeOK
  <2>5. RunCounts'
    BY <1>a, <2>1, <2>3, <2>4 DEF RunCounts
  <2>6. Others(p) /\ stage'[p] # "complete"
    <3> HIDE DEF e
    <3> QED
      BY <1>b, <2>1, <2>2, DoneFacts, ReadFacts, StageNames DEF Leaves, MovesWith
  <2>7. ASSUME NEW q \in Proc, stage'[q] = "complete"
        PROVE  /\ base'[q] <= Cardinality(Completed \cup {place'[q]})
               /\ ~overlapped =>
                      /\ base'[q] = Cardinality(Completed \cup {place'[q]})
                      /\ \A r \in Proc : stage'[r] = "complete" => r = q
    <3>1. stage[q] = "complete" /\ base'[q] = base[q] /\ place'[q] = place[q]
      BY <2>6, <2>7 DEF Others, Kept
    <3> QED
      BY <1>a, <2>6, <3>1 DEF CountsInv, Others, Kept
  <2> QED
    BY <2>1, <2>4, <2>5, <2>7 DEF CountsInv
<1>6. ASSUME NEW p \in Proc, SeedFails(p) PROVE CountsInv'
  <2>1. Leaves(p) /\ UNCHANGED <<result, run, overlapped>>
    BY <1>b, <1>6, DoneFacts DEF SeedFails, evaluationVars
  <2> QED
    BY <1>a, <2>1, CountsFrame DEF Leaves, Others
<1>7. ASSUME NEW p \in Proc, CompleteResult(p) PROVE CountsInv'
  <2>1. /\ stage[p] = "complete" /\ result' = [result EXCEPT ![place[p]] = "COMPLETED"]
        /\ run'.status = IF base[p] >= MaxCase THEN "COMPLETED" ELSE "RUNNING"
        /\ run'.completed = base[p] /\ UNCHANGED overlapped /\ Leaves(p) /\ place[p] \in Case
    BY <1>b, <1>7, DoneFacts DEF CompleteResult, Equipped
  <2>2. Completed' = Completed \cup {place[p]} /\ Completed' \subseteq Case
    BY <1>b, <1>c, <2>1 DEF Completed, EvaluationTypeOK
  <2>3. /\ base[p] <= Cardinality(Completed')
        /\ ~overlapped => /\ base[p] = Cardinality(Completed')
                          /\ \A q \in Proc : stage[q] = "complete" => q = p
    BY <1>a, <2>1, <2>2 DEF CountsInv
  <2>4. /\ Cardinality(Completed') \in Nat /\ Cardinality(Completed') <= MaxCase
        /\ Cardinality(Completed') >= MaxCase <=> Completed' = Case
    BY <2>2, CompletedFacts
  <2>5. base[p] >= MaxCase => Completed' = Case
    BY <1>b, <2>3, <2>4
  <2>6. RunCounts'
    BY <2>1, <2>3, <2>4, <2>5 DEF RunCounts
  <2>7. ASSUME NEW q \in Proc, stage'[q] = "complete"
        PROVE  base'[q] <= Cardinality(Completed' \cup {place'[q]}) /\ overlapped
    <3>1. q # p /\ stage[q] = "complete" /\ base'[q] = base[q] /\ place'[q] = place[q]
      BY <2>1, <2>7 DEF Leaves, Others, Kept
    <3>2. base[q] <= Cardinality(Completed \cup {place[q]}) /\ place[q] \in Case
      BY <1>a, <1>b, <3>1 DEF CountsInv, Equipped
    <3>3. /\ Completed \cup {place[q]} \subseteq Completed' \cup {place[q]}
          /\ Completed' \cup {place[q]} \subseteq Case
      BY <2>2, <3>2
    <3>4. /\ Cardinality(Completed \cup {place[q]}) <= Cardinality(Completed' \cup {place[q]})
          /\ Cardinality(Completed' \cup {place[q]}) \in Nat
      BY <3>3, CompletedFacts, FS_Subset
    <3>5. Cardinality(Completed \cup {place[q]}) \in Nat
      BY <3>2, CountIsNat
    <3>6. base[q] <= Cardinality(Completed' \cup {place[q]})
      BY <1>b, <3>2, <3>4, <3>5
    <3> QED
      BY <1>b, <2>3, <3>1, <3>6 DEF EvaluationTypeOK
  <2> QED
    BY <2>1, <2>6, <2>7 DEF CountsInv
<1> QED
  BY <1>1, <1>3, <1>4, <1>5, <1>6, <1>7 DEF Next, EvaluationStep

-----------------------------------------------------------------------------
(* The theorems.                                                           *)

\* The first state: nobody is anywhere, nothing is counted, nothing is asked.
LEMMA InitInv == Init => FrontInv
<1> SUFFICES ASSUME Init PROVE FrontInv
  OBVIOUS
<1>1. \A p \in Proc : /\ stage[p] = "idle" /\ who[p] = None /\ place[p] = None
                      /\ pick[p] = 0 /\ base[p] = 0
  BY DEF Init, HandlersInit
<1>2. None \notin Case
  BY DEF Case
<1>3. TypeOK
  <2>1. HandlersTypeOK
    BY DEF Init, HandlersInit, HandlersTypeOK, Stages
  <2>2. PairingTypeOK
    BY DEF Init, PairingInit, PairingTypeOK
  <2>3. ModerationTypeOK
    BY DEF Init, ModerationInit, ModerationTypeOK, Modes
  <2>4. GuardsTypeOK
    BY DEF Init, GuardsInit, GuardsTypeOK
  <2>5. ProfilesTypeOK
    BY DEF Init, ProfilesInit, ProfilesTypeOK
  <2>6. EvaluationTypeOK
    <3>1. 0 \in 0..MaxCase
      OBVIOUS
    <3>2. run \in [status : {"NONE", "QUEUED", "RUNNING", "COMPLETED"}, completed : 0..MaxCase]
      BY <3>1 DEF Init, EvaluationInit
    <3>3. result \in [Case -> {"NONE", "QUEUED", "RUNNING", "COMPLETED"}]
      BY DEF Init, EvaluationInit
    <3> QED
      BY <3>2, <3>3 DEF Init, EvaluationInit, EvaluationTypeOK
  <2> QED
    BY <2>1, <2>2, <2>3, <2>4, <2>5, <2>6 DEF TypeOK
<1>4. Live = {}
  BY DEF Init, PairingInit, Live
<1>5. Completed = {} /\ Cardinality(Completed) = 0
  <2>1. Completed = {}
    BY DEF Init, EvaluationInit, Completed
  <2> QED
    BY <2>1, FS_EmptySet
<1>6. HandlersInv
  BY <1>1, <1>2, <1>3, <1>4 DEF HandlersInv, Equipped, AskersKnown, OfMessage
<1>7. PairingInv
  BY <1>1, <1>4, FS_EmptySet DEF PairingInv, PairingBounded
<1>8. GuardsInv
  <2>1. SUFFICES ASSUME NEW k \in Keys PROVE KeyInv(k)
    BY DEF GuardsInv
  <2>2. Cardinality(Counted(k)) = 0
    <3>1. Counted(k) = {}
      BY <1>1 DEF Counted
    <3> QED
      BY <3>1, FS_EmptySet
  <2>3. count[k] = 0 /\ granted[k] = 0 /\ refused[k] = 0 /\ Limit(k) \in Nat
    BY DEF Init, GuardsInit, Limit
  <2> QED
    BY <2>2, <2>3 DEF KeyInv
<1>9. ProfilesInv
  BY <1>1 DEF ProfilesInv, PersonaIsNewest, Init, ProfilesInit
<1>10. CasesInv
  BY <1>1, <1>2, <1>5 DEF CasesInv, Init, EvaluationInit
<1>11. CountsInv
  <2>1. run.status = "NONE" /\ run.completed = 0
    BY DEF Init, EvaluationInit
  <2> QED
    BY <1>1, <1>5, <2>1 DEF CountsInv, RunCounts
<1>12. FlaggedIsWithheld
  BY DEF Init, ModerationInit, FlaggedIsWithheld
<1> QED
  BY <1>6, <1>7, <1>8, <1>9, <1>10, <1>11, <1>12 DEF FrontInv

\* A step that changes nothing.
LEMMA StutterInv == FrontInv /\ UNCHANGED vars => FrontInv'
<1> SUFFICES ASSUME FrontInv, UNCHANGED vars PROVE FrontInv'
  OBVIOUS
<1> USE DEF vars, handlerVars, pairingVars, moderationVars, guardVars, profileVars, evaluationVars
<1>1. HandlersInv'
  BY DEF FrontInv, HandlersInv, TypeOK, HandlersTypeOK, PairingTypeOK, ModerationTypeOK,
     GuardsTypeOK, ProfilesTypeOK, EvaluationTypeOK, Equipped, AskersKnown, Live
<1>2. PairingInv'
  BY DEF FrontInv, PairingInv, PairingBounded, Live
<1>3. GuardsInv'
  BY DEF FrontInv, GuardsInv, KeyInv, Counted, Limit
<1>4. ProfilesInv'
  BY DEF FrontInv, ProfilesInv, PersonaIsNewest, Exists
<1>5. CasesInv' /\ CountsInv'
  BY DEF FrontInv, CasesInv, CountsInv, RunCounts, Completed
<1>6. FlaggedIsWithheld'
  BY DEF FrontInv, FlaggedIsWithheld
<1> QED
  BY <1>1, <1>2, <1>3, <1>4, <1>5, <1>6 DEF FrontInv

\* The invariant of the front door is inductive: each of its parts is kept by
\* every step of messages and operators.
THEOREM FrontInvHolds == Spec => []FrontInv
<1>1. FrontInv /\ [Next]_vars => FrontInv'
  <2>1. FrontInv /\ Next => FrontInv'
    <3>1. FrontInv /\ Next => FlaggedIsWithheld'
      BY ModerationStep DEF FrontInv
    <3> QED
      BY <3>1, HandlersStep, PairingInvStep, GuardsInvStep, ProfilesInvStep, CasesInvStep,
         CountsInvStep DEF FrontInv
  <2> QED
    BY <2>1, StutterInv
<1> QED
  BY <1>1, InitInv, PTL DEF Spec

\* Every variable of the front door has its type: counters stay numbers of
\* their keys, versions and bindings name profiles within bounds, and the run
\* never counts more than its cases.
THEOREM TypeCorrect == Spec => []TypeOK
<1>1. FrontInv => TypeOK
  BY DEF FrontInv, HandlersInv
<1> QED
  BY <1>1, FrontInvHolds, PTL

\* request(), with its count and its insert in different steps, never admits
\* more than pending_limit waiting requests of a connection nor two of the same
\* subject, however many workers and operators ask at the same time: the
\* advisory lock is enough.
THEOREM PairingIsBounded == Spec => []PairingBounded
<1>1. FrontInv => PairingBounded
  BY DEF FrontInv, PairingInv
<1> QED
  BY <1>1, FrontInvHolds, PTL

\* moderate() and its two callers: a text that a backend flags, or fails on when
\* moderation is to fail closed, gets through no more often than calls of the hook
\* raise, for any number of backends in any order, messages and policy edits: the
\* only way past a flag is an error of the policy store or of the audit.
THEOREM FlaggedStaysWithheld == Spec => []FlaggedIsWithheld
<1>1. FrontInv => FlaggedIsWithheld
  BY DEF FrontInv
<1> QED
  BY <1>1, FrontInvHolds, PTL

\* The guards let no more turns of a minute through than user_per_minute and
\* chat_per_minute allow, and refuse at most one aloud, for any number of
\* workers between the two increments and the cooldown.
THEOREM GuardsLimitRates == Spec => []RateLimited
<1>1. FrontInv => RateLimited
  <2> SUFFICES ASSUME FrontInv, NEW k \in Keys
               PROVE  granted[k] <= Limit(k) /\ refused[k] <= 1
    BY DEF RateLimited, Limit
  <2>1. GuardsTypeOK /\ KeyInv(k)
    BY DEF FrontInv, HandlersInv, TypeOK, GuardsInv
  <2>2. /\ granted[k] \in Nat /\ Cardinality(Counted(k)) \in Nat /\ Limit(k) \in Nat
        /\ granted[k] + Cardinality(Counted(k)) <= Limit(k) /\ refused[k] <= 1
    BY <2>1, KeyTypes, CountedFinite DEF KeyInv
  <2> QED
    BY <2>2
<1> QED
  BY <1>1, FrontInvHolds, PTL

\* create_persona_version: the row lock keeps what an editor has read the newest
\* version until it writes, so that versions are never computed twice, and a
\* bound conversation never loses its profile to a delete.
THEOREM PersonaStaysNewest == Spec => []PersonaIsNewest
<1>1. FrontInv => PersonaIsNewest
  BY DEF FrontInv, ProfilesInv
<1> QED
  BY <1>1, FrontInvHolds, PTL

\* complete(): a run is COMPLETED only when every case is, and its count is
\* never too high; it is exact unless two results were completed at a time.
THEOREM RunCountsHold == Spec => []RunCounts
<1>1. FrontInv => RunCounts
  BY DEF FrontInv, CountsInv
<1> QED
  BY <1>1, FrontInvHolds, PTL

=============================================================================
