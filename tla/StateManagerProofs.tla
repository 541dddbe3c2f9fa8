------------------------- MODULE StateManagerProofs -------------------------
(***************************************************************************)
(* Proofs about StateManager: no adapter leaks, only an unguarded report   *)
(* ends the task, a failing credential keeps no other from being polled,   *)
(* and a snapshot key outlives the failures its time to live allows for.   *)
(*                                                                         *)
(* The inductive invariant adds to these what they hang on.  CloseInv: in  *)
(* the finally block what is still to be closed is all there is.           *)
(* BudgetInv: what a key has left, the passes that failed to renew it and  *)
(* the time since the last pass make up the time to live.                  *)
(***************************************************************************)
EXTENDS StateManager, TLAPS

CloseInv == pc = "finally" => stale = cached

EndInv ==
    (beat = "ended" \/ snap = "ended" \/ pc \in {"finally", "ended"})
        => stopped \/ killer # "none"

\* Ticks the key of b was not renewed for, that no failed SET is counted for.
Unrenewed(b) == IF snap = "sleep" THEN Period - timer
                ELSE IF b \in writing THEN Period ELSE 0

BudgetInv ==
    snap # "ended" =>
        \A b \in written :
            \/ missed[b] >= Ttl
            \/ ttl[b] + Period * missed[b] + Unrenewed(b) >= Ttl

LoopInv == CloseInv /\ NoAdapterLeaks /\ EndInv

StateInv == TypeOK /\ LoopInv /\ BudgetInv

LEMMA StateInvInit == Init => StateInv
<1> SUFFICES ASSUME Init PROVE StateInv
  OBVIOUS
<1>1. TypeOK
  <2>1. live \in [Creds -> Nat]
    BY DEF Init
  <2>2. ttl \in [Bots -> 0..Ttl] /\ missed \in [Bots -> 0..Ttl] /\ timer \in 0..Period
    BY PeriodAssumption, TtlAssumption DEF Init
  <2> QED
    BY <2>1, <2>2 DEF Init, TypeOK
<1>2. LoopInv
  BY DEF Init, LoopInv, CloseInv, NoAdapterLeaks, EndInv
<1>3. BudgetInv
  BY DEF Init, BudgetInv
<1> QED
  BY <1>1, <1>2, <1>3 DEF StateInv

-----------------------------------------------------------------------------
(* The balance loop *)

\* What the balance loop owns keeps its types and invariants in each step.
BalanceTypes ==
    /\ pc \in {"sleep", "list", "listReport", "close", "poll", "report",
               "positions", "finally", "ended"}
    /\ running \subseteq Bots
    /\ todo \subseteq Creds
    /\ stale \subseteq cached /\ cached \subseteq Creds
    /\ live \in [Creds -> Nat]
    /\ killer \in {"none", "listReport", "report"}

BalanceEnds == pc \in {"finally", "ended"} => stopped \/ killer # "none"

LEMMA BalanceKeeps ==
  ASSUME TypeOK, LoopInv, BalanceStep, stopped' = stopped
  PROVE  /\ BalanceTypes'
         /\ (CloseInv /\ NoAdapterLeaks /\ BalanceEnds)'
         /\ killer # "none" => (killer # "none" \/ stopped)'
<1> USE DEF TypeOK, LoopInv, BalanceTypes, CloseInv, NoAdapterLeaks, EndInv,
            BalanceEnds
<1>1. CASE BeginPass
  BY <1>1 DEF BeginPass
<1>2. CASE LeaveLoop
  BY <1>2 DEF LeaveLoop, EnterFinally
<1>3. CASE ListCredentials
  BY <1>3 DEF ListCredentials
<1>4. CASE ListReport
  BY <1>4 DEF ListReport, EnterFinally
<1>5. CASE CloseDone
  BY <1>5 DEF CloseDone
<1>6. CASE Report
  BY <1>6 DEF Report, EnterFinally
<1>7. CASE PollDone
  BY <1>7 DEF PollDone
<1>8. CASE RecordPass
  BY <1>8 DEF RecordPass
<1>9. ASSUME NEW c \in Creds, CloseOne(c)
      PROVE  /\ BalanceTypes'
             /\ (CloseInv /\ NoAdapterLeaks /\ BalanceEnds)'
             /\ killer # "none" => (killer # "none" \/ stopped)'
  <2>1. live[c] = 1
    BY <1>9 DEF CloseOne
  <2>2. \A d \in Creds : live'[d] = IF d \in cached' THEN 1 ELSE 0
    BY <1>9, <2>1 DEF CloseOne
  <2>3. live' \in [Creds -> Nat]
    BY <1>9, <2>1 DEF CloseOne
  <2> QED
    BY <1>9, <2>2, <2>3 DEF CloseOne
<1>10. ASSUME NEW c \in Creds, Poll(c)
       PROVE  /\ BalanceTypes'
              /\ (CloseInv /\ NoAdapterLeaks /\ BalanceEnds)'
              /\ killer # "none" => (killer # "none" \/ stopped)'
  <2>1. CASE c \notin cached /\ Build(c)
    BY <1>10, <2>1 DEF Poll, Build
  <2>2. CASE UNCHANGED <<cached, live>>
    BY <1>10, <2>2 DEF Poll
  <2> QED
    BY <1>10, <2>1, <2>2 DEF Poll
<1>11. ASSUME NEW b \in Bots, QueryPositions(b)
       PROVE  /\ BalanceTypes'
              /\ (CloseInv /\ NoAdapterLeaks /\ BalanceEnds)'
              /\ killer # "none" => (killer # "none" \/ stopped)'
  BY <1>11 DEF QueryPositions
<1> QED
  BY <1>1, <1>2, <1>3, <1>4, <1>5, <1>6, <1>7, <1>8, <1>9, <1>10, <1>11
  DEF BalanceStep

LEMMA BalanceLoopKeeps ==
  ASSUME StateInv, BalanceLoop PROVE StateInv'
<1>1. /\ BalanceTypes'
      /\ (CloseInv /\ NoAdapterLeaks /\ BalanceEnds)'
      /\ killer # "none" => (killer # "none" \/ stopped)'
  BY BalanceKeeps DEF StateInv, BalanceLoop
<1>2. UNCHANGED <<bots, tableVars, beat, snapshotVars, stopped, engine>>
  BY DEF BalanceLoop
<1>3. TypeOK'
  BY <1>1, <1>2 DEF StateInv, TypeOK, BalanceTypes, tableVars, snapshotVars
<1>4. LoopInv'
  BY <1>1, <1>2 DEF StateInv, LoopInv, EndInv, BalanceEnds, snapshotVars
<1>5. BudgetInv'
  BY <1>2 DEF StateInv, BudgetInv, Unrenewed, snapshotVars
<1> QED
  BY <1>3, <1>4, <1>5 DEF StateInv

-----------------------------------------------------------------------------
(* The snapshot loop *)

\* What one more failed pass, or one more tick, is worth.
LEMMA PeriodTimes ==
  ASSUME NEW m \in Nat
  PROVE  /\ Period * m \in Nat /\ Period * m >= m
         /\ Period * (m + 1) = Period * m + Period
BY PeriodAssumption

LEMMA WriteKeeps ==
  ASSUME TypeOK, BudgetInv, NEW b \in Bots, SnapshotWrite(b), bots' = bots
  PROVE  /\ BudgetInv'
         /\ writing' \subseteq Bots /\ written' \subseteq bots'
         /\ ttl' \in [Bots -> 0..Ttl] /\ missed' \in [Bots -> 0..Ttl]
<1> USE PeriodAssumption, TtlAssumption
<1>1. writing' \subseteq Bots /\ written' \subseteq bots'
  BY DEF TypeOK, SnapshotWrite
<1>2. ttl' \in [Bots -> 0..Ttl] /\ missed' \in [Bots -> 0..Ttl]
  BY DEF TypeOK, SnapshotWrite
<1>3. ASSUME NEW d \in written'
      PROVE  \/ missed'[d] >= Ttl
             \/ ttl'[d] + Period * missed'[d] + Unrenewed(d)' >= Ttl
  <2>1. d \in Bots /\ snap' = "write" /\ snap = "write"
    BY <1>3, <1>1 DEF TypeOK, SnapshotWrite
  <2>2. CASE d # b
    <3>1. d \in written /\ ttl'[d] = ttl[d] /\ missed'[d] = missed[d]
      BY <1>3, <2>1, <2>2 DEF TypeOK, SnapshotWrite
    <3>2. Unrenewed(d)' = Unrenewed(d)
      BY <2>1, <2>2 DEF SnapshotWrite, Unrenewed
    <3> QED
      BY <2>1, <3>1, <3>2 DEF BudgetInv
  <2>3. CASE d = b /\ ttl' = [ttl EXCEPT ![b] = Ttl]
                   /\ missed' = [missed EXCEPT ![b] = 0]
    <3>1. ttl'[d] = Ttl /\ missed'[d] = 0
      BY <2>3 DEF TypeOK
    <3>2. Unrenewed(d)' = 0
      BY <2>1, <2>3 DEF SnapshotWrite, Unrenewed
    <3> QED
      BY <3>1, <3>2
  <2>4. CASE d = b /\ UNCHANGED <<ttl, written>>
                   /\ missed' = [missed EXCEPT ![b] =
                          IF b \in written /\ @ < Ttl THEN @ + 1 ELSE @]
    <3>1. d \in written /\ ttl'[d] = ttl[d] /\ missed[d] \in Nat /\ ttl[d] \in Nat
      BY <1>3, <2>1, <2>4 DEF TypeOK
    <3>2. missed[d] >= Ttl => missed'[d] >= Ttl
      BY <2>1, <2>4, <3>1 DEF TypeOK
    <3>3. missed[d] < Ttl => missed'[d] = missed[d] + 1
      BY <2>1, <2>4, <3>1 DEF TypeOK
    <3>4. Unrenewed(d)' = 0
      BY <2>1, <2>4 DEF SnapshotWrite, Unrenewed
    <3>5. Unrenewed(d) = Period
      BY <2>1, <2>4 DEF SnapshotWrite, Unrenewed
    <3>6. \/ missed[d] >= Ttl
          \/ ttl[d] + Period * missed[d] + Period >= Ttl
      BY <2>1, <3>1, <3>5 DEF BudgetInv
    <3>7. CASE missed[d] < Ttl
      <4>1. Period * missed'[d] = Period * missed[d] + Period
        BY <3>1, <3>3, <3>7, PeriodTimes
      <4>2. Period * missed[d] \in Nat
        BY <3>1, PeriodTimes
      <4> QED
        BY <3>1, <3>4, <3>6, <3>7, <4>1, <4>2
    <3> QED
      BY <3>1, <3>2, <3>7
  <2> QED
    BY <2>2, <2>3, <2>4 DEF SnapshotWrite
<1>4. BudgetInv'
  BY <1>3 DEF BudgetInv
<1> QED
  BY <1>1, <1>2, <1>4

LEMMA SnapshotLoopKeeps ==
  ASSUME StateInv, SnapshotLoop PROVE StateInv'
<1> USE PeriodAssumption, TtlAssumption
<1>1. UNCHANGED <<bots, tableVars, balanceVars, beat, stopped, engine>>
  BY DEF SnapshotLoop
<1>2. (CloseInv /\ NoAdapterLeaks)'
  BY <1>1 DEF StateInv, LoopInv, CloseInv, NoAdapterLeaks,
              balanceVars
<1>3. CASE SnapshotBegin
  <2>1. TypeOK' /\ EndInv'
    BY <1>1, <1>3 DEF StateInv, TypeOK, LoopInv, EndInv, SnapshotBegin, tableVars, balanceVars
  <2>2. BudgetInv'
    BY <1>1, <1>3 DEF StateInv, TypeOK, BudgetInv, Unrenewed, SnapshotBegin
  <2> QED
    BY <1>2, <2>1, <2>2 DEF StateInv, LoopInv
<1>4. CASE SnapshotEnd
  <2>1. TypeOK' /\ EndInv'
    BY <1>1, <1>4 DEF StateInv, TypeOK, LoopInv, EndInv, SnapshotEnd, tableVars, balanceVars
  <2>2. BudgetInv'
    BY <1>1, <1>4 DEF StateInv, TypeOK, BudgetInv, Unrenewed, SnapshotEnd
  <2> QED
    BY <1>2, <2>1, <2>2 DEF StateInv, LoopInv
<1>5. CASE SnapshotStops
  <2>1. TypeOK' /\ EndInv'
    BY <1>1, <1>5 DEF StateInv, TypeOK, LoopInv, EndInv, SnapshotStops, tableVars, balanceVars
  <2>2. BudgetInv'
    BY <1>5 DEF BudgetInv, SnapshotStops
  <2> QED
    BY <1>2, <2>1, <2>2 DEF StateInv, LoopInv
<1>6. ASSUME NEW b \in Bots, SnapshotWrite(b) PROVE StateInv'
  <2>1. /\ BudgetInv'
        /\ writing' \subseteq Bots /\ written' \subseteq bots'
        /\ ttl' \in [Bots -> 0..Ttl] /\ missed' \in [Bots -> 0..Ttl]
    BY <1>1, <1>6, WriteKeeps DEF StateInv
  <2>2. snap' = snap /\ timer' = timer
    BY <1>6 DEF SnapshotWrite
  <2>3. TypeOK' /\ EndInv'
    BY <1>1, <2>1, <2>2 DEF StateInv, TypeOK, LoopInv, EndInv, tableVars, balanceVars
  <2> QED
    BY <1>2, <2>1, <2>3 DEF StateInv, LoopInv
<1> QED
  BY <1>3, <1>4, <1>5, <1>6 DEF SnapshotLoop

LEMMA TickKeeps ==
  ASSUME StateInv, Tick PROVE StateInv'
<1> USE PeriodAssumption, TtlAssumption
<1>1. UNCHANGED <<bots, tableVars, balanceVars, beat, snap, writing, written,
                  missed, stopped, engine>>
  BY DEF Tick
<1>2. timer' \in 0..Period /\ ttl' \in [Bots -> 0..Ttl]
  BY DEF StateInv, TypeOK, Tick
<1>3. TypeOK'
  BY <1>1, <1>2 DEF StateInv, TypeOK, tableVars, balanceVars
<1>4. LoopInv'
  BY <1>1 DEF StateInv, LoopInv, CloseInv, NoAdapterLeaks, EndInv,
              balanceVars
<1>5. ASSUME snap' # "ended", NEW b \in written'
      PROVE  \/ missed'[b] >= Ttl
             \/ ttl'[b] + Period * missed'[b] + Unrenewed(b)' >= Ttl
  <2>1. /\ b \in Bots /\ b \in written /\ missed'[b] = missed[b]
        /\ missed[b] \in Nat /\ ttl[b] \in Nat
    BY <1>1, <1>5 DEF StateInv, TypeOK
  <2>2. snap = "sleep" /\ timer > 0
    BY <1>1, <1>5 DEF Tick
  <2>3. timer \in Nat /\ timer' = timer - 1
    BY <2>2 DEF Tick, StateInv, TypeOK
  <2>4. Unrenewed(b)' = Unrenewed(b) + 1 /\ Unrenewed(b) \in Int
    BY <1>1, <2>2, <2>3 DEF Unrenewed
  <2>5. ttl'[b] \in Nat /\ ttl'[b] >= ttl[b] - 1
    BY <2>1 DEF Tick
  <2>6. Period * missed[b] \in Nat
    BY <2>1, PeriodTimes
  <2>7. missed[b] >= Ttl \/ ttl[b] + Period * missed[b] + Unrenewed(b) >= Ttl
    BY <2>1, <2>2 DEF StateInv, BudgetInv
  <2> QED
    BY <2>1, <2>4, <2>5, <2>6, <2>7
<1>6. BudgetInv'
  BY <1>5 DEF BudgetInv
<1> QED
  BY <1>3, <1>4, <1>6 DEF StateInv

-----------------------------------------------------------------------------

LEMMA StateInvStep == StateInv /\ [Next]_vars => StateInv'
<1> SUFFICES ASSUME StateInv, [Next]_vars PROVE StateInv'
  OBVIOUS
<1> USE DEF StateInv, TypeOK, LoopInv, CloseInv, NoAdapterLeaks, EndInv,
            BudgetInv, Unrenewed, tableVars, balanceVars,
            snapshotVars
<1>1. ASSUME NEW b \in Bots, BotStarts(b) PROVE StateInv'
  BY <1>1 DEF BotStarts
<1>2. ASSUME NEW b \in Bots, BotStops(b) PROVE StateInv'
  BY <1>2 DEF BotStops
<1>3. ASSUME NEW c \in Creds, StoreCredential(c) PROVE StateInv'
  BY <1>3 DEF StoreCredential
<1>4. ASSUME NEW c \in Creds, DeleteCredential(c) PROVE StateInv'
  BY <1>4 DEF DeleteCredential
<1>5. CASE BalanceLoop
  BY <1>5, BalanceLoopKeeps
<1>6. CASE Heartbeat
  BY <1>6 DEF Heartbeat
<1>7. CASE SnapshotLoop
  BY <1>7, SnapshotLoopKeeps
<1>8. CASE Tick
  BY <1>8, TickKeeps
<1>9. CASE CancelSiblings
  BY <1>9 DEF CancelSiblings
<1>10. CASE Signal
  BY <1>10 DEF Signal
<1>11. CASE Shutdown
  BY <1>11 DEF Shutdown
<1>12. CASE UNCHANGED vars
  BY <1>12 DEF vars
<1> QED
  BY <1>1, <1>2, <1>3, <1>4, <1>5, <1>6, <1>7, <1>8, <1>9, <1>10, <1>11, <1>12
  DEF Next, Environment

\* The invariant of the three loops holds in every reachable state.
THEOREM StateInvariant == Spec => []StateInv
<1> QED
  BY StateInvInit, StateInvStep, PTL DEF Spec

\* Every state is of the types declared: no adapter is closed that was not
\* built, and no key outlives its time to live.
THEOREM TypeCorrect == Spec => []TypeOK
<1>1. StateInv => TypeOK
  BY DEF StateInv
<1> QED
  BY <1>1, StateInvariant, PTL

\* Whatever polls fail and credentials come and go, an adapter that is open is
\* the cached one of its credential, and none is open once the loop is over.
THEOREM AdaptersDoNotLeak == Spec => []NoAdapterLeaks
<1>1. StateInv => NoAdapterLeaks
  BY DEF StateInv, LoopInv
<1> QED
  BY <1>1, StateInvariant, PTL

\* Only a stop, or a report of a failure that cannot be published, ends a loop.
THEOREM OnlyReportsEndTheTask == Spec => []OnlyReportsKill
<1>1. StateInv => OnlyReportsKill
  BY DEF StateInv, LoopInv, EndInv, OnlyReportsKill, TaskOver
<1> QED
  BY <1>1, StateInvariant, PTL

\* For every period and time to live, the key of a running bot expires only
\* after so many failed SETs in a row that they fill the time to live.
THEOREM SnapshotsSurvive == Spec => []SnapshotSurvives
<1>1. ASSUME StateInv, NEW b \in written, snap # "ended", ttl[b] = 0
      PROVE  Period * (missed[b] + 1) >= Ttl
  <2>1. b \in Bots /\ missed[b] \in Nat /\ timer \in Nat
    BY <1>1 DEF StateInv, TypeOK
  <2>2. /\ Period * missed[b] \in Nat /\ Period * missed[b] >= missed[b]
        /\ Period * (missed[b] + 1) = Period * missed[b] + Period
    BY <2>1, PeriodTimes
  <2>3. Unrenewed(b) \in Int /\ Unrenewed(b) <= Period
    BY <2>1, PeriodAssumption DEF Unrenewed
  <2>4. missed[b] >= Ttl \/ ttl[b] + Period * missed[b] + Unrenewed(b) >= Ttl
    BY <1>1 DEF StateInv, BudgetInv
  <2> QED
    BY <1>1, <2>1, <2>2, <2>3, <2>4, PeriodAssumption, TtlAssumption
<1>2. StateInv => SnapshotSurvives
  BY <1>1 DEF SnapshotSurvives
<1> QED
  BY <1>2, StateInvariant, PTL
=============================================================================
