--------------------------- MODULE FpiSsm_proofs ---------------------------
(***************************************************************************)
(* Proofs about FpiSsm, for every set of machines, every number of states  *)
(* and every place where the cleanup states may start.                     *)
(***************************************************************************)
EXTENDS FpiSsm, TLAPS

Running(m) == phase[m] \in {"handler", "waits", "subsm"}

(* One handler or callback is the innermost one.                            *)
OneCall == \A m, n \in Machines : Innermost(m) /\ Innermost(n) => m = n

BlankAtFirst ==
  \A m \in Machines : phase[m] = "new" => parentsm[m] = None /\ error[m] = None

CompletedUnlessRunning == \A m \in Machines : completed[m] <=> ~Running(m)

InAState == \A m \in Machines : Running(m) => cur_state[m] < NrStates[m]

(* A timer that was set before the failure is gone.                         *)
TimersCleanUp ==
  \A m \in Machines :
    error[m] # None /\ timeout[m] >= 0 => timeout[m] >= StartCleanup[m]

(* What CleanupIsDone says, on the way there.                               *)
CleanupSoFar ==
  \A m \in Machines : Running(m) =>
    \A x \in CleanupStates(m) : x <= cur_state[m] => x \in entered[m] \cup bypassed[m]

FreedOnceEnded == \A m \in finishing : phase[m] \in {"callback", "ended"}

SsmInv ==
  /\ SsmTypeOK
  /\ OneCall
  /\ BlankAtFirst
  /\ CompletedUnlessRunning
  /\ InAState
  /\ TimersCleanUp
  /\ CleanupSoFar
  /\ FreedOnceEnded
  /\ ParentsWait
  /\ TimersAreAwaited
  /\ CleanupIsDone
  /\ FailedCleansUp

-----------------------------------------------------------------------------
(* The call is for this machine: its handler makes it, or the main loop, or *)
(* the callback of a machine that it has started.                           *)
MayGo(m) ==
  /\ Running(m)
  /\ \A o \in Machines : o # m /\ Innermost(o) => phase[o] = "callback" /\ parentsm[o] = m
  /\ phase[m] = "subsm" =>
       \E o \in Machines : o # m /\ phase[o] = "callback" /\ parentsm[o] = m

(* The machine of a driver's call, and the one whose timer went off, may go.*)
LEMMA ActingMayGo ==
  ASSUME SsmInv, NEW m \in Machines, Acts(m) PROVE MayGo(m)
BY DEF SsmInv, OneCall, Acts, MayGo, Running, MainLoop, Innermost

LEMMA TimedMayGo ==
  ASSUME SsmInv, NEW m \in Machines, MainLoop, timeout[m] # NoTimer PROVE MayGo(m)
BY DEF SsmInv, TimersAreAwaited, MayGo, Running, MainLoop, Innermost

LEMMA ParentMayGo ==
  ASSUME SsmInv, NEW c \in Machines, phase[c] = "callback", parentsm[c] # None
  PROVE  parentsm[c] \in Machines /\ MayGo(parentsm[c]) /\ c # parentsm[c]
<1>1. parentsm[c] \in Machines
  BY DEF SsmInv, SsmTypeOK
<1>2. c \in Children(parentsm[c])
  BY DEF Children, Alive
<1>3. phase[parentsm[c]] = "subsm"
  BY <1>1, <1>2 DEF SsmInv, ParentsWait
<1> QED
  BY <1>1, <1>3 DEF SsmInv, OneCall, MayGo, Running, Innermost

(* What an entered or finished machine leaves of the others' phases.        *)
LEMMA PhaseAfterGo ==
  ASSUME SsmInv, NEW m \in Machines, MayGo(m), NEW ph \in Phases,
         phase' = [Left EXCEPT ![m] = ph]
  PROVE  /\ phase' \in [Machines -> Phases]
         /\ phase'[m] = ph
         /\ \A o \in Machines \ {m} :
              /\ phase'[o] = IF phase[o] = "callback" THEN "ended" ELSE phase[o]
              /\ phase[o] = "callback" => parentsm[o] = m
              /\ phase'[o] \notin {"handler", "callback"}
<1>1. phase \in [Machines -> Phases]
  BY DEF SsmInv, SsmTypeOK
<1>2. Left \in [Machines -> Phases]
  BY <1>1 DEF Left, Phases
<1> QED
  BY <1>1, <1>2 DEF Left, MayGo, Innermost

(* The machine has no child any more; the children of others are the same.  *)
LEMMA ParentsWaitAfterGo ==
  ASSUME SsmInv, NEW m \in Machines, MayGo(m), NEW ph \in {"handler", "waits", "callback"},
         phase' = [Left EXCEPT ![m] = ph], UNCHANGED parentsm
  PROVE  ParentsWait'
<1> DEFINE After(o) == IF phase[o] = "callback" THEN "ended" ELSE phase[o]
<1> ph \in Phases
  BY DEF Phases
<1>1. /\ phase'[m] = ph
      /\ \A o \in Machines \ {m} : /\ phase'[o] = After(o)
                                   /\ phase[o] = "callback" => parentsm[o] = m
  BY PhaseAfterGo
<1>2. Children(m)' = {}
  <2> SUFFICES ASSUME NEW c \in Machines, parentsm[c] = m, Alive(c)' PROVE FALSE
    BY DEF Children
  <2>1. Alive(c)
    BY <1>1 DEF Alive, MayGo, Running
  <2>2. c \in Children(m)
    BY <2>1 DEF Children
  <2>3. phase[m] = "subsm"
    BY <2>2 DEF SsmInv, ParentsWait
  <2>4. PICK o \in Machines : o # m /\ phase[o] = "callback" /\ parentsm[o] = m
    BY <2>3 DEF MayGo
  <2>5. o \in Children(m)
    BY <2>4 DEF Children, Alive
  <2>6. c = o
    BY <2>2, <2>5 DEF SsmInv, ParentsWait
  <2> QED
    BY <1>1, <2>4, <2>6 DEF Alive
<1>3. \A p \in Machines \ {m} : Children(p)' = Children(p)
  BY <1>1 DEF Children, Alive, MayGo, Running
<1>4. \A p \in Machines \ {m} : phase'[p] = "subsm" <=> phase[p] = "subsm"
  BY <1>1
<1>5. phase'[m] # "subsm"
  BY <1>1
<1> QED
  BY <1>2, <1>3, <1>4, <1>5 DEF SsmInv, ParentsWait

-----------------------------------------------------------------------------
(* The error and the jumps of no other machine change.                      *)
Only(m) ==
  /\ error' \in [Machines -> Machines \cup {None}]
  /\ bypassed' \in [Machines -> SUBSET Nat]
  /\ \A o \in Machines \ {m} : error'[o] = error[o] /\ bypassed'[o] = bypassed[o]

(* The cleanup states below s are done.                                     *)
DoneBelow(m, s) ==
  \A x \in CleanupStates(m) : x < s => x \in entered[m] \cup bypassed'[m]

LEMMA StatesOf ==
  ASSUME NEW m \in Machines
  PROVE  /\ NrStates[m] \in Nat /\ StartCleanup[m] \in Nat
         /\ 1 <= StartCleanup[m] /\ StartCleanup[m] <= NrStates[m]
         /\ CleanupStates(m) \subseteq Nat
         /\ \A x \in CleanupStates(m) : StartCleanup[m] <= x /\ x < NrStates[m]
BY StatesAssumption DEF CleanupStates

(* A machine enters a state, and with an error a cleanup state.             *)
LEMMA EnterKeeps ==
  ASSUME SsmInv, NEW m \in Machines, MayGo(m), NEW s \in Nat, s < NrStates[m],
         Enter(m, s), UNCHANGED parentsm, Only(m),
         error'[m] # None => s >= StartCleanup[m], DoneBelow(m, s)
  PROVE  SsmInv'
<1> USE StatesOf
<1> DEFINE After(o) == IF phase[o] = "callback" THEN "ended" ELSE phase[o]
<1>1. /\ phase' \in [Machines -> Phases]
      /\ phase'[m] = "handler"
      /\ \A o \in Machines \ {m} : /\ phase'[o] = After(o)
                                   /\ phase'[o] \notin {"handler", "callback"}
  BY PhaseAfterGo DEF Enter, Phases
<1>2. ParentsWait'
  BY ParentsWaitAfterGo DEF Enter
<1>3. /\ cur_state \in [Machines -> Int] /\ timeout \in [Machines -> Int]
      /\ entered \in [Machines -> SUBSET Nat]
      /\ \A o \in Machines : cur_state[o] \in 0 .. NrStates[o] /\ timeout[o] \in Timers(o)
  BY DEF SsmInv, SsmTypeOK
<1>4. /\ cur_state'[m] = s /\ timeout'[m] = NoTimer
      /\ entered'[m] = entered[m] \cup ({s} \cap CleanupStates(m))
      /\ \A o \in Machines \ {m} : /\ cur_state'[o] = cur_state[o]
                                   /\ timeout'[o] = timeout[o]
                                   /\ entered'[o] = entered[o]
  BY <1>3 DEF Enter
<1>5. SsmTypeOK'
  <2>1. cur_state' \in [Machines -> Int] /\ timeout' \in [Machines -> Int]
    BY <1>3 DEF Enter, NoTimer
  <2>2. \A o \in Machines : cur_state'[o] \in 0 .. NrStates[o] /\ timeout'[o] \in Timers(o)
    BY <1>3, <1>4 DEF Timers
  <2>3. entered' \in [Machines -> SUBSET Nat]
    BY <1>3 DEF Enter
  <2> QED
    BY <1>1, <2>1, <2>2, <2>3 DEF SsmInv, SsmTypeOK, Enter, Only, Timers
<1>6. OneCall'
  BY <1>1 DEF OneCall, Innermost
<1>7. BlankAtFirst'
  BY <1>1 DEF SsmInv, BlankAtFirst, Only
<1>8. CompletedUnlessRunning'
  BY <1>1 DEF SsmInv, CompletedUnlessRunning, Running, MayGo, Enter
<1>9. InAState'
  BY <1>1, <1>4 DEF SsmInv, InAState, Running
<1>10. TimersCleanUp'
  BY <1>4 DEF SsmInv, TimersCleanUp, Only, NoTimer
<1>11. CleanupSoFar'
  <2>1. \A x \in CleanupStates(m) : x <= s => x \in entered'[m] \cup bypassed'[m]
    BY <1>4 DEF DoneBelow
  <2> QED
    BY <1>1, <1>4, <2>1 DEF SsmInv, CleanupSoFar, Running, Only, CleanupStates
<1>12. FreedOnceEnded'
  BY <1>1 DEF SsmInv, SsmTypeOK, FreedOnceEnded, Enter, MayGo, Running
<1>13. TimersAreAwaited'
  BY <1>1, <1>4 DEF SsmInv, TimersAreAwaited, Enter
<1>14. CleanupIsDone'
  BY <1>1, <1>4 DEF SsmInv, CleanupIsDone, Only, CleanupStates
<1>15. FailedCleansUp'
  BY <1>1, <1>4 DEF SsmInv, FailedCleansUp, Only
<1> QED
  BY <1>2, <1>5, <1>6, <1>7, <1>8, <1>9, <1>10, <1>11, <1>12, <1>13, <1>14, <1>15
     DEF SsmInv

(* A machine has come to its end.                                           *)
LEMMA FinishKeeps ==
  ASSUME SsmInv, NEW m \in Machines, MayGo(m), NEW s \in 0 .. NrStates[m],
         Finish(m, s), UNCHANGED parentsm, Only(m), DoneBelow(m, NrStates[m])
  PROVE  SsmInv'
<1> USE StatesOf
<1> DEFINE After(o) == IF phase[o] = "callback" THEN "ended" ELSE phase[o]
<1>1. /\ phase' \in [Machines -> Phases]
      /\ phase'[m] = "callback"
      /\ \A o \in Machines \ {m} : /\ phase'[o] = After(o)
                                   /\ phase'[o] \notin {"handler", "callback"}
  BY PhaseAfterGo DEF Finish, Phases
<1>2. ParentsWait'
  BY ParentsWaitAfterGo DEF Finish
<1>3. /\ cur_state \in [Machines -> Int] /\ timeout \in [Machines -> Int]
      /\ \A o \in Machines : cur_state[o] \in 0 .. NrStates[o] /\ timeout[o] \in Timers(o)
  BY DEF SsmInv, SsmTypeOK
<1>4. /\ cur_state'[m] = s /\ timeout'[m] = NoTimer
      /\ \A o \in Machines \ {m} : /\ cur_state'[o] = cur_state[o]
                                   /\ timeout'[o] = timeout[o]
  BY <1>3 DEF Finish
<1>5. SsmTypeOK'
  <2>1. cur_state' \in [Machines -> Int] /\ timeout' \in [Machines -> Int]
    BY <1>3 DEF Finish, NoTimer
  <2>2. \A o \in Machines : cur_state'[o] \in 0 .. NrStates[o] /\ timeout'[o] \in Timers(o)
    BY <1>3, <1>4 DEF Timers
  <2> QED
    BY <1>1, <2>1, <2>2 DEF SsmInv, SsmTypeOK, Finish, Only, Timers
<1>6. OneCall'
  BY <1>1 DEF OneCall, Innermost
<1>7. BlankAtFirst'
  BY <1>1 DEF SsmInv, BlankAtFirst, Only
<1>8. CompletedUnlessRunning'
  BY <1>1 DEF SsmInv, SsmTypeOK, CompletedUnlessRunning, Running, MayGo, Finish
<1>9. InAState'
  BY <1>1, <1>4 DEF SsmInv, InAState, Running
<1>10. TimersCleanUp'
  BY <1>4 DEF SsmInv, TimersCleanUp, Only, NoTimer
<1>11. CleanupSoFar'
  BY <1>1, <1>4 DEF SsmInv, CleanupSoFar, Running, Only, CleanupStates, Finish
<1>12. FreedOnceEnded'
  BY <1>1 DEF SsmInv, SsmTypeOK, FreedOnceEnded, Finish, MayGo, Running
<1>13. TimersAreAwaited'
  BY <1>1, <1>4 DEF SsmInv, SsmTypeOK, TimersAreAwaited, Finish
<1>14. CleanupIsDone'
  <2>1. CleanupStates(m) \subseteq entered'[m] \cup bypassed'[m]
    BY DEF DoneBelow, Finish
  <2> QED
    BY <1>1, <1>4, <2>1 DEF SsmInv, CleanupIsDone, Only, CleanupStates, Finish
<1>15. FailedCleansUp'
  BY <1>1, <1>4 DEF SsmInv, FailedCleansUp, Only
<1> QED
  BY <1>2, <1>5, <1>6, <1>7, <1>8, <1>9, <1>10, <1>11, <1>12, <1>13, <1>14, <1>15
     DEF SsmInv

(* Completions, transitions and failures, whoever calls for them.           *)
LEMMA CompleteKeeps ==
  ASSUME SsmInv, NEW m \in Machines, MayGo(m), NEW s \in 0 .. NrStates[m],
         Complete(m, s), UNCHANGED parentsm, Only(m), DoneBelow(m, s + 1)
  PROVE  SsmInv'
<1> USE StatesOf
<1> DEFINE next == IF s < StartCleanup[m] THEN StartCleanup[m] ELSE s + 1
<1>1. next \in Nat /\ next >= StartCleanup[m]
  OBVIOUS
<1>2. DoneBelow(m, next)
  BY DEF DoneBelow
<1>3. CASE next < NrStates[m]
  <2>1. Enter(m, next)
    BY <1>3 DEF Complete
  <2> HIDE DEF next
  <2> QED
    BY <1>1, <1>2, <1>3, <2>1, EnterKeeps
<1>4. CASE ~(next < NrStates[m])
  <2>1. Finish(m, s)
    BY <1>4 DEF Complete
  <2>2. DoneBelow(m, NrStates[m])
    BY <1>1, <1>2, <1>4 DEF DoneBelow
  <2> QED
    BY <2>1, <2>2, FinishKeeps
<1> QED
  BY <1>3, <1>4

LEMMA GoKeeps ==
  ASSUME SsmInv, NEW m \in Machines, MayGo(m), NEW s \in 0 .. NrStates[m],
         Go(m, s), UNCHANGED parentsm, Only(m), DoneBelow(m, s),
         error'[m] # None => s >= StartCleanup[m]
  PROVE  SsmInv'
<1> USE StatesOf
<1>1. CASE s = NrStates[m]
  <2>1. DoneBelow(m, s + 1)
    BY <1>1 DEF DoneBelow
  <2> QED
    BY <1>1, <2>1, CompleteKeeps DEF Go
<1>2. CASE s # NrStates[m]
  <2>1. s \in Nat /\ s < NrStates[m]
    BY <1>2
  <2> QED
    BY <1>2, <2>1, EnterKeeps DEF Go
<1> QED
  BY <1>1, <1>2

(* What a machine that may go has behind it.                                *)
LEMMA SoFar ==
  ASSUME SsmInv, NEW m \in Machines, MayGo(m)
  PROVE  /\ cur_state[m] \in 0 .. NrStates[m] - 1
         /\ error[m] # None => cur_state[m] >= StartCleanup[m]
         /\ bypassed' = bypassed => DoneBelow(m, cur_state[m] + 1)
<1> USE StatesOf
<1>1. cur_state[m] \in 0 .. NrStates[m] - 1
  BY DEF SsmInv, SsmTypeOK, InAState, MayGo
<1>2. error[m] # None => cur_state[m] >= StartCleanup[m]
  BY DEF SsmInv, FailedCleansUp, MayGo, Running
<1>3. bypassed' = bypassed => DoneBelow(m, cur_state[m] + 1)
  BY <1>1 DEF SsmInv, CleanupSoFar, MayGo, DoneBelow
<1> QED
  BY <1>1, <1>2, <1>3

LEMMA OnwardKeeps ==
  ASSUME SsmInv, NEW m \in Machines, MayGo(m), Go(m, cur_state[m] + 1),
         UNCHANGED <<error, parentsm, bypassed>>
  PROVE  SsmInv'
<1>1. Only(m)
  BY DEF Only, SsmInv, SsmTypeOK
<1>2. /\ cur_state[m] + 1 \in 0 .. NrStates[m]
      /\ error'[m] # None => cur_state[m] + 1 >= StartCleanup[m]
      /\ DoneBelow(m, cur_state[m] + 1)
  BY SoFar, StatesOf
<1> DEFINE s == cur_state[m] + 1
<1>3. /\ s \in 0 .. NrStates[m] /\ Go(m, s) /\ DoneBelow(m, s)
      /\ error'[m] # None => s >= StartCleanup[m]
  BY <1>2
<1> HIDE DEF s
<1> QED
  BY <1>1, <1>3, GoKeeps

LEMMA CompletionKeeps ==
  ASSUME SsmInv, NEW m \in Machines, MayGo(m), Complete(m, cur_state[m]),
         UNCHANGED <<parentsm, bypassed>>, Only(m)
  PROVE  SsmInv'
<1>1. cur_state[m] \in 0 .. NrStates[m] /\ DoneBelow(m, cur_state[m] + 1)
  BY SoFar, StatesOf
<1> QED
  BY <1>1, CompleteKeeps

LEMMA JumpKeeps ==
  ASSUME SsmInv, NEW m \in Machines, MayGo(m), NEW s \in 0 .. NrStates[m],
         Jump(m, s), UNCHANGED <<error, parentsm>>,
         error[m] # None => s >= StartCleanup[m]
  PROVE  SsmInv'
<1> USE StatesOf
<1>1. bypassed \in [Machines -> SUBSET Nat]
  BY DEF SsmInv, SsmTypeOK
<1>2. Over(m, s) \subseteq Nat
  BY DEF Over
<1>3. Only(m)
  BY <1>1, <1>2 DEF Only, SsmInv, SsmTypeOK, Jump
<1>4. bypassed'[m] = bypassed[m] \cup Over(m, s)
  BY <1>1 DEF Jump
<1>5. DoneBelow(m, s)
  <2>1. cur_state[m] \in Int
    BY SoFar
  <2>2. ASSUME NEW x \in CleanupStates(m), x < s PROVE x \in entered[m] \cup bypassed'[m]
    <3>1. CASE x <= cur_state[m]
      BY <1>4, <3>1 DEF SsmInv, CleanupSoFar, MayGo
    <3>2. CASE cur_state[m] < x
      BY <1>4, <2>2, <3>2 DEF Over
    <3> QED
      BY <2>1, <3>1, <3>2
  <2> QED
    BY <2>2 DEF DoneBelow
<1> QED
  BY <1>3, <1>5, GoKeeps DEF Jump

LEMMA FailKeeps ==
  ASSUME SsmInv, NEW m \in Machines, MayGo(m), NEW e \in Machines, Fail(m, e),
         UNCHANGED <<parentsm, bypassed>>
  PROVE  SsmInv'
<1>1. ~(error[m] # None /\ cur_state[m] < StartCleanup[m])
  BY SoFar, StatesOf
<1>2. error' = [error EXCEPT ![m] = IF @ = None THEN e ELSE @] /\ Complete(m, cur_state[m])
  BY <1>1 DEF Fail
<1>3. Only(m)
  BY <1>2 DEF Only, SsmInv, SsmTypeOK
<1> QED
  BY <1>2, <1>3, CompletionKeeps

-----------------------------------------------------------------------------
(* One lemma for each action that is more than one of these.                *)
LEMMA StartKeeps ==
  ASSUME SsmInv, NEW m \in Machines, Start(m) PROVE SsmInv'
<1> USE StatesOf
<1>1. /\ phase[m] = "new" /\ phase' = [Left EXCEPT ![m] = "handler"]
      /\ parentsm' = parentsm /\ timeout' = timeout
      /\ finishing' = finishing /\ bypassed' = bypassed
  BY DEF Start, Starting
<1>2. \A o \in Machines : Innermost(o) => phase[o] = "callback" /\ parentsm[o] = None
  BY DEF Start, MainLoop, Innermost, SsmInv, OneCall
<1>3. /\ phase' \in [Machines -> Phases]
      /\ phase'[m] = "handler"
      /\ \A o \in Machines \ {m} : phase'[o] = IF phase[o] = "callback" THEN "ended" ELSE phase[o]
  <2>1. phase \in [Machines -> Phases]
    BY DEF SsmInv, SsmTypeOK
  <2>2. Left \in [Machines -> Phases]
    BY <2>1 DEF Left, Phases
  <2> QED
    BY <1>1, <2>1, <2>2 DEF Left, Phases
<1>4. \A o \in Machines \ {m} : phase'[o] \notin {"handler", "callback"}
  BY <1>2, <1>3 DEF Innermost
<1>5. /\ cur_state'[m] = 0 /\ completed'[m] = FALSE /\ error'[m] = None
      /\ timeout'[m] = NoTimer /\ entered'[m] = {}
      /\ \A o \in Machines \ {m} :
           /\ cur_state'[o] = cur_state[o] /\ completed'[o] = completed[o]
           /\ error'[o] = error[o] /\ entered'[o] = entered[o]
  BY <1>1 DEF Start, Starting, SsmInv, SsmTypeOK, TimersAreAwaited
<1>6. SsmTypeOK'
  BY <1>1, <1>3, <1>5 DEF Start, Starting, SsmInv, SsmTypeOK, Timers
<1>7. OneCall'
  BY <1>3, <1>4 DEF OneCall, Innermost
<1>8. BlankAtFirst'
  BY <1>1, <1>3, <1>5 DEF SsmInv, BlankAtFirst
<1>9. CompletedUnlessRunning'
  BY <1>3, <1>5 DEF SsmInv, CompletedUnlessRunning, Running
<1>10. InAState'
  BY <1>3, <1>5 DEF SsmInv, InAState, Running
<1>11. TimersCleanUp'
  BY <1>1, <1>5 DEF SsmInv, TimersCleanUp
<1>12. CleanupSoFar'
  BY <1>1, <1>3, <1>5 DEF SsmInv, CleanupSoFar, Running, CleanupStates
<1>13. FreedOnceEnded'
  BY <1>1, <1>3 DEF SsmInv, SsmTypeOK, FreedOnceEnded
<1>14. ParentsWait'
  <2>1. parentsm[m] = None /\ None \notin Machines
    BY <1>1, NoneAssumption DEF SsmInv, BlankAtFirst
  <2>2. \A p \in Machines : Children(p)' = Children(p)
    BY <1>1, <1>2, <1>3, <2>1 DEF Children, Alive, Innermost
  <2>3. \A p \in Machines : phase'[p] = "subsm" <=> phase[p] = "subsm"
    BY <1>1, <1>3
  <2> QED
    BY <2>2, <2>3 DEF SsmInv, ParentsWait
<1>15. TimersAreAwaited'
  BY <1>1, <1>3, <1>5 DEF SsmInv, TimersAreAwaited
<1>16. CleanupIsDone'
  BY <1>1, <1>3, <1>5 DEF SsmInv, CleanupIsDone, CleanupStates
<1>17. FailedCleansUp'
  BY <1>3, <1>5 DEF SsmInv, FailedCleansUp
<1> QED
  BY <1>6, <1>7, <1>8, <1>9, <1>10, <1>11, <1>12, <1>13, <1>14, <1>15, <1>16, <1>17
     DEF SsmInv

LEMMA StartSubsmKeeps ==
  ASSUME SsmInv, NEW p \in Machines, NEW m \in Machines, StartSubsm(p, m) PROVE SsmInv'
<1> USE StatesOf
<1>1. /\ Acts(p) /\ phase[m] = "new" /\ p # m
      /\ phase' = [phase EXCEPT ![p] = "subsm", ![m] = "handler"]
      /\ parentsm' = [parentsm EXCEPT ![m] = p]
      /\ timeout' = [timeout EXCEPT ![p] = NoTimer, ![m] = NoTimer]
      /\ finishing' = finishing /\ bypassed' = bypassed
  BY DEF StartSubsm, Starting, Acts
<1>2. MayGo(p) /\ phase[p] \in {"handler", "waits"}
  BY <1>1, ActingMayGo DEF Acts
<1>3. \A o \in Machines \ {p} : phase[o] \notin {"handler", "callback"}
  BY <1>1 DEF SsmInv, OneCall, Acts, MainLoop, Innermost
<1>4. /\ phase' \in [Machines -> Phases] /\ phase'[p] = "subsm" /\ phase'[m] = "handler"
      /\ \A o \in Machines \ {p, m} : phase'[o] = phase[o]
  BY <1>1 DEF SsmInv, SsmTypeOK, Phases
<1>5. /\ cur_state'[m] = 0 /\ completed'[m] = FALSE /\ error'[m] = None
      /\ entered'[m] = {} /\ parentsm'[m] = p
      /\ \A o \in Machines \ {m} :
           /\ cur_state'[o] = cur_state[o] /\ completed'[o] = completed[o]
           /\ error'[o] = error[o] /\ entered'[o] = entered[o]
           /\ parentsm'[o] = parentsm[o]
      /\ timeout'[p] = NoTimer /\ timeout'[m] = NoTimer
      /\ \A o \in Machines \ {p, m} : timeout'[o] = timeout[o]
  BY <1>1 DEF StartSubsm, Starting, SsmInv, SsmTypeOK
<1>6. SsmTypeOK'
  <2>1. timeout' \in [Machines -> Int]
    BY <1>1 DEF SsmInv, SsmTypeOK, NoTimer
  <2>2. parentsm' \in [Machines -> Machines \cup {None}]
    BY <1>1 DEF SsmInv, SsmTypeOK
  <2> QED
    BY <1>1, <1>4, <1>5, <2>1, <2>2 DEF StartSubsm, Starting, SsmInv, SsmTypeOK, Timers
<1>7. OneCall'
  BY <1>3, <1>4 DEF OneCall, Innermost
<1>8. BlankAtFirst'
  BY <1>4, <1>5 DEF SsmInv, BlankAtFirst
<1>9. CompletedUnlessRunning'
  BY <1>2, <1>4, <1>5 DEF SsmInv, CompletedUnlessRunning, Running
<1>10. InAState'
  BY <1>2, <1>4, <1>5 DEF SsmInv, InAState, Running
<1>11. TimersCleanUp'
  BY <1>5 DEF SsmInv, TimersCleanUp, NoTimer
<1>12. CleanupSoFar'
  BY <1>1, <1>2, <1>4, <1>5 DEF SsmInv, CleanupSoFar, Running, CleanupStates
<1>13. FreedOnceEnded'
  BY <1>1, <1>2, <1>4 DEF SsmInv, SsmTypeOK, FreedOnceEnded
<1>14. ParentsWait'
  <2>1. Children(p)' = {m}
    <3>1. Children(p) = {}
      BY <1>2 DEF SsmInv, ParentsWait
    <3>2. \A c \in Machines : parentsm[c] = p => ~Alive(c)
      BY <3>1 DEF Children
    <3>3. \A c \in Machines \ {m} : parentsm'[c] = p => ~Alive(c)'
      BY <1>2, <1>4, <1>5, <3>2 DEF Alive
    <3>4. parentsm'[m] = p /\ Alive(m)'
      BY <1>4, <1>5 DEF Alive
    <3> QED
      BY <3>3, <3>4 DEF Children
  <2>2. \A q \in Machines \ {p} : Children(q)' = Children(q)
    <3>1. parentsm[m] = None /\ None \notin Machines
      BY <1>1, NoneAssumption DEF SsmInv, BlankAtFirst
    <3> QED
      BY <1>2, <1>4, <1>5, <3>1 DEF Children, Alive
  <2>3. \A q \in Machines \ {p} : phase'[q] = "subsm" <=> phase[q] = "subsm"
    BY <1>1, <1>4
  <2> QED
    BY <1>4, <2>1, <2>2, <2>3 DEF SsmInv, ParentsWait
<1>15. TimersAreAwaited'
  BY <1>4, <1>5 DEF SsmInv, TimersAreAwaited
<1>16. CleanupIsDone'
  BY <1>1, <1>4, <1>5 DEF SsmInv, CleanupIsDone, CleanupStates
<1>17. FailedCleansUp'
  BY <1>2, <1>4, <1>5 DEF SsmInv, FailedCleansUp
<1> QED
  BY <1>6, <1>7, <1>8, <1>9, <1>10, <1>11, <1>12, <1>13, <1>14, <1>15, <1>16, <1>17
     DEF SsmInv

LEMMA DelayKeeps ==
  ASSUME SsmInv, NEW m \in Machines, Delay(m) PROVE SsmInv'
<1> USE StatesOf
<1>1. PICK t \in {ToNext, ToCompletion} \cup Jumps(m) : timeout' = [timeout EXCEPT ![m] = t]
  BY DEF Delay
<1>2. /\ t \in Timers(m) /\ t \in Int
      /\ error[m] # None /\ t >= 0 => t >= StartCleanup[m]
  BY DEF Jumps, Timers, ToNext, ToCompletion
<1>3. MayGo(m) /\ phase[m] \in {"handler", "waits"} /\ phase' = [phase EXCEPT ![m] = "waits"]
  BY ActingMayGo DEF Delay, Acts
<1>4. /\ phase' \in [Machines -> Phases] /\ phase'[m] = "waits"
      /\ \A o \in Machines \ {m} : phase'[o] = phase[o]
  BY <1>3 DEF SsmInv, SsmTypeOK, Phases
<1>5. timeout'[m] = t /\ \A o \in Machines \ {m} : timeout'[o] = timeout[o]
  BY <1>1 DEF SsmInv, SsmTypeOK
<1>6. SsmTypeOK'
  BY <1>1, <1>2, <1>4, <1>5 DEF Delay, SsmInv, SsmTypeOK, Timers
<1>7. OneCall' /\ BlankAtFirst' /\ CompletedUnlessRunning' /\ InAState'
  BY <1>3, <1>4 DEF Delay, SsmInv, OneCall, BlankAtFirst, CompletedUnlessRunning, InAState,
     Innermost, Running
<1>8. TimersCleanUp'
  BY <1>2, <1>5 DEF Delay, SsmInv, TimersCleanUp
<1>9. CleanupSoFar' /\ FreedOnceEnded' /\ CleanupIsDone' /\ FailedCleansUp'
  BY <1>3, <1>4 DEF Delay, SsmInv, SsmTypeOK, CleanupSoFar, FreedOnceEnded, CleanupIsDone,
     FailedCleansUp, Running, CleanupStates
<1>10. ParentsWait'
  <2>1. \A p \in Machines : Children(p)' = Children(p)
    BY <1>3, <1>4 DEF Delay, Children, Alive
  <2> QED
    BY <1>3, <1>4, <2>1 DEF SsmInv, ParentsWait
<1>11. TimersAreAwaited'
  BY <1>3, <1>4, <1>5 DEF Delay, SsmInv, TimersAreAwaited, CompletedUnlessRunning, MayGo
<1> QED
  BY <1>6, <1>7, <1>8, <1>9, <1>10, <1>11 DEF SsmInv

LEMMA CancelDelayedKeeps ==
  ASSUME SsmInv, NEW m \in Machines, CancelDelayed(m) PROVE SsmInv'
<1> USE StatesOf
<1>1. /\ timeout' \in [Machines -> Int] /\ timeout'[m] = NoTimer
      /\ \A o \in Machines \ {m} : timeout'[o] = timeout[o]
  BY DEF CancelDelayed, SsmInv, SsmTypeOK, NoTimer
<1>2. SsmTypeOK'
  BY <1>1 DEF CancelDelayed, SsmInv, SsmTypeOK, Timers
<1>3. TimersCleanUp' /\ TimersAreAwaited'
  BY <1>1 DEF CancelDelayed, SsmInv, TimersCleanUp, TimersAreAwaited, NoTimer
<1>4. OneCall' /\ BlankAtFirst' /\ CompletedUnlessRunning' /\ InAState'
  BY DEF CancelDelayed, SsmInv, OneCall, BlankAtFirst, CompletedUnlessRunning, InAState,
     Innermost, Running
<1>5. CleanupSoFar' /\ FreedOnceEnded' /\ CleanupIsDone' /\ FailedCleansUp' /\ ParentsWait'
  BY DEF CancelDelayed, SsmInv, CleanupSoFar, FreedOnceEnded, CleanupIsDone,
     FailedCleansUp, ParentsWait, Children, Alive, Running, CleanupStates
<1> QED
  BY <1>2, <1>3, <1>4, <1>5 DEF SsmInv

LEMMA HandlerReturnsKeeps ==
  ASSUME SsmInv, NEW m \in Machines, HandlerReturns(m) PROVE SsmInv'
<1> USE StatesOf
<1>1. /\ phase[m] = "handler" /\ phase' \in [Machines -> Phases] /\ phase'[m] = "waits"
      /\ \A o \in Machines \ {m} : phase'[o] = phase[o]
  BY DEF HandlerReturns, SsmInv, SsmTypeOK, Phases
<1> USE DEF progress
<1>2. SsmTypeOK'
  BY <1>1 DEF HandlerReturns, SsmInv, SsmTypeOK, Timers
<1>3. OneCall' /\ BlankAtFirst' /\ CompletedUnlessRunning' /\ InAState'
  BY <1>1 DEF HandlerReturns, SsmInv, OneCall, BlankAtFirst, CompletedUnlessRunning, InAState,
     Innermost, Running
<1>4. TimersCleanUp' /\ TimersAreAwaited'
  BY <1>1 DEF HandlerReturns, SsmInv, TimersCleanUp, TimersAreAwaited
<1>5. CleanupSoFar' /\ FreedOnceEnded' /\ CleanupIsDone' /\ FailedCleansUp'
  BY <1>1 DEF HandlerReturns, SsmInv, SsmTypeOK, CleanupSoFar, FreedOnceEnded, CleanupIsDone,
     FailedCleansUp, Running, CleanupStates
<1>6. ParentsWait'
  <2>1. \A p \in Machines : Children(p)' = Children(p)
    BY <1>1 DEF HandlerReturns, Children, Alive
  <2> QED
    BY <1>1, <2>1 DEF SsmInv, ParentsWait
<1> QED
  BY <1>2, <1>3, <1>4, <1>5, <1>6 DEF SsmInv

LEMMA CallbackReturnsKeeps ==
  ASSUME SsmInv, NEW m \in Machines, CallbackReturns(m) PROVE SsmInv'
<1> USE StatesOf
<1>1. \A o \in Machines : Innermost(o) => o = m
  BY DEF CallbackReturns, SsmInv, OneCall, Innermost
<1>2. /\ phase[m] = "callback" /\ parentsm[m] = None
      /\ phase' \in [Machines -> Phases] /\ phase'[m] = "ended"
      /\ \A o \in Machines \ {m} : phase'[o] = phase[o] /\ ~Innermost(o)
  BY <1>1 DEF CallbackReturns, Left, SsmInv, SsmTypeOK, Phases, Innermost
<1> USE DEF progress
<1>3. SsmTypeOK'
  BY <1>2 DEF CallbackReturns, SsmInv, SsmTypeOK, Timers
<1>4. OneCall' /\ BlankAtFirst' /\ CompletedUnlessRunning' /\ InAState'
  BY <1>2 DEF CallbackReturns, SsmInv, OneCall, BlankAtFirst, CompletedUnlessRunning, InAState,
     Innermost, Running
<1>5. TimersCleanUp' /\ TimersAreAwaited'
  BY <1>2 DEF CallbackReturns, SsmInv, TimersCleanUp, TimersAreAwaited
<1>6. CleanupSoFar' /\ FreedOnceEnded' /\ CleanupIsDone' /\ FailedCleansUp'
  BY <1>2 DEF CallbackReturns, SsmInv, SsmTypeOK, CleanupSoFar, FreedOnceEnded, CleanupIsDone,
     FailedCleansUp, Running, CleanupStates
<1>7. ParentsWait'
  <2>1. \A p \in Machines : Children(p)' = Children(p)
    BY <1>2, NoneAssumption DEF CallbackReturns, Children, Alive
  <2> QED
    BY <1>2, <2>1 DEF SsmInv, ParentsWait
<1> QED
  BY <1>3, <1>4, <1>5, <1>6, <1>7 DEF SsmInv

LEMMA FreeKeeps ==
  ASSUME SsmInv, NEW m \in Machines, Free(m) PROVE SsmInv'
<1> USE StatesOf
<1>1. phase[m] \in {"new", "ended"}
  BY DEF Free, SsmInv, FreedOnceEnded, Innermost
<1>2. /\ phase' \in [Machines -> Phases] /\ phase'[m] = "freed"
      /\ \A o \in Machines \ {m} : phase'[o] = phase[o]
  BY DEF Free, SsmInv, SsmTypeOK, Phases
<1>3. /\ cur_state'[m] = 0 /\ parentsm'[m] = None /\ error'[m] = None /\ timeout'[m] = NoTimer
      /\ entered'[m] = {} /\ bypassed'[m] = {}
      /\ \A o \in Machines \ {m} :
           /\ cur_state'[o] = cur_state[o] /\ parentsm'[o] = parentsm[o]
           /\ error'[o] = error[o] /\ timeout'[o] = timeout[o]
           /\ entered'[o] = entered[o] /\ bypassed'[o] = bypassed[o]
  BY DEF Free, SsmInv, SsmTypeOK
<1>4. SsmTypeOK'
  <2>1. cur_state' \in [Machines -> Int] /\ timeout' \in [Machines -> Int]
    BY DEF Free, SsmInv, SsmTypeOK, NoTimer
  <2>2. /\ parentsm' \in [Machines -> Machines \cup {None}]
        /\ error' \in [Machines -> Machines \cup {None}]
    BY DEF Free, SsmInv, SsmTypeOK
  <2>3. entered' \in [Machines -> SUBSET Nat] /\ bypassed' \in [Machines -> SUBSET Nat]
    BY DEF Free, SsmInv, SsmTypeOK
  <2>4. \A o \in Machines : cur_state'[o] \in 0 .. NrStates[o] /\ timeout'[o] \in Timers(o)
    BY <1>3 DEF SsmInv, SsmTypeOK, Timers
  <2> QED
    BY <1>2, <2>1, <2>2, <2>3, <2>4 DEF Free, SsmInv, SsmTypeOK, Timers
<1>5. OneCall' /\ BlankAtFirst' /\ CompletedUnlessRunning' /\ InAState'
  BY <1>1, <1>2, <1>3 DEF Free, SsmInv, OneCall, BlankAtFirst, CompletedUnlessRunning, InAState,
     Innermost, Running
<1>6. TimersCleanUp' /\ TimersAreAwaited'
  BY <1>2, <1>3 DEF Free, SsmInv, TimersCleanUp, TimersAreAwaited, NoTimer
<1>7. CleanupSoFar' /\ CleanupIsDone' /\ FailedCleansUp'
  BY <1>2, <1>3 DEF SsmInv, CleanupSoFar, CleanupIsDone, FailedCleansUp, Running, CleanupStates
<1>8. FreedOnceEnded'
  BY <1>2 DEF Free, SsmInv, SsmTypeOK, FreedOnceEnded
<1>9. ParentsWait'
  <2>1. \A p \in Machines : Children(p)' = Children(p)
    BY <1>1, <1>2, <1>3, NoneAssumption DEF Children, Alive
  <2> QED
    BY <1>1, <1>2, <2>1 DEF SsmInv, ParentsWait
<1> QED
  BY <1>4, <1>5, <1>6, <1>7, <1>8, <1>9 DEF SsmInv

LEMMA TimeoutKeeps ==
  ASSUME SsmInv, NEW m \in Machines, Timeout(m) PROVE SsmInv'
<1> USE DEF TimeoutNextState, TimeoutComplete, TimeoutJumpToState
<1>1. MayGo(m)
  BY TimedMayGo DEF Timeout, NoTimer, ToNext, ToCompletion
<1>2. Only(m) \/ bypassed' # bypassed
  BY DEF Timeout, Only, SsmInv, SsmTypeOK
<1>3. CASE TimeoutNextState(m)
  BY <1>1, <1>3, OnwardKeeps DEF Timeout
<1>4. CASE TimeoutComplete(m)
  BY <1>1, <1>2, <1>4, CompletionKeeps DEF Timeout
<1>5. CASE TimeoutJumpToState(m)
  <2>1. timeout[m] \in 0 .. NrStates[m]
    BY <1>5, StatesOf DEF SsmInv, SsmTypeOK, Timers, NoTimer, ToNext, ToCompletion
  <2>2. error[m] # None => timeout[m] >= StartCleanup[m]
    BY <1>5 DEF SsmInv, TimersCleanUp
  <2> QED
    BY <1>1, <1>5, <2>1, <2>2, JumpKeeps DEF Timeout
<1> QED
  BY <1>3, <1>4, <1>5 DEF Timeout

LEMMA SubsmCompleteKeeps ==
  ASSUME SsmInv, NEW m \in Machines, SubsmComplete(m) PROVE SsmInv'
<1> DEFINE p == parentsm[m]
<1>1. p \in Machines /\ MayGo(p)
  BY ParentMayGo DEF SubsmComplete
<1>2. error[m] \in Machines \cup {None}
  BY DEF SsmInv, SsmTypeOK
<1> HIDE DEF p
<1>3. CASE error[m] # None
  BY <1>1, <1>2, <1>3, FailKeeps DEF SubsmComplete, p
<1>4. CASE error[m] = None
  BY <1>1, <1>4, OnwardKeeps DEF SubsmComplete, p
<1> QED
  BY <1>3, <1>4

LEMMA NextKeepsInv ==
  ASSUME SsmInv, SsmNext PROVE SsmInv'
<1> PICK m \in Machines : Driver(m) \/ Library(m)
  BY DEF SsmNext
<1>1. CASE Start(m)
  BY <1>1, StartKeeps
<1>2. CASE \E p \in Machines : StartSubsm(p, m)
  BY <1>2, StartSubsmKeeps
<1>3. CASE NextState(m)
  BY <1>3, ActingMayGo, OnwardKeeps DEF NextState
<1>4. CASE JumpToState(m)
  BY <1>4, ActingMayGo, JumpKeeps DEF JumpToState, Jumps
<1>5. CASE MarkCompleted(m)
  <2>1. Only(m)
    BY <1>5 DEF MarkCompleted, Only, SsmInv, SsmTypeOK
  <2> QED
    BY <1>5, <2>1, ActingMayGo, CompletionKeeps DEF MarkCompleted
<1>6. CASE MarkFailed(m)
  BY <1>6, ActingMayGo, FailKeeps DEF MarkFailed
<1>7. CASE Delay(m)
  BY <1>7, DelayKeeps
<1>8. CASE CancelDelayed(m)
  BY <1>8, CancelDelayedKeeps
<1>9. CASE HandlerReturns(m)
  BY <1>9, HandlerReturnsKeeps
<1>10. CASE CallbackReturns(m)
  BY <1>10, CallbackReturnsKeeps
<1>11. CASE Timeout(m)
  BY <1>11, TimeoutKeeps
<1>12. CASE SubsmComplete(m)
  BY <1>12, SubsmCompleteKeeps
<1>13. CASE Free(m)
  BY <1>13, FreeKeeps
<1> QED
  BY <1>1, <1>2, <1>3, <1>4, <1>5, <1>6, <1>7, <1>8, <1>9, <1>10, <1>11, <1>12, <1>13
     DEF Driver, Library

LEMMA StutterKeepsInv ==
  ASSUME SsmInv, UNCHANGED ssmVars PROVE SsmInv'
<1> USE DEF ssmVars, progress
<1>1. SsmTypeOK' /\ TimersCleanUp' /\ TimersAreAwaited' /\ CleanupIsDone' /\ FailedCleansUp'
  BY DEF SsmInv, SsmTypeOK, TimersCleanUp, TimersAreAwaited, CleanupIsDone, FailedCleansUp,
     Timers, CleanupStates
<1>2. OneCall' /\ BlankAtFirst' /\ CompletedUnlessRunning' /\ InAState' /\ CleanupSoFar'
  BY DEF SsmInv, OneCall, BlankAtFirst, CompletedUnlessRunning, InAState, CleanupSoFar,
     Innermost, Running, CleanupStates
<1>3. FreedOnceEnded' /\ ParentsWait'
  BY DEF SsmInv, FreedOnceEnded, ParentsWait, Children, Alive
<1> QED
  BY <1>1, <1>2, <1>3 DEF SsmInv

LEMMA InitKeepsInv == ASSUME SsmInit PROVE SsmInv
<1> USE DEF SsmInit
<1>1. SsmTypeOK
  BY StatesOf DEF SsmTypeOK, Timers, NoTimer, Phases
<1>2. /\ OneCall /\ BlankAtFirst /\ CompletedUnlessRunning /\ InAState /\ TimersCleanUp
      /\ CleanupSoFar /\ FreedOnceEnded
  BY DEF OneCall, BlankAtFirst, CompletedUnlessRunning, InAState, TimersCleanUp, CleanupSoFar,
     FreedOnceEnded, Innermost, Running, NoTimer
<1>3. TimersAreAwaited /\ CleanupIsDone /\ FailedCleansUp
  BY DEF TimersAreAwaited, CleanupIsDone, FailedCleansUp
<1>4. ParentsWait
  BY NoneAssumption DEF ParentsWait, Children, Alive
<1> QED
  BY <1>1, <1>2, <1>3, <1>4 DEF SsmInv

(* The inductive invariant.                                                 *)
LEMMA SsmInvariant == SsmSpec => []SsmInv
<1>1. SsmInit => SsmInv
  BY InitKeepsInv
<1>2. SsmInv /\ [SsmNext]_ssmVars => SsmInv'
  BY NextKeepsInv, StutterKeepsInv
<1> QED
  BY <1>1, <1>2, PTL DEF SsmSpec

-----------------------------------------------------------------------------
(* The variables of a machine keep their types and ranges: no machine is in *)
(* a state that it does not have, also after jumps and delays.              *)
THEOREM SsmTypeCorrect == SsmSpec => []SsmTypeOK
<1>1. SsmInv => SsmTypeOK
  BY DEF SsmInv
<1> QED
  BY <1>1, SsmInvariant, PTL

(* Whatever state machines a driver nests, the parent that a child calls    *)
(* back is there, waits in its place, and waits for this child only.        *)
THEOREM NestingIsSafe == SsmSpec => []ParentsWait
<1>1. SsmInv => ParentsWait
  BY DEF SsmInv
<1> QED
  BY <1>1, SsmInvariant, PTL

(* No timer goes off for a machine that went on, completed or was freed.    *)
THEOREM NoStaleTimer == SsmSpec => []TimersAreAwaited
<1>1. SsmInv => TimersAreAwaited
  BY DEF SsmInv
<1> QED
  BY <1>1, SsmInvariant, PTL

(* The cleanup states of every machine are done when it completes.          *)
THEOREM CleanupNeverSkipped == SsmSpec => []CleanupIsDone
<1>1. SsmInv => CleanupIsDone
  BY DEF SsmInv
<1> QED
  BY <1>1, SsmInvariant, PTL

(* A machine with an error is in its cleanup states.                        *)
THEOREM FailureLeadsToCleanup == SsmSpec => []FailedCleansUp
<1>1. SsmInv => FailedCleansUp
  BY DEF SsmInv
<1> QED
  BY <1>1, SsmInvariant, PTL

(* What FirstErrorIsKept says of a step.                                    *)
KeepsErrors ==
  \A m \in Machines : error[m] # None /\ phase'[m] # "freed" => error'[m] = error[m]

PassesErrorOn ==
  \A m \in Machines :
    phase[m] = "callback" /\ phase'[m] = "ended" /\ parentsm[m] # None =>
      error'[parentsm[m]] =
        IF error[parentsm[m]] = None THEN error[m] ELSE error[parentsm[m]]

LEMMA NoCallback ==
  ASSUME SsmInv, NEW m \in Machines, Acts(m) \/ MainLoop
  PROVE  \A o \in Machines : phase[o] # "callback"
BY DEF SsmInv, OneCall, Acts, MainLoop, Innermost

LEMMA FailErrors ==
  ASSUME SsmInv, NEW m \in Machines, NEW e \in Machines, Fail(m, e)
  PROVE  \A o \in Machines : error'[o] = IF o = m /\ error[m] = None THEN e ELSE error[o]
BY DEF SsmInv, SsmTypeOK, Fail, progress

LEMMA StepKeepsErrors ==
  ASSUME SsmInv, SsmNext PROVE KeepsErrors /\ PassesErrorOn
<1> PICK m \in Machines : Driver(m) \/ Library(m)
  BY DEF SsmNext
<1>1. CASE Start(m)
  <2>1. \A o \in Machines : phase[o] = "callback" => parentsm[o] = None
    BY <1>1 DEF Start, MainLoop, Innermost, SsmInv, OneCall
  <2>2. error[m] = None /\ error' = [error EXCEPT ![m] = None]
    BY <1>1 DEF Start, Starting, SsmInv, BlankAtFirst
  <2> QED
    BY <2>1, <2>2 DEF KeepsErrors, PassesErrorOn, SsmInv, SsmTypeOK
<1>2. CASE \E p \in Machines : StartSubsm(p, m)
  <2>1. \A o \in Machines : phase[o] # "callback"
    BY <1>2, NoCallback DEF StartSubsm
  <2>2. error[m] = None /\ error' = [error EXCEPT ![m] = None]
    BY <1>2 DEF StartSubsm, Starting, SsmInv, BlankAtFirst
  <2> QED
    BY <2>1, <2>2 DEF KeepsErrors, PassesErrorOn, SsmInv, SsmTypeOK
<1>3. CASE NextState(m) \/ JumpToState(m) \/ MarkCompleted(m) \/ Delay(m)
  <2>1. \A o \in Machines : phase[o] # "callback"
    BY <1>3, NoCallback DEF NextState, JumpToState, MarkCompleted, Delay
  <2>2. error' = error
    BY <1>3 DEF NextState, JumpToState, MarkCompleted, Delay
  <2> QED
    BY <2>1, <2>2 DEF KeepsErrors, PassesErrorOn
<1>4. CASE MarkFailed(m)
  <2>1. \A o \in Machines : phase[o] # "callback"
    BY <1>4, NoCallback DEF MarkFailed
  <2>2. \A o \in Machines : error[o] # None => error'[o] = error[o]
    BY <1>4, FailErrors DEF MarkFailed
  <2> QED
    BY <2>1, <2>2 DEF KeepsErrors, PassesErrorOn
<1>5. CASE CancelDelayed(m) \/ Timeout(m)
  <2>1. \A o \in Machines : phase[o] # "callback"
    BY <1>5, NoCallback DEF CancelDelayed, Timeout
  <2>2. error' = error
    BY <1>5 DEF CancelDelayed, Timeout
  <2> QED
    BY <2>1, <2>2 DEF KeepsErrors, PassesErrorOn
<1>6. CASE HandlerReturns(m)
  BY <1>6 DEF HandlerReturns, progress, KeepsErrors, PassesErrorOn, SsmInv, SsmTypeOK
<1>7. CASE CallbackReturns(m)
  BY <1>7 DEF CallbackReturns, progress, KeepsErrors, PassesErrorOn, SsmInv, OneCall, Innermost
<1>8. CASE SubsmComplete(m)
  <2>1. parentsm[m] \in Machines /\ error[m] \in Machines \cup {None}
    BY <1>8 DEF SubsmComplete, SsmInv, SsmTypeOK
  <2>2. \A o \in Machines : phase[o] = "callback" => o = m
    BY <1>8 DEF SubsmComplete, SsmInv, OneCall, Innermost
  <2>3. CASE error[m] = None
    BY <1>8, <2>2, <2>3 DEF SubsmComplete, KeepsErrors, PassesErrorOn
  <2>4. CASE error[m] # None
    <3>1. \A o \in Machines :
            error'[o] = IF o = parentsm[m] /\ error[o] = None THEN error[m] ELSE error[o]
      BY <1>8, <2>1, <2>4, FailErrors DEF SubsmComplete
    <3> QED
      BY <2>1, <2>2, <3>1 DEF KeepsErrors, PassesErrorOn
  <2> QED
    BY <2>3, <2>4
<1>9. CASE Free(m)
  <2>1. /\ phase'[m] = "freed"
        /\ \A o \in Machines \ {m} : error'[o] = error[o] /\ phase'[o] = phase[o]
    BY <1>9 DEF Free, SsmInv, SsmTypeOK
  <2> QED
    BY <2>1 DEF KeepsErrors, PassesErrorOn
<1> QED
  BY <1>1, <1>2, <1>3, <1>4, <1>5, <1>6, <1>7, <1>8, <1>9 DEF Driver, Library

(* A machine keeps the first error it got until it is freed, and the error  *)
(* of a child becomes its parent's unless that has one.                     *)
THEOREM FirstErrorWins == SsmSpec => FirstErrorIsKept
<1>1. SsmInv /\ [SsmNext]_ssmVars => [KeepsErrors /\ PassesErrorOn]_ssmVars
  BY StepKeepsErrors
<1>2. KeepsErrors /\ PassesErrorOn <=>
        \A m \in Machines :
          /\ error[m] # None /\ phase'[m] # "freed" => error'[m] = error[m]
          /\ phase[m] = "callback" /\ phase'[m] = "ended" /\ parentsm[m] # None =>
               error'[parentsm[m]] =
                 IF error[parentsm[m]] = None THEN error[m] ELSE error[parentsm[m]]
  BY Zenon DEF KeepsErrors, PassesErrorOn
<1> QED
  BY <1>1, <1>2, SsmInvariant, PTL DEF SsmSpec, FirstErrorIsKept
=============================================================================
