-------------------------- MODULE InboxBindProofs --------------------------
(***************************************************************************)
(* Proofs about InboxBind, for any number of calls: what holds however     *)
(* Listen and Close overlap, then what holds as long as they do not.       *)
(***************************************************************************)
EXTENDS InboxBind, TLAPS

\* The steps between umaskMu.Lock and umaskMu.Unlock, and those of them taken
\* with the umask tightened.
Locked == {"tighten", "bind", "listen", "restore", "unlock"}
Tightened == {"bind", "listen", "restore"}

\* withTightUmask excludes itself and brackets the change of the umask.
UmaskOK ==
  /\ \A c \in Calls : pc[c] \in Locked <=> mu = c
  /\ \A c \in Calls : pc[c] \in Tightened => umask = "tight" /\ saved[c] = "user"
  /\ umask = "tight" => \E c \in Calls : pc[c] \in Tightened

\* Who may still own a listening socket, and who the file on the path.
OwnerOK ==
  /\ \A c \in lsn : \/ pc[c] \in {"restore", "unlock"} /\ ok[c]
                    \/ pc[c] \in {"chmod", "open", "abortUnlink", "abortClose", "unlink", "fdclose"}
  /\ \A c \in Calls : file = c =>
       \/ pc[c] \in {"restore", "unlock"} /\ ok[c]
       \/ pc[c] \in {"listen", "chmod", "open", "abortUnlink", "unlink", "dead"}

IInv == TypeOK /\ UmaskOK /\ NeverLoose /\ OwnerOK

\* The invariant holds when the process starts.
LEMMA InitIInv == Init => IInv
BY InboxBindAssumption DEF Init, IInv, TypeOK, Returned, UmaskOK, Locked, Tightened,
   NeverLoose, OwnerOK

\* No step of any call, and no crash, breaks the invariant.
LEMMA StepIInv == IInv /\ [Next]_vars => IInv'
<1> SUFFICES ASSUME IInv, [Next]_vars PROVE IInv'
  OBVIOUS
<1> USE InboxBindAssumption DEF IInv, TypeOK, Returned, Goto, UmaskOK, Locked, Tightened,
    NeverLoose, OwnerOK
<1>1. ASSUME NEW c \in Calls, Listen(c) \/ ProbePath(c) \/ Close(c) PROVE IInv'
  <2>1. overlapped' \in BOOLEAN /\ misled' \in BOOLEAN
    BY <1>1, Zenon DEF Listen, ProbePath, Close, Begins, Live
  <2> QED BY <1>1, <2>1 DEF Listen, ProbePath, Close
<1>2. ASSUME NEW c \in Calls, RemoveStale(c) PROVE IInv'
  BY <1>2 DEF RemoveStale, history
<1>3. ASSUME NEW c \in Calls, LockUmask(c) PROVE IInv'
  BY <1>3 DEF LockUmask, history
<1>4. ASSUME NEW c \in Calls, Tighten(c) PROVE IInv'
  BY <1>4 DEF Tighten, history
<1>5. ASSUME NEW c \in Calls, Bind(c) PROVE IInv'
  BY <1>5 DEF Bind, history
<1>6. ASSUME NEW c \in Calls, StartListening(c) PROVE IInv'
  BY <1>6 DEF StartListening, history
<1>7. ASSUME NEW c \in Calls, Restore(c) PROVE IInv'
  BY <1>7 DEF Restore, history
<1>8. ASSUME NEW c \in Calls, Unlock(c) PROVE IInv'
  BY <1>8 DEF Unlock, history
<1>9. ASSUME NEW c \in Calls, Chmod(c) PROVE IInv'
  BY <1>9 DEF Chmod, history
<1>10. ASSUME NEW c \in Calls, Unlink(c) PROVE IInv'
  BY <1>10 DEF Unlink, history
<1>11. ASSUME NEW c \in Calls, CloseListener(c) PROVE IInv'
  BY <1>11 DEF CloseListener, history
<1>12. ASSUME NEW c \in Calls, Sweep(c) PROVE IInv'
  BY <1>12 DEF Sweep, history
<1>13. CASE Crash
  BY <1>13 DEF Crash
<1>14. CASE UNCHANGED vars
  BY <1>14 DEF vars, history
<1> QED
  BY <1>1, <1>2, <1>3, <1>4, <1>5, <1>6, <1>7, <1>8, <1>9, <1>10, <1>11, <1>12, <1>13, <1>14
  DEF Next, Step, Umasked

\* In every state: what the invariant says.
THEOREM Invariance == Spec => []IInv
BY InitIInv, StepIInv, PTL DEF Spec

\* Every variable keeps its type: whatever fails, a call of Listen or Close is at
\* one of its steps, and the umask is the one from outside or the tight one.
THEOREM TypeCorrect == Spec => []TypeOK
<1>1. IInv => TypeOK
  BY DEF IInv
<1> QED BY <1>1, Invariance, PTL

\* However many binds overlap, fail or die, the umask ends as it began.
THEOREM UmaskAlwaysRestored == Spec => []UmaskRestored
<1>1. IInv => UmaskRestored
  BY InboxBindAssumption DEF IInv, TypeOK, UmaskOK, Locked, Tightened, UmaskRestored
<1> QED BY <1>1, Invariance, PTL

\* The socket file is never open to other users.
THEOREM SocketNeverLoose == Spec => []NeverLoose
<1>1. IInv => NeverLoose
  BY DEF IInv
<1> QED BY <1>1, Invariance, PTL

\* A failed Listen and a closed Inbox leave nothing behind.
THEOREM NothingIsLeft == Spec => []NothingLeft
<1>1. IInv => NothingLeft
  BY DEF IInv, OwnerOK, NothingLeft
<1> QED BY <1>1, Invariance, PTL

-----------------------------------------------------------------------------
(* A process in which no Listen or Close has begun during another.         *)

\* Call c is in progress.
Busy(c) == pc[c] \notin Returned

\* While no two have overlapped, the one call in progress has the path to itself:
\* from its Remove on it is free or its own.  Unless a probe has misled it, an Inbox
\* is open only while it probes.
SerialOK ==
  /\ \A c \in Calls :
       pc[c] \in {"idle", "probe", "remove", "lock", "tighten", "bind", "listen"} => ~ok[c]
  /\ \A c \in Calls : pc[c] = "chmod" => ok[c]
  /\ ~overlapped =>
       /\ \A c, d \in Calls : Busy(c) /\ Busy(d) => c = d
       /\ \A c \in Calls : pc[c] \in {"lock", "tighten", "bind"} => file = NoCall
       /\ \A c \in Calls : pc[c] = "listen" => file = c
       /\ \A c \in Calls : pc[c] \in {"restore", "unlock", "chmod"} =>
             ~ok[c] \/ (file = c /\ c \in lsn)
  /\ ~overlapped /\ ~misled =>
       /\ \A c, d \in Calls : Busy(c) /\ pc[d] = "open" => pc[c] = "probe"
       /\ \A c \in Calls : pc[c] = "open" => c \in lsn /\ file = c

\* No step breaks it: one that overlaps ends the premise, a crash restores it.
LEMMA StepSerial ==
  ASSUME IInv, SerialOK, [Next]_vars
  PROVE  SerialOK'
<1> USE InboxBindAssumption DEF SerialOK, Busy, TypeOK, Returned, Goto
<1> TypeOK
  BY DEF IInv
<1>1. ASSUME NEW c \in Calls, Listen(c) PROVE SerialOK'
  <2>1. ~overlapped' => ~overlapped /\ \A d \in Calls : pc[d] \in Returned
    BY <1>1, Zenon DEF Listen, Begins
  <2> QED BY <1>1, <2>1 DEF Listen
<1>2. ASSUME NEW c \in Calls, Close(c) PROVE SerialOK'
  <2>1. ~overlapped' => ~overlapped /\ \A d \in Calls : pc[d] \in Returned
    BY <1>2, Zenon DEF Close, Begins
  <2> QED BY <1>2, <2>1 DEF Close
<1>3. ASSUME NEW c \in Calls, ProbePath(c) PROVE SerialOK'
  <2>1. CASE Goto(c, "probe", "failed") /\ UNCHANGED misled
    BY <1>3, <2>1 DEF ProbePath
  <2>2. CASE Goto(c, "probe", "remove") /\ misled' = (misled \/ Live)
    <3>1. ~misled' => ~misled /\ file \notin lsn
      BY <2>2, Zenon DEF Live
    <3> QED BY <1>3, <2>2, <3>1 DEF ProbePath
  <2> QED BY <1>3, <2>1, <2>2 DEF ProbePath
<1>4. ASSUME NEW c \in Calls, RemoveStale(c) PROVE SerialOK'
  BY <1>4 DEF RemoveStale, history
<1>5. ASSUME NEW c \in Calls, LockUmask(c) PROVE SerialOK'
  BY <1>5 DEF LockUmask, history
<1>6. ASSUME NEW c \in Calls, Tighten(c) PROVE SerialOK'
  BY <1>6 DEF Tighten, history
<1>7. ASSUME NEW c \in Calls, Bind(c) PROVE SerialOK'
  BY <1>7 DEF Bind, history
<1>8. ASSUME NEW c \in Calls, StartListening(c) PROVE SerialOK'
  BY <1>8 DEF StartListening, history
<1>9. ASSUME NEW c \in Calls, Restore(c) \/ Unlock(c) PROVE SerialOK'
  BY <1>9 DEF Restore, Unlock, history
<1>10. ASSUME NEW c \in Calls, Chmod(c) PROVE SerialOK'
  BY <1>10 DEF Chmod, history
<1>11. ASSUME NEW c \in Calls, Unlink(c) PROVE SerialOK'
  BY <1>11 DEF Unlink, history
<1>12. ASSUME NEW c \in Calls, CloseListener(c) PROVE SerialOK'
  BY <1>12 DEF CloseListener, history
<1>13. ASSUME NEW c \in Calls, Sweep(c) PROVE SerialOK'
  BY <1>13 DEF Sweep, history
<1>14. CASE Crash
  BY <1>14 DEF Crash
<1>15. CASE UNCHANGED vars
  BY <1>15 DEF vars, history
<1> QED
  BY <1>1, <1>2, <1>3, <1>4, <1>5, <1>6, <1>7, <1>8, <1>9, <1>10, <1>11, <1>12, <1>13,
     <1>14, <1>15
  DEF Next, Step, Umasked

\* In every state: what the serial invariant says.
LEMMA SerialInvariance == Spec => []SerialOK
<1>1. Init => SerialOK
  BY InboxBindAssumption DEF Init, SerialOK, Busy, Returned
<1>2. IInv /\ SerialOK /\ [Next]_vars => SerialOK'
  BY StepSerial
<1> QED BY <1>1, <1>2, Invariance, PTL DEF Spec

\* Without overlap, and where a listener answers every probe of its path, an open
\* Inbox can be reached.
THEOREM OpenIsReachable == Spec => []ReachableWhenOpen
<1>1. SerialOK => ReachableWhenOpen
  BY DEF SerialOK, ReachableWhenOpen
<1> QED BY <1>1, SerialInvariance, PTL

\* Without overlap nothing is in the way of net.Listen, whatever the probes say.
THEOREM PathAlwaysFreeAtBind == Spec => []PathFreeAtBind
<1>1. SerialOK => PathFreeAtBind
  BY DEF SerialOK, PathFreeAtBind
<1> QED BY <1>1, SerialInvariance, PTL
=============================================================================
