-------------------------- MODULE KeyLookupProofs --------------------------
(***************************************************************************)
(* Proofs about KeyLookup: for any number of PIDs and key files, the token *)
(* of a session that keeps the path is the one sent to it.                 *)
(***************************************************************************)
EXTENDS KeyLookup, TLAPS

\* A key whose publisher still runs is the listener's.
KeysOK ==
  /\ listener # NoKey =>
       listener \in alive /\ key[listener] # NoKey /\ key[listener].by = start[listener]
  /\ \A p \in Pids : key[p] # NoKey =>
       /\ key[p].pid = p /\ key[p].by <= start[p]
       /\ p \in alive /\ key[p].by = start[p] => p = listener
  /\ cur # NoKey =>
       /\ cur.by <= start[cur.pid]
       /\ cur.pid \in alive /\ cur.by = start[cur.pid] =>
            cur.pid = listener /\ cur = key[listener]

\* Until a steady listener's key has been ranked, it is still to be read or is
\* the one being ranked; once it has, the best rank is no lower.  Only a key of
\* the listener ranks 2, only one of a PID in use ranks 1.
LookupOK ==
  /\ \A p \in steady : p = listener /\ listener # NoKey
  /\ pc = "sent" => unread = {}
  /\ pc = "idle" => bestRank = -1 /\ steady = {}
  /\ pc \notin {"idle", "done"} => alive \subseteq used
  /\ pc = "token" => cur.stamped /\ cur.pid \in used
  /\ bestRank >= 1 => best # NoKey /\ best.pid \in used
  /\ pc \notin {"idle", "done"} => \A p \in steady :
       /\ bestRank = 2 => best = key[p]
       /\ \/ p \in unread
          \/ pc \in {"alive", "token"} /\ cur = key[p]
          \/ bestRank >= IF key[p].stamped /\ p \notin unsure THEN 2 ELSE 1

IInv == TypeOK /\ KeysOK /\ LookupOK

\* Nothing has been published and nothing looked up.
LEMMA InitIInv == Init => IInv
<1> SUFFICES ASSUME Init PROVE IInv
  OBVIOUS
<1>1. TypeOK
  BY KeyLookupAssumption DEF Init, TypeOK
<1>2. KeysOK
  BY DEF Init, KeysOK
<1>3. LookupOK
  BY DEF Init, LookupOK
<1> QED BY <1>1, <1>2, <1>3 DEF IInv

\* One step per action, one under it per part of the invariant.
LEMMA StepIInv == IInv /\ [Next]_vars => IInv'
<1> SUFFICES ASSUME IInv, [Next]_vars PROVE IInv'
  OBVIOUS
<1> USE KeyLookupAssumption DEF IInv, world, lookup, past
<1>1. ASSUME NEW p \in Pids, NEW session \in BOOLEAN, StartProcess(p, session) PROVE IInv'
  <2>1. CASE session
    <3>1. PICK k \in Keys :
            /\ k.pid = p /\ k.by = start[p] + 1
            /\ key' = [key EXCEPT ![p] = k]
      BY <1>1, <2>1 DEF StartProcess, TypeOK, Keys
    <3>2. /\ p \notin alive /\ listener = NoKey /\ listener' = p
          /\ start' = [start EXCEPT ![p] = @ + 1] /\ start[p] < MaxStart
          /\ alive' = alive \cup {p} /\ used' = used \cup {p}
          /\ UNCHANGED <<lookup, steady, unsure>>
      BY <1>1, <2>1 DEF StartProcess
    <3>3. TypeOK'
      BY <3>1, <3>2 DEF TypeOK
    <3>4. KeysOK'
      BY <3>1, <3>2 DEF TypeOK, KeysOK, Keys
    <3>5. LookupOK'
      BY <3>1, <3>2 DEF TypeOK, KeysOK, LookupOK
    <3> QED BY <3>3, <3>4, <3>5
  <2>2. CASE ~session
    <3>1. /\ p \notin alive /\ UNCHANGED <<listener, key, lookup, steady, unsure>>
          /\ start' = [start EXCEPT ![p] = @ + 1] /\ start[p] < MaxStart
          /\ alive' = alive \cup {p} /\ used' = used \cup {p}
      BY <1>1, <2>2 DEF StartProcess
    <3>2. TypeOK'
      BY <3>1 DEF TypeOK
    <3>3. KeysOK'
      BY <3>1 DEF TypeOK, KeysOK, Keys
    <3>4. LookupOK'
      BY <3>1 DEF TypeOK, KeysOK, LookupOK
    <3> QED BY <3>2, <3>3, <3>4
  <2> QED BY <2>1, <2>2
<1>2. ASSUME NEW p \in Pids, Die(p) PROVE IInv'
  <2>1. TypeOK'
    BY <1>2 DEF Die, TypeOK
  <2>2. KeysOK'
    BY <1>2 DEF Die, TypeOK, KeysOK, Keys
  <2>3. LookupOK'
    BY <1>2 DEF Die, TypeOK, LookupOK
  <2> QED BY <2>1, <2>2, <2>3
<1>3. CASE Resolve
  <2>1. TypeOK'
    BY <1>3 DEF Resolve, TypeOK
  <2>2. KeysOK'
    BY <1>3 DEF Resolve, KeysOK
  <2>3. LookupOK'
    BY <1>3 DEF Resolve, TypeOK, KeysOK, LookupOK
  <2> QED BY <2>1, <2>2, <2>3
<1>4. ASSUME NEW p \in Pids, ReadKey(p) PROVE IInv'
  <2>1. TypeOK'
    BY <1>4 DEF ReadKey, TypeOK, Keys
  <2>2. KeysOK'
    BY <1>4 DEF ReadKey, TypeOK, KeysOK
  <2>3. LookupOK'
    BY <1>4 DEF ReadKey, TypeOK, KeysOK, LookupOK, Keys
  <2> QED BY <2>1, <2>2, <2>3
<1>5. CASE CheckAlive
  <2>1. TypeOK'
    BY <1>5 DEF CheckAlive, Consider, TypeOK, LookupOK
  <2>2. KeysOK'
    BY <1>5 DEF CheckAlive, Consider, KeysOK
  <2>3. LookupOK'
    <3>1. CASE pc' = "token"
      BY <1>5, <3>1 DEF CheckAlive, Consider, TypeOK, KeysOK, LookupOK
    <3>2. CASE cur.pid \notin alive /\ Consider(0)
      BY <1>5, <3>2 DEF CheckAlive, Consider, TypeOK, KeysOK, LookupOK
    <3>3. CASE cur.pid \in alive /\ ~cur.stamped /\ Consider(1)
      <4>1. CASE 1 > bestRank
        BY <1>5, <3>3, <4>1 DEF CheckAlive, Consider, TypeOK, KeysOK, LookupOK, Keys
      <4>2. CASE 1 <= bestRank
        BY <1>5, <3>3, <4>2 DEF CheckAlive, Consider, TypeOK, KeysOK, LookupOK
      <4> QED BY <4>1, <4>2 DEF TypeOK
    <3> QED BY <1>5, <3>1, <3>2, <3>3 DEF CheckAlive
  <2> QED BY <2>1, <2>2, <2>3
<1>6. CASE CheckToken
  <2>1. TypeOK'
    BY <1>6 DEF CheckToken, Consider, TypeOK, Keys
  <2>2. KeysOK'
    BY <1>6 DEF CheckToken, Consider, KeysOK
  <2>3. LookupOK'
    <3>1. CASE cur.pid \in alive /\ UNCHANGED unsure /\
               Consider(IF start[cur.pid] = cur.by THEN 2 ELSE 0)
      BY <1>6, <3>1 DEF CheckToken, Consider, TypeOK, KeysOK, LookupOK, Keys
    <3>2. CASE Consider(1) /\ unsure' = unsure \cup {cur.pid}
      <4>1. CASE 1 > bestRank
        BY <1>6, <3>2, <4>1 DEF CheckToken, Consider, TypeOK, KeysOK, LookupOK, Keys
      <4>2. CASE 1 <= bestRank
        BY <1>6, <3>2, <4>2 DEF CheckToken, Consider, TypeOK, KeysOK, LookupOK, Keys
      <4> QED BY <4>1, <4>2 DEF TypeOK
    <3> QED BY <1>6, <3>1, <3>2 DEF CheckToken
  <2> QED BY <2>1, <2>2, <2>3
<1>7. CASE Return
  BY <1>7 DEF Return, TypeOK, KeysOK, LookupOK
<1>8. CASE UNCHANGED vars
  BY <1>8 DEF vars, TypeOK, KeysOK, LookupOK
<1> QED BY <1>1, <1>2, <1>3, <1>4, <1>5, <1>6, <1>7, <1>8 DEF Next

\* In every state: what the invariant says.
THEOREM Invariance == Spec => []IInv
BY InitIInv, StepIInv, PTL DEF Spec

\* Every variable keeps its type; resolveToken, in particular, has a key in hand
\* whenever it asks about its owner.
THEOREM TypeCorrect == Spec => []TypeOK
<1>1. IInv => TypeOK
  BY DEF IInv
<1> QED BY <1>1, Invariance, PTL

\* The session that keeps the path is sent its own token, if its key names a start
\* token and that can be read.
THEOREM SteadyTokenIsSent == Spec => []SteadyTokenSent
<1>1. IInv => SteadyTokenSent
  BY DEF IInv, TypeOK, LookupOK, SteadyTokenSent
<1> QED BY <1>1, Invariance, PTL

\* While a session keeps the path, no token of an owner that was dead all along
\* is sent to it.
THEOREM DeadTokenIsNotSent == Spec => []DeadTokenNotSent
<1>1. IInv => DeadTokenNotSent
  BY DEF IInv, TypeOK, LookupOK, DeadTokenNotSent
<1> QED BY <1>1, Invariance, PTL
=============================================================================
