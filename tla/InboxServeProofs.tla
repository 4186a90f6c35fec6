-------------------------- MODULE InboxServeProofs --------------------------
(***************************************************************************)
(* Proofs about InboxServe: for any peers and any lines it implements      *)
(* Mailbox, and after a nil error of writeFrame the callbacks its frame is *)
(* due have run.                                                           *)
(***************************************************************************)
EXTENDS InboxServe, FiniteSetTheorems, TLAPS

\* The scanner has read no more than was written, and turned no more into
\* lines; while the handler may still run it is at the start of a line, and no
\* line between the last callback's and that one has a callback.
StreamOK(c) ==
  /\ tok[c] <= rd[c] /\ rd[c] <= wr[c] /\ wr[c] <= Full(c)
  /\ place[c] # "over" =>
       /\ tok[c] = 3 * (tok[c] \div 3) /\ last[c] <= tok[c] \div 3
       /\ \A j \in (last[c] + 1)..(tok[c] \div 3) : script[c][j] \notin Callbacks

\* A peer that has half-closed has written everything, unless it has given up.
PeerOK(c) ==
  /\ eof[c] /\ res[c] = "none" => wr[c] = Full(c)
  /\ res[c] = "nil" => place[c] = "over" /\ eof[c] /\ (goos = "linux" => rd[c] = Full(c))
  /\ place[c] = "over" \/ rd[c] <= wr[c]

\* Callbacks have run for every line that has one, up to the last they ran for.
\* The scanner never reads past the line it is at, nor any of a line too long
\* for it unless handle gives up, so a connection read to its end and closed by
\* an Inbox that lives has no line with a callback left.
CountOK(c) ==
  /\ last[c] <= Len(script[c]) /\ calls[c] = Due(c, last[c])
  /\ place[c] \in {"none", "queued"} => rd[c] = 0
  /\ place[c] # "over" =>
       rd[c] <= tok[c] + 3 /\ (rd[c] > tok[c] => Current(c) # "big")
  /\ place[c] = "over" /\ ~crashed /\ rd[c] = Full(c) =>
       \A j \in (last[c] + 1)..Len(script[c]) : script[c][j] \notin Callbacks

IInv == TypeOK /\ \A c \in Conns : StreamOK(c) /\ PeerOK(c) /\ CountOK(c)

\* Pieces are counted in threes: what dividing by three does.
LEMMA Thirds ==
  ASSUME NEW n \in Nat
  PROVE  /\ n \div 3 \in Nat /\ 3 * (n \div 3) <= n /\ n < 3 * (n \div 3) + 3
         /\ (3 * n) \div 3 = n /\ (3 * n + 1) \div 3 = n
         /\ (n + 3) \div 3 = n \div 3 + 1
BY SMT

\* A line whose JSON has been read is one of the script's.
LEMMA InScript ==
  ASSUME NEW n \in Nat, NEW m \in Nat, NEW len \in Nat,
         n = 3 * (n \div 3), n + 2 <= m, m <= 3 * len
  PROVE  n \div 3 < len
BY Thirds

\* The number of lines and of pieces of a script are naturals.
LEMMA ScriptLen == ASSUME TypeOK, NEW c \in Conns PROVE Len(script[c]) \in Nat /\ Full(c) \in Nat
BY InboxServeAssumption DEF TypeOK, Full

\* The invariant holds before any peer connects.
LEMMA InitIInv == Init => IInv
<1> SUFFICES ASSUME Init PROVE IInv
  OBVIOUS
<1>1. TypeOK
  <2>1. 0 \in 0..MaxDelay
    BY InboxServeAssumption
  <2> QED BY <2>1 DEF Init, TypeOK
<1>2. ASSUME NEW c \in Conns PROVE StreamOK(c) /\ PeerOK(c)
  BY <1>1, ScriptLen, Thirds DEF Init, StreamOK, PeerOK
<1>3. ASSUME NEW c \in Conns PROVE CountOK(c)
  <2>1. Due(c, 0) = 0
    BY FS_EmptySet DEF Due
  <2> QED BY <1>1, <2>1, ScriptLen DEF Init, CountOK
<1> QED BY <1>1, <1>2, <1>3 DEF IInv

\* Every action keeps the types; the pause stays below its cap.
LEMMA TypeStep == TypeOK /\ [Next]_vars => TypeOK'
<1> SUFFICES ASSUME TypeOK, [Next]_vars PROVE TypeOK'
  OBVIOUS
<1> USE DEF TypeOK, peer, given, hand, loop
<1>1. ASSUME NEW c \in Conns, Peer(c) PROVE TypeOK'
  <2>1. CASE Connect(c) \/ HalfClose(c) \/ GiveUp(c)
    BY <2>1 DEF Connect, HalfClose, GiveUp
  <2>2. CASE WritePiece(c)
    BY <2>2 DEF WritePiece
  <2>3. CASE SeesClose(c)
    BY <2>3 DEF SeesClose
  <2> QED BY <1>1, <2>1, <2>2, <2>3 DEF Peer
<1>2. ASSUME NEW c \in Conns, ScanLine(c) PROVE TypeOK'
  BY <1>2, Thirds DEF ScanLine, Dispatch
<1>3. ASSUME NEW c \in Conns, ReadPiece(c) PROVE TypeOK'
  BY <1>3 DEF ReadPiece
<1>4. ASSUME NEW c \in Conns, EndOfStream(c) \/ IdleTimeout(c) PROVE TypeOK'
  BY <1>4, Thirds DEF EndOfStream, IdleTimeout, Ends, Dispatch
<1>5. CASE Serve
  <2>1. \A d \in 0..MaxDelay : Longer(d) \in 0..MaxDelay /\ 0 \in 0..MaxDelay
    BY InboxServeAssumption DEF Longer
  <2> QED BY <1>5, <2>1 DEF Serve, Accept, AcceptFails, CheckClosed, WakeUp
<1>6. CASE CloseMarks \/ CloseListener \/ Crash
  BY <1>6 DEF CloseMarks, CloseListener, Crash
<1>7. CASE UNCHANGED vars
  BY <1>7 DEF vars
<1> QED BY <1>1, <1>2, <1>3, <1>4, <1>5, <1>6, <1>7 DEF Next, Handle

\* A step of connection c leaves the streams of the others as they are.
LEMMA ConnStep ==
  ASSUME IInv, NEW c \in Conns, Peer(c) \/ Handle(c)
  PROVE  \A d \in Conns : StreamOK(d)' /\ PeerOK(d)'
<1> SUFFICES ASSUME NEW d \in Conns PROVE StreamOK(d)' /\ PeerOK(d)'
  OBVIOUS
<1> USE DEF TypeOK, peer, given, hand, loop
<1>1. TypeOK /\ StreamOK(d) /\ PeerOK(d) /\ StreamOK(c) /\ PeerOK(c)
  BY DEF IInv
<1>2. Full(c) \in Nat /\ Full(d) \in Nat
  BY <1>1, ScriptLen
<1>3. CASE Connect(c)
  BY <1>1, <1>2, <1>3 DEF Connect, StreamOK, PeerOK, Full
<1>4. CASE WritePiece(c)
  <2>1. /\ UNCHANGED <<script, goos, eof, res, rd, tok, last, place>>
        /\ ~eof[c] /\ wr[c] < Full(c) /\ wr' = [wr EXCEPT ![c] = @ + 1]
    BY <1>4 DEF WritePiece
  <2>2. StreamOK(d)'
    BY <1>1, <1>2, <2>1 DEF StreamOK, Full
  <2>3. PeerOK(d)'
    BY <1>1, <1>2, <2>1 DEF PeerOK, Full
  <2> QED BY <2>2, <2>3
<1>5. CASE HalfClose(c) \/ GiveUp(c)
  BY <1>1, <1>2, <1>5 DEF HalfClose, GiveUp, StreamOK, PeerOK, Full
<1>6. CASE SeesClose(c)
  BY <1>1, <1>2, <1>6 DEF SeesClose, StreamOK, PeerOK, Full
<1>7. CASE ScanLine(c)
  <2>1. tok[c] \div 3 \in Nat /\ (tok[c] + 3) \div 3 = tok[c] \div 3 + 1
    BY <1>1, Thirds
  <2>2. PeerOK(d)'
    BY <1>1, <1>2, <1>7 DEF ScanLine, PeerOK, Full
  <2>3. CASE d # c
    BY <1>1, <1>2, <1>7, <2>2, <2>3 DEF ScanLine, Dispatch, StreamOK, Full
  <2>4. CASE d = c
    <3> DEFINE k == tok[c] \div 3
    <3>1. /\ k \in Nat /\ tok[c] = 3 * k /\ last[c] <= k /\ tok'[c] = tok[c] + 3
          /\ tok'[c] \div 3 = k + 1 /\ tok'[c] <= rd[c]
      BY <1>1, <1>7, <2>1 DEF ScanLine, HasLine, StreamOK
    <3>2. \A j \in (last[c] + 1)..k : script[c][j] \notin Callbacks
      BY <1>1, <1>7 DEF ScanLine, StreamOK
    <3>3. /\ last'[c] <= k + 1
          /\ \A j \in (last'[c] + 1)..(k + 1) : script[c][j] \notin Callbacks
      <4>1. CASE script[c][k + 1] \in Callbacks
        <5>1. last'[c] = k + 1
          BY <1>1, <1>7, <4>1 DEF ScanLine, Dispatch, Current
        <5> QED BY <3>1, <5>1
      <4>2. CASE script[c][k + 1] \notin Callbacks
        <5>1. last'[c] = last[c]
          BY <1>7, <4>2 DEF ScanLine, Dispatch, Current
        <5>2. \A j \in (last[c] + 1)..(k + 1) : j \in (last[c] + 1)..k \/ j = k + 1
          BY <1>1, <3>1
        <5> QED BY <1>1, <3>1, <3>2, <4>2, <5>1, <5>2
      <4> QED BY <4>1, <4>2
    <3>4. UNCHANGED <<script, wr, rd>> /\ tok'[c] = 3 * (k + 1)
      BY <1>7, <3>1 DEF ScanLine
    <3>5. StreamOK(c)'
      BY <1>1, <1>2, <3>1, <3>3, <3>4 DEF StreamOK, Full
    <3> QED BY <2>2, <2>4, <3>5
  <2> QED BY <2>3, <2>4
<1>8. CASE ReadPiece(c)
  <2>1. /\ UNCHANGED <<script, goos, wr, eof, res, tok, last>>
        /\ rd[c] < wr[c] /\ rd' = [rd EXCEPT ![c] = @ + 1]
        /\ place[c] = "handled"
        /\ place' = place \/ place' = [place EXCEPT ![c] = "over"]
    BY <1>8 DEF ReadPiece
  <2>2. PeerOK(d)'
    BY <1>1, <1>2, <2>1 DEF PeerOK, Full
  <2>3. StreamOK(d)'
    <3>1. CASE d = c
      BY <1>1, <1>2, <2>1, <3>1 DEF StreamOK, Full
    <3>2. CASE d # c
      BY <1>1, <1>2, <2>1, <3>2 DEF StreamOK, Full
    <3> QED BY <3>1, <3>2
  <2> QED BY <2>2, <2>3
<1>9. CASE EndOfStream(c) \/ IdleTimeout(c)
  <2>1. /\ UNCHANGED <<script, goos, wr, eof, res, rd>>
        /\ place[c] = "handled" /\ place' = [place EXCEPT ![c] = "over"]
        /\ tok' = [tok EXCEPT ![c] = rd[c]]
        /\ \A e \in Conns : e # c => last'[e] = last[e]
    BY <1>1, <1>9 DEF EndOfStream, IdleTimeout, Ends, Dispatch
  <2>2. PeerOK(d)'
    BY <1>1, <1>2, <2>1 DEF PeerOK, Full
  <2>3. CASE d # c
    BY <1>1, <1>2, <2>1, <2>2, <2>3 DEF StreamOK, Full
  <2>4. CASE d = c
    BY <1>1, <1>2, <2>1, <2>2, <2>4 DEF StreamOK, Full
  <2> QED BY <2>3, <2>4
<1> QED BY <1>3, <1>4, <1>5, <1>6, <1>7, <1>8, <1>9 DEF Peer, Handle

\* Lines without a callback add nothing to what is due.
LEMMA DueSame ==
  ASSUME NEW c, NEW n \in Nat, NEW m \in Nat, n <= m,
         \A j \in (n + 1)..m : script[c][j] \notin Callbacks
  PROVE  Due(c, m) = Due(c, n)
<1>1. {i \in 1..m : script[c][i] \in Callbacks} = {i \in 1..n : script[c][i] \in Callbacks}
  OBVIOUS
<1> QED BY <1>1 DEF Due

\* The next line that has a callback adds one.
LEMMA DueNext ==
  ASSUME NEW c, NEW n \in Nat, NEW k \in Nat, n <= k, script[c][k + 1] \in Callbacks,
         \A j \in (n + 1)..k : script[c][j] \notin Callbacks
  PROVE  Due(c, k + 1) = Due(c, n) + 1
<1> DEFINE S == {i \in 1..n : script[c][i] \in Callbacks}
<1>1. {i \in 1..(k + 1) : script[c][i] \in Callbacks} = S \cup {k + 1} /\ k + 1 \notin S
  OBVIOUS
<1>2. IsFiniteSet(S)
  BY FS_Interval, FS_Subset
<1> QED BY <1>1, <1>2, FS_AddElement DEF Due

\* Dispatching a line that is within the script keeps the count, and leaves no
\* line with a callback up to it behind.
LEMMA DispatchCounts ==
  ASSUME IInv, NEW c \in Conns, place[c] = "handled", Dispatch(c), UNCHANGED script,
         tok[c] \div 3 < Len(script[c])
  PROVE  /\ last'[c] <= Len(script[c]) /\ calls'[c] = Due(c, last[c])'
         /\ \A d \in Conns \ {c} : last'[d] = last[d] /\ calls'[d] = calls[d]
<1> DEFINE k == tok[c] \div 3
<1>1. /\ k \in Nat /\ last[c] \in Nat /\ last[c] <= k /\ Len(script[c]) \in Nat
      /\ last \in [Conns -> Nat] /\ calls \in [Conns -> Nat]
      /\ \A j \in (last[c] + 1)..k : script[c][j] \notin Callbacks
      /\ last[c] <= Len(script[c]) /\ calls[c] = Due(c, last[c])
  BY Thirds, ScriptLen DEF IInv, TypeOK, StreamOK, CountOK
<1>2. CASE Current(c) \notin Callbacks
  BY <1>1, <1>2 DEF Dispatch, Due
<1>3. CASE Current(c) \in Callbacks
  <2>1. Due(c, k + 1) = Due(c, last[c]) + 1
    BY <1>1, <1>3, DueNext DEF Current
  <2>2. last' = [last EXCEPT ![c] = k + 1] /\ calls' = [calls EXCEPT ![c] = @ + 1]
    BY <1>3 DEF Dispatch
  <2>3. last'[c] = k + 1 /\ Due(c, last[c])' = Due(c, k + 1)
    BY <1>1, <2>2 DEF Due
  <2> QED BY <1>1, <2>1, <2>2, <2>3
<1> QED BY <1>2, <1>3

\* A step of connection c keeps the count of callbacks, its own and the others'.
LEMMA CountStep ==
  ASSUME IInv, NEW c \in Conns, Peer(c) \/ Handle(c)
  PROVE  \A d \in Conns : CountOK(d)'
<1> SUFFICES ASSUME NEW d \in Conns PROVE CountOK(d)'
  OBVIOUS
<1> USE DEF peer, given, hand, loop
<1>1. /\ TypeOK /\ StreamOK(d) /\ CountOK(d) /\ StreamOK(c) /\ CountOK(c) /\ PeerOK(c)
      /\ Len(script[c]) \in Nat /\ Len(script[d]) \in Nat
      /\ tok[c] \div 3 \in Nat
  BY ScriptLen, Thirds DEF IInv, TypeOK
<1>2. CASE Peer(c)
  <2>1. UNCHANGED <<script, rd, tok, last, calls, crashed>>
    BY <1>2 DEF Peer, Connect, WritePiece, HalfClose, SeesClose, GiveUp
  <2>2. place' = place \/ (place[c] = "none" /\ place' = [place EXCEPT ![c] = "queued"])
    BY <1>2 DEF Peer, Connect, WritePiece, HalfClose, SeesClose, GiveUp
  <2> QED BY <1>1, <2>1, <2>2 DEF CountOK, Due, Full, Current, TypeOK
<1>3. CASE ScanLine(c)
  <2>1. tok[c] = 3 * (tok[c] \div 3) /\ tok[c] + 3 <= rd[c] /\ rd[c] <= 3 * Len(script[c])
    <3>1. place[c] = "handled" /\ rd[c] >= tok[c] + 3 /\ tok[c] \in Nat /\ rd[c] \in Nat
      BY <1>1, <1>3 DEF ScanLine, HasLine, TypeOK
    <3>2. tok[c] = 3 * (tok[c] \div 3)
      BY <1>1, <3>1 DEF StreamOK
    <3>3. rd[c] <= wr[c] /\ wr[c] <= 3 * Len(script[c]) /\ wr[c] \in Nat
      BY <1>1 DEF StreamOK, Full, TypeOK
    <3>4. tok[c] + 3 <= rd[c]
      BY ONLY <3>1
    <3>5. rd[c] <= 3 * Len(script[c])
      BY ONLY <1>1, <3>1, <3>3
    <3> QED BY <3>2, <3>4, <3>5
  <2>2. tok[c] \div 3 < Len(script[c])
    <3>1. tok[c] \in Nat /\ rd[c] \in Nat
      BY <1>1 DEF TypeOK
    <3>2. tok[c] + 3 <= rd[c]
      BY <2>1
    <3>3. tok[c] + 2 <= rd[c]
      BY <3>1, <3>2
    <3> QED BY <1>1, <2>1, <3>1, <3>3, InScript
  <2>3. /\ last'[c] <= Len(script[c]) /\ calls'[c] = Due(c, last[c])'
        /\ \A e \in Conns \ {c} : last'[e] = last[e] /\ calls'[e] = calls[e]
    BY <1>3, <2>2, DispatchCounts DEF ScanLine
  <2>4. /\ UNCHANGED <<script, place, rd, crashed>> /\ tok' = [tok EXCEPT ![c] = @ + 3]
        /\ place[c] = "handled"
    BY <1>3 DEF ScanLine
  <2>5. CASE d # c
    BY <1>1, <2>3, <2>4, <2>5 DEF CountOK, Due, Full, Current, TypeOK
  <2>6. CASE d = c
    <3>1. tok'[c] = tok[c] + 3 /\ rd[c] <= tok[c] + 3 /\ tok[c] \in Nat /\ rd[c] \in Nat
      BY <1>1, <2>4 DEF CountOK, TypeOK
    <3> QED BY <2>3, <2>4, <2>6, <3>1 DEF CountOK
  <2> QED BY <2>5, <2>6
<1>4. CASE ReadPiece(c)
  <2>1. /\ UNCHANGED <<script, tok, last, calls, crashed>> /\ place[c] = "handled"
        /\ rd' = [rd EXCEPT ![c] = @ + 1] /\ rd[c] < tok[c] + 3 /\ rd[c] < wr[c]
        /\ place' = IF Current(c) = "big" THEN [place EXCEPT ![c] = "over"] ELSE place
    <3>1. /\ UNCHANGED <<script, tok, last, calls, crashed>> /\ place[c] = "handled"
          /\ rd' = [rd EXCEPT ![c] = @ + 1] /\ ~(rd[c] >= tok[c] + 3) /\ rd[c] < wr[c]
          /\ place' = IF Current(c) = "big" THEN [place EXCEPT ![c] = "over"] ELSE place
      BY <1>4 DEF ReadPiece, HasLine
    <3>2. rd[c] \in Nat /\ tok[c] \in Nat
      BY <1>1 DEF TypeOK
    <3>3. rd[c] < tok[c] + 3
      BY ONLY <3>1, <3>2
    <3> QED BY <3>1, <3>3
  <2>2. CASE d # c
    BY <1>1, <2>1, <2>2 DEF CountOK, Due, Full, Current, TypeOK
  <2>3. CASE d = c /\ Current(c) # "big"
    BY <1>1, <2>1, <2>3 DEF CountOK, Due, Full, Current, TypeOK
  <2>4. CASE d = c /\ Current(c) = "big"
    <3>1. /\ rd[c] = tok[c] /\ tok[c] = 3 * (tok[c] \div 3)
          /\ rd[c] \in Nat /\ tok[c] \in Nat
      BY <1>1, <2>1, <2>4 DEF CountOK, StreamOK, TypeOK
    <3>2. rd'[c] = 3 * (tok[c] \div 3) + 1 /\ place'[c] = "over"
      BY <1>1, <2>1, <2>4, <3>1 DEF TypeOK
    <3>3. rd'[c] # 3 * Len(script[c])
      BY <1>1, <3>2
    <3> QED BY <1>1, <2>1, <2>4, <3>2, <3>3 DEF CountOK, Due, Full
  <2> QED BY <2>2, <2>3, <2>4
<1>5. CASE EndOfStream(c) \/ IdleTimeout(c)
  <2>1. /\ UNCHANGED <<script, rd, crashed>> /\ place[c] = "handled" /\ rd[c] < tok[c] + 3
        /\ place' = [place EXCEPT ![c] = "over"] /\ tok' = [tok EXCEPT ![c] = rd[c]]
        /\ IF HasJSON(c) THEN Dispatch(c) ELSE UNCHANGED <<last, calls>>
    <3>1. /\ UNCHANGED <<script, rd, crashed>> /\ place[c] = "handled" /\ ~(rd[c] >= tok[c] + 3)
          /\ place' = [place EXCEPT ![c] = "over"] /\ tok' = [tok EXCEPT ![c] = rd[c]]
          /\ IF HasJSON(c) THEN Dispatch(c) ELSE UNCHANGED <<last, calls>>
      BY <1>5 DEF EndOfStream, IdleTimeout, Ends, HasLine
    <3>2. rd[c] \in Nat /\ tok[c] \in Nat
      BY <1>1 DEF TypeOK
    <3>3. rd[c] < tok[c] + 3
      BY ONLY <3>1, <3>2
    <3> QED BY <3>1, <3>3
  <2>2. /\ last'[c] <= Len(script[c]) /\ calls'[c] = Due(c, last[c])'
        /\ \A e \in Conns \ {c} : last'[e] = last[e] /\ calls'[e] = calls[e]
    <3>1. CASE HasJSON(c)
      <4> tok[c] \in Nat /\ rd[c] \in Nat /\ wr[c] \in Nat
        BY <1>1 DEF TypeOK
      <4>1. tok[c] + 2 <= rd[c] /\ rd[c] <= 3 * Len(script[c])
        BY <1>1, <3>1 DEF HasJSON, StreamOK, Full
      <4>2. tok[c] = 3 * (tok[c] \div 3)
        BY <1>1, <2>1 DEF StreamOK
      <4>3. tok[c] \div 3 < Len(script[c])
        BY <1>1, <4>1, <4>2, InScript
      <4> QED BY <2>1, <3>1, <4>3, DispatchCounts
    <3>2. CASE ~HasJSON(c)
      BY <1>1, <2>1, <3>2 DEF CountOK, Due
    <3> QED BY <3>1, <3>2
  <2>3. CASE d # c
    BY <1>1, <2>1, <2>2, <2>3 DEF CountOK, Due, Full, Current, TypeOK
  <2>4. CASE d = c
    <3>1. ASSUME rd[c] = Full(c)
          PROVE  \A j \in (last'[c] + 1)..Len(script[c]) : script[c][j] \notin Callbacks
      <4>1. rd[c] = tok[c] /\ tok[c] \div 3 = Len(script[c]) /\ tok[c] \in Nat
        <5>1. tok[c] = 3 * (tok[c] \div 3) /\ tok[c] <= rd[c] /\ rd[c] \in Nat
          BY <1>1, <2>1 DEF StreamOK, TypeOK
        <5>2. rd[c] = 3 * Len(script[c])
          BY <3>1 DEF Full
        <5> QED BY <1>1, <2>1, <5>1, <5>2
      <4>2. ~HasJSON(c)
        BY <4>1 DEF HasJSON
      <4> QED BY <1>1, <2>1, <4>1, <4>2 DEF StreamOK
    <3>2. place'[c] = "over"
      BY <1>1, <2>1 DEF TypeOK
    <3> QED BY <2>1, <2>2, <2>4, <3>1, <3>2 DEF CountOK, Full
  <2> QED BY <2>3, <2>4
<1> QED BY <1>2, <1>3, <1>4, <1>5 DEF Handle

\* The invariant is inductive: connections, the accept loop, Close and crash.
LEMMA StepIInv == IInv /\ [Next]_vars => IInv'
<1> SUFFICES ASSUME IInv, [Next]_vars PROVE IInv'
  OBVIOUS
<1>1. TypeOK'
  BY TypeStep DEF IInv
<1>2. CASE \E c \in Conns : Peer(c) \/ Handle(c)
  BY <1>1, <1>2, ConnStep, CountStep DEF IInv
<1>3. CASE Serve \/ CloseMarks \/ UNCHANGED vars
  <2> USE DEF Serve, Accept, AcceptFails, CheckClosed, WakeUp, CloseMarks, vars,
              IInv, TypeOK, Full, peer, given, hand, loop
  <2>1. ASSUME NEW c \in Conns PROVE StreamOK(c)' /\ PeerOK(c)'
    BY <1>3 DEF StreamOK, PeerOK
  <2>2. ASSUME NEW c \in Conns PROVE CountOK(c)'
    <3>1. UNCHANGED <<script, rd, tok, last, calls, crashed>>
      BY <1>3
    <3>2. place'[c] = place[c] \/ (place[c] = "queued" /\ place'[c] = "handled")
      BY <1>3
    <3> QED BY <3>1, <3>2 DEF CountOK, Due, Current
  <2> QED BY <1>1, <2>1, <2>2
<1>4. CASE CloseListener \/ Crash
  <2> USE DEF CloseListener, Crash, IInv, TypeOK, Full, peer, given, hand
  <2>1. ASSUME NEW c \in Conns PROVE StreamOK(c)' /\ PeerOK(c)'
    BY <1>4 DEF StreamOK, PeerOK
  <2>2. ASSUME NEW c \in Conns PROVE CountOK(c)'
    <3>1. UNCHANGED <<script, rd, tok, last, calls>> /\ Len(script[c]) \in Nat
      BY <1>4, ScriptLen
    <3>2. CASE place'[c] = place[c] /\ crashed' = crashed
      BY <3>1, <3>2 DEF CountOK, Due, Current
    <3>3. CASE place'[c] \in {"none", "over"} /\ crashed'
      BY <1>4, <3>1, <3>3 DEF CountOK, Due, Current
    <3>4. CASE place[c] = "queued" /\ place'[c] = "over" /\ crashed' = crashed
      <4>1. rd[c] = 0 /\ (rd[c] = Full(c) => Len(script[c]) = 0)
        BY <3>1, <3>4 DEF CountOK
      <4>2. rd[c] = Full(c) => (last[c] + 1)..Len(script[c]) = {}
        BY <4>1
      <4>3. last'[c] <= Len(script'[c]) /\ calls'[c] = Due(c, last[c])'
        BY <3>1 DEF CountOK, Due
      <4>4. (rd[c] = Full(c))' <=> rd[c] = Full(c)
        BY <3>1
      <4> HIDE DEF Full
      <4> QED BY <3>1, <3>4, <4>2, <4>3, <4>4 DEF CountOK
    <3> QED BY <1>4, <3>2, <3>3, <3>4
  <2> QED BY <1>1, <2>1, <2>2
<1> QED BY <1>2, <1>3, <1>4 DEF Next

\* In every state: what the invariant says.
THEOREM Invariance == Spec => []IInv
BY InitIInv, StepIInv, PTL DEF Spec

\* Every variable keeps its type; the delay of the accept loop, in particular,
\* never passes its cap.
THEOREM TypeCorrect == Spec => []TypeOK
<1>1. IInv => TypeOK
  BY DEF IInv
<1> QED BY <1>1, Invariance, PTL

\* When writeFrame has returned nil, all callbacks the frame is due have run, unless
\* the process of the Inbox died or, on macOS, closed before it had read the frame.
THEOREM NilIsDispatched == Spec => []NilMeansDispatched
<1>1. ASSUME IInv, NEW c \in Conns, res[c] = "nil", ~crashed, goos = "linux" \/ rd[c] = Full(c)
      PROVE  calls[c] = Due(c, Len(script[c]))
  <2>1. /\ last[c] \in Nat /\ Len(script[c]) \in Nat /\ last[c] <= Len(script[c])
        /\ calls[c] = Due(c, last[c])
        /\ \A j \in (last[c] + 1)..Len(script[c]) : script[c][j] \notin Callbacks
    BY <1>1, ScriptLen DEF IInv, TypeOK, PeerOK, CountOK
  <2> QED BY <2>1, DueSame
<1>2. IInv => NilMeansDispatched
  BY <1>1 DEF NilMeansDispatched
<1> QED BY <1>2, Invariance, PTL

-----------------------------------------------------------------------------
(* InboxServe implements Mailbox.                                          *)

\* An Inbox nobody has connected to is an empty Mailbox.
LEMMA InitBox == Init => Box!Init
BY Thirds DEF Init, Box!Init

\* Every step is a Put, an Act or a stutter of Mailbox: the third piece of a line
\* and most steps change nothing there.
LEMMA StepBox == IInv /\ [Next]_vars => [Box!Next]_Box!vars
<1> SUFFICES ASSUME IInv, [Next]_vars PROVE [Box!Next]_Box!vars
  OBVIOUS
<1> DEFINE sent == [c \in Conns |-> (wr[c] + 1) \div 3]
<1> USE DEF peer, given, hand, loop
<1>1. CASE Serve \/ CloseMarks \/ CloseListener \/ Crash \/ UNCHANGED vars
  BY <1>1 DEF Serve, Accept, AcceptFails, CheckClosed, WakeUp, CloseMarks, CloseListener,
     Crash, vars, Box!vars
<1>2. ASSUME NEW c \in Conns,
             Connect(c) \/ HalfClose(c) \/ SeesClose(c) \/ GiveUp(c) \/ ReadPiece(c)
      PROVE  UNCHANGED Box!vars
  BY <1>2 DEF Connect, HalfClose, SeesClose, GiveUp, ReadPiece, Box!vars
<1>3. ASSUME NEW c \in Conns, WritePiece(c)
      PROVE  [Box!Next]_Box!vars
  <2>1. /\ TypeOK /\ wr[c] \in Nat /\ wr[c] < Full(c) /\ Len(script[c]) \in Nat
    BY <1>3, ScriptLen DEF WritePiece, IInv, TypeOK
  <2>2. \A d \in Conns : d # c => sent'[d] = sent[d]
    BY <1>3, <2>1 DEF WritePiece, TypeOK
  <2>3. sent[c] = (wr[c] + 1) \div 3 /\ sent'[c] = (wr[c] + 2) \div 3
    BY <1>3, <2>1 DEF WritePiece, TypeOK
  <2>4. \/ sent'[c] = sent[c]
        \/ sent'[c] = sent[c] + 1 /\ sent[c] < Len(script[c])
    BY <2>1, <2>3 DEF Full
  <2>5. CASE sent'[c] = sent[c]
    <3>1. sent' = sent
      BY <2>2, <2>5
    <3> QED BY <1>3, <3>1 DEF WritePiece, Box!vars
  <2>6. CASE sent'[c] = sent[c] + 1 /\ sent[c] < Len(script[c])
    <3>1. sent' = [sent EXCEPT ![c] = @ + 1]
      BY <2>2, <2>6
    <3>2. Box!Put(c)
      BY <1>3, <2>6, <3>1 DEF WritePiece, Box!Put
    <3> QED BY <3>2 DEF Box!Next
  <2> QED BY <2>4, <2>5, <2>6
\* A callback runs: for a line that is sent, next to the last one that has one.
<1>4. ASSUME NEW c \in Conns, place[c] = "handled", HasJSON(c), Dispatch(c),
             UNCHANGED <<script, wr>>
      PROVE  [Box!Next]_Box!vars
  <2> DEFINE k == tok[c] \div 3
  <2>1. CASE Current(c) \notin Callbacks
    BY <1>4, <2>1 DEF Dispatch, Box!vars
  <2>2. CASE Current(c) \in Callbacks
    <3>1. /\ k \in Nat /\ tok[c] = 3 * k /\ last[c] \in Nat /\ last[c] <= k
          /\ rd[c] \in Nat /\ wr[c] \in Nat /\ rd[c] <= wr[c]
          /\ \A j \in (last[c] + 1)..k : script[c][j] \notin Callbacks
      BY <1>4, Thirds DEF IInv, TypeOK, StreamOK
    <3>2. k + 1 \in (last[c] + 1)..sent[c]
      BY <1>4, <3>1 DEF HasJSON
    <3>3. k + 1 - 1 = k
      BY <3>1
    <3>4. /\ last' = [last EXCEPT ![c] = k + 1]
          /\ calls' = [calls EXCEPT ![c] = @ + 1]
      BY <1>4, <2>2 DEF Dispatch
    <3>5. PICK i \in (last[c] + 1)..sent[c] : i = k + 1
      BY <3>2
    <3>6. /\ script[c][i] \in Callbacks
          /\ \A j \in (last[c] + 1)..(i - 1) : script[c][j] \notin Callbacks
      BY <2>2, <3>1, <3>3, <3>5 DEF Current
    <3>7. last' = [last EXCEPT ![c] = i] /\ calls' = [calls EXCEPT ![c] = @ + 1]
      BY <3>4, <3>5
    <3>8. UNCHANGED script /\ sent' = sent
      BY <1>4
    <3>9. Box!Act(c)
      BY <3>6, <3>7, <3>8 DEF Box!Act
    <3> QED BY <3>9 DEF Box!Next
  <2> QED BY <2>1, <2>2
<1>5. ASSUME NEW c \in Conns, ScanLine(c)
      PROVE  [Box!Next]_Box!vars
  <2>1. HasJSON(c)
    BY <1>5 DEF ScanLine, HasLine, HasJSON, IInv, TypeOK
  <2> QED BY <1>4, <1>5, <2>1 DEF ScanLine
<1>6. ASSUME NEW c \in Conns, Ends(c)
      PROVE  [Box!Next]_Box!vars
  <2>1. CASE HasJSON(c)
    BY <1>4, <1>6, <2>1 DEF Ends
  <2>2. CASE ~HasJSON(c)
    BY <1>6, <2>2 DEF Ends, Box!vars
  <2> QED BY <2>1, <2>2
<1> QED
  BY <1>1, <1>2, <1>3, <1>5, <1>6
  DEF Next, Peer, Handle, EndOfStream, IdleTimeout, Box!vars

\* On every connection callbacks run in order, once for each line, and never
\* for a line that was cut short.
THEOREM InboxIsMailbox == Spec => ImplementsMailbox
BY InitBox, StepBox, Invariance, PTL DEF Spec, Box!Spec, ImplementsMailbox
=============================================================================
