------------------------- MODULE WireExchangeProofs -------------------------
(***************************************************************************)
(* The limits of writeFrame and of the scanner agree, for frames, auth     *)
(* lines, buffers and limits of any size.                                  *)
(***************************************************************************)
EXTENDS WireExchange, TLAPS

\* The scanner is at the start of a line, or past the last one, and what it has
\* of it lies in its buffer.
BufferOK ==
  /\ pos \in {0, auth, Total} /\ pos <= rd /\ rd <= wr /\ wr <= Total
  /\ off + (rd - pos) <= cap

\* Nothing is written of a frame that writeFrame refuses.
CheckedOK == pc \notin {"start", "done"} \/ wr > 0 => ~(checked /\ Refuses(payload))

IInv == TypeOK /\ BufferOK /\ CheckedOK /\ FrameFits /\ RefusedUnreadable

\* The invariant holds before anything is written.
LEMMA InitIInv == Init => IInv
<1> SUFFICES ASSUME Init PROVE IInv
  OBVIOUS
<1>1. TypeOK
  <2>1. wr \in Nat /\ rd \in Nat /\ pos \in Nat /\ off \in Nat /\ cap \in FirstBuf..MaxFrame
    BY WireAssumption DEF Init
  <2> QED
    BY <2>1, Zenon DEF Init, TypeOK
<1>2. BufferOK
  BY WireAssumption DEF Init, BufferOK, Total
<1> QED
  BY <1>1, <1>2 DEF Init, IInv, CheckedOK, FrameFits, RefusedUnreadable

\* No step of the writer, the scanner or the clock breaks it.
LEMMA StepIInv == IInv /\ [Next]_vars => IInv'
<1> SUFFICES ASSUME IInv, [Next]_vars PROVE IInv'
  OBVIOUS
<1> USE WireAssumption DEF IInv, send, writer, reader
<1>t. /\ payload \in Nat /\ auth \in 0..MaxFrame /\ MaxFrame \in Nat
      /\ Total \in Nat /\ Total = auth + payload + 1 /\ cap \in Nat /\ cap <= MaxFrame
  BY DEF TypeOK, Total
\* The writer's steps leave the scanner alone.
<1> DEFINE Quiet == UNCHANGED <<send, recv, rd, pos, off, cap, got>>
<1>w. ASSUME Quiet, wr' \in Nat, rd <= wr', wr' <= Total, TypeOK', CheckedOK' PROVE IInv'
  <2>1. UNCHANGED Total /\ Refuses(payload)' = Refuses(payload)
    BY <1>w DEF Quiet, Total, Refuses
  <2>2. BufferOK'
    BY <1>w, <1>t, <2>1 DEF Quiet, BufferOK, TypeOK
  <2>3. FrameFits' /\ RefusedUnreadable'
    BY <1>w, <2>1 DEF Quiet, FrameFits, RefusedUnreadable
  <2> QED
    BY <1>w, <2>2, <2>3
<1>v. ASSUME Quiet, wr' = wr, TypeOK', CheckedOK' PROVE IInv'
  BY <1>v, <1>w DEF Quiet, BufferOK, TypeOK
<1>1. CASE GiveUp
  BY <1>1, <1>v DEF GiveUp, Return, Quiet, TypeOK, CheckedOK, Refuses
<1>2. CASE Dial
  BY <1>2, <1>v DEF Dial, Quiet, TypeOK, CheckedOK, Refuses
<1>3. ASSUME NEW n \in 1..Total, Write(n) PROVE IInv'
  <2>1. wr' = wr + n /\ n \in Nat /\ n <= Total - wr
    BY <1>3, <1>t DEF Write, Least, TypeOK, BufferOK
  <2> QED
    BY <1>3, <1>w, <1>t, <2>1 DEF Write, Quiet, TypeOK, BufferOK, CheckedOK, Refuses
<1>4. CASE WriteFails \/ Pause \/ CloseWrite \/ AwaitClose \/ Deadline \/ Cancel
  <2>1. Quiet /\ wr' = wr
    BY <1>4
    DEF WriteFails, Pause, CloseWrite, AwaitClose, Deadline, Cancel, Quiet
  <2>2. TypeOK'
    <3>1. CASE WriteFails \/ AwaitClose
      BY <3>1, <2>1 DEF WriteFails, AwaitClose, Return, Quiet, TypeOK
    <3>2. CASE Pause
      BY <3>2, <2>1 DEF Pause, Return, Quiet, TypeOK
    <3>3. CASE CloseWrite
      BY <3>3, <2>1 DEF CloseWrite, Return, Quiet, TypeOK
    <3>4. CASE Deadline
      BY <3>4, <2>1 DEF Deadline, Quiet, TypeOK
    <3>5. CASE Cancel
      BY <3>5, <2>1 DEF Cancel, Quiet, TypeOK
    <3> QED
      BY <1>4, <3>1, <3>2, <3>3, <3>4, <3>5
  <2>3. CheckedOK'
    BY <1>4, <2>1
    DEF WriteFails, Pause, CloseWrite, AwaitClose, Deadline, Cancel, Return, Quiet, CheckedOK,
        Refuses
  <2> QED
    BY <2>1, <2>2, <2>3, <1>v
<1>5. CASE ScanLine
  <2>1. pos' \in {auth, Total} /\ pos < pos' /\ pos' <= rd /\ off' = off + (pos' - pos)
    BY <1>5, <1>t DEF ScanLine, HasLine, LineEnd, TypeOK, BufferOK
  <2>2. TypeOK'
    BY <1>5, <2>1, <1>t DEF ScanLine, TypeOK
  <2>3. UNCHANGED Total /\ Refuses(payload)' = Refuses(payload)
    BY <1>5 DEF ScanLine, Total, Refuses
  <2>4. BufferOK' /\ CheckedOK' /\ FrameFits'
    BY <1>5, <2>1, <2>3, <1>t DEF ScanLine, TypeOK, BufferOK, CheckedOK, FrameFits
  <2>5. RefusedUnreadable'
    <3>1. LineEnd = Total /\ pos # Total => rd - pos >= payload + 1
      BY <1>5, <1>t DEF ScanLine, HasLine, LineEnd, TypeOK, BufferOK
    <3>2. LineEnd = Total => ~Refuses(payload)
      BY <1>5, <1>t, <3>1 DEF ScanLine, HasLine, TypeOK, BufferOK, Refuses
    <3> QED
      BY <1>5, <2>3, <3>2 DEF ScanLine, RefusedUnreadable
  <2> QED
    BY <2>2, <2>4, <2>5
<1>6. ASSUME NEW n \in 1..Total, Read(n) PROVE IInv'
  <2>1. /\ rd' = rd + n /\ n \in Nat /\ n <= wr - rd
        /\ cap' = Grown /\ off' = Moved /\ n <= Grown - (Moved + (rd - pos))
    BY <1>6, <1>t DEF Read, Least, Grown, Moved, TypeOK, BufferOK
  <2>2. cap' \in FirstBuf..MaxFrame /\ off' \in Nat
    BY <1>6, <2>1, <1>t DEF Grown, Moved, Least, TypeOK
  <2>3. TypeOK'
    BY <1>6, <2>1, <2>2 DEF Read, TypeOK
  <2>4. UNCHANGED Total /\ Refuses(payload)' = Refuses(payload)
    BY <1>6 DEF Read, Total, Refuses
  <2>5. BufferOK'
    BY <1>6, <2>1, <2>2, <2>4, <1>t DEF Read, TypeOK, BufferOK
  <2> QED
    BY <1>6, <2>3, <2>4, <2>5 DEF Read, CheckedOK, FrameFits, RefusedUnreadable
<1>7. CASE TooLong
  \* What fills the buffer is less than a line, and a line of a checked frame
  \* is no longer than the limit.
  <2>1. rd - pos < LineEnd - pos /\ rd - pos >= MaxFrame /\ wr > 0
    BY <1>7, <1>t DEF TooLong, HasLine, Stuck, LineEnd, TypeOK, BufferOK
  <2>2. Refuses(payload)
    BY <2>1, <1>t DEF LineEnd, Refuses, TypeOK, BufferOK
  <2>3. ~checked
    BY <2>1, <2>2 DEF CheckedOK
  <2>4. UNCHANGED Total /\ Refuses(payload)' = Refuses(payload)
    BY <1>7 DEF TooLong, Total, Refuses
  <2> QED
    BY <1>7, <2>3, <2>4 DEF TooLong, TypeOK, BufferOK, CheckedOK, FrameFits, RefusedUnreadable
<1>8. CASE Ends
  \* JSON as long as the limit leaves the scanner no room to see the end.
  <2>1. pos = auth /\ rd = Total - 1 => ~Refuses(payload)
    BY <1>8, <1>t DEF Ends, Stuck, Refuses, TypeOK, BufferOK
  <2>2. UNCHANGED Total /\ Refuses(payload)' = Refuses(payload)
    BY <1>8 DEF Ends, Total, Refuses
  <2> QED
    BY <1>8, <2>1, <2>2 DEF Ends, TypeOK, BufferOK, CheckedOK, FrameFits, RefusedUnreadable
<1>9. CASE Dies
  BY <1>9 DEF Dies, TypeOK, BufferOK, CheckedOK, FrameFits, RefusedUnreadable, Total, Refuses
<1>10. CASE UNCHANGED vars
  BY <1>10 DEF vars, TypeOK, BufferOK, CheckedOK, FrameFits, RefusedUnreadable, Total, Refuses
<1> QED
  BY <1>1, <1>2, <1>3, <1>4, <1>5, <1>6, <1>7, <1>8, <1>9, <1>10 DEF Next, Sends

\* In every state: what the invariant says.
THEOREM IInvAlways == Spec => []IInv
<1>1. Init => IInv
  BY InitIInv
<1>2. IInv /\ [Next]_vars => IInv'
  BY StepIInv
<1> QED
  BY <1>1, <1>2, PTL DEF Spec

\* Every variable keeps its type; the scanner's buffer stays within the limit.
THEOREM WireTypes == Spec => []TypeOK
<1>1. IInv => TypeOK
  BY DEF IInv
<1> QED
  BY <1>1, IInvAlways, PTL

\* writeFrame: no frame it sends is too long for the scanner of handle.
THEOREM SentFrameFits == Spec => []FrameFits
<1>1. IInv => FrameFits
  BY DEF IInv
<1> QED
  BY <1>1, IInvAlways, PTL

\* writeFrame: what it refuses could not have been read, from whoever sent it.
THEOREM RefusedIsUnreadable == Spec => []RefusedUnreadable
<1>1. IInv => RefusedUnreadable
  BY DEF IInv
<1> QED
  BY <1>1, IInvAlways, PTL
=============================================================================
