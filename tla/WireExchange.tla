---------------------------- MODULE WireExchange ----------------------------
(***************************************************************************)
(* One send byte by byte: writeFrame of client.go at one end, the          *)
(* bufio.Scanner of Inbox.handle at the other, and the socket in between.  *)
(*                                                                         *)
(* The stream is an auth line, or none, and the line of the frame.  Only   *)
(* offsets into it are kept.  The writer is writeFrame or another program  *)
(* that speaks the protocol, which need not look at the size of its frame. *)
(***************************************************************************)
EXTENDS Naturals

CONSTANTS
  MaxFrame,  \* maxFrameBytes, the limit on a line at either end
  FirstBuf,  \* the scanner's buffer to begin with
  SockBuf,   \* how many bytes the kernel holds that are written and not read
  Payloads,  \* lengths of the JSON of a frame
  AuthLines  \* lengths of the auth line with its newline; 0 for none

ASSUME WireAssumption ==
  /\ MaxFrame \in Nat /\ FirstBuf \in 1..MaxFrame /\ SockBuf \in Nat
  /\ Payloads \subseteq Nat /\ AuthLines \subseteq 0..MaxFrame

VARIABLES
  payload, auth,  \* the lengths of this send
  checked,        \* the writer is writeFrame
  darwin,         \* runtime.GOOS is "darwin"
  pc,             \* where the writer is
  wr,             \* bytes written
  shut,           \* the writer's side is shut
  cancelled,      \* the caller has cancelled the context
  late,           \* the deadline has passed
  res,            \* what writeFrame returned
  recv,           \* the handler: open, or how it ended
  rd,             \* bytes the scanner has read
  pos,            \* where in the stream the line it is at begins
  off,            \* where in the buffer that is
  cap,            \* the length of the buffer
  got             \* the line of the frame has been dispatched

send == <<payload, auth, checked, darwin>>
writer == <<pc, wr, shut, cancelled, late, res>>
reader == <<recv, rd, pos, off, cap, got>>
vars == <<send, writer, reader>>

Least(a, b) == IF a < b THEN a ELSE b

Total == auth + payload + 1

Init ==
  /\ payload \in Payloads /\ auth \in AuthLines
  /\ checked \in BOOLEAN /\ darwin \in BOOLEAN
  /\ pc = "start" /\ wr = 0 /\ shut = FALSE
  /\ cancelled = FALSE /\ late = FALSE /\ res = "none"
  /\ recv = "open" /\ rd = 0 /\ pos = 0 /\ off = 0 /\ cap = FirstBuf /\ got = FALSE

-----------------------------------------------------------------------------
(* The writer                                                              *)

\* Mutants of Refuses: one byte late, and of all that is written.
RefusesLate(n) == n > MaxFrame
RefusesSum(n) == auth + n >= MaxFrame

\* writeFrame does not send a frame of n bytes.
Refuses(n) == n >= MaxFrame

Return(r) == pc' = "done" /\ res' = r /\ shut' = TRUE

\* The frame is refused, or there is no token to be had, or nobody to dial.
GiveUp ==
  /\ pc = "start" /\ Return("error")
  /\ UNCHANGED <<send, wr, cancelled, late, reader>>

Dial ==
  /\ pc = "start" /\ ~cancelled /\ ~(checked /\ Refuses(payload))
  /\ pc' = "write"
  /\ UNCHANGED <<send, wr, shut, cancelled, late, res, reader>>

\* The kernel takes n bytes of what conn.Write has left.
Write(n) ==
  /\ pc = "write" /\ recv = "open" /\ n \in 1..Least(SockBuf - (wr - rd), Total - wr)
  /\ wr' = wr + n
  /\ pc' = IF wr' < Total THEN "write" ELSE IF darwin THEN "pause" ELSE "shut"
  /\ UNCHANGED <<send, shut, cancelled, late, res, reader>>

WriteFails ==
  /\ pc = "write" /\ (late \/ recv # "open") /\ Return("error")
  /\ UNCHANGED <<send, wr, cancelled, late, reader>>

\* The pause on macOS; only here is the context looked at after the dial.
Pause ==
  /\ pc = "pause"
  /\ \/ pc' = "shut" /\ UNCHANGED <<res, shut>>
     \/ (cancelled \/ late) /\ Return("error")
  /\ UNCHANGED <<send, wr, cancelled, late, reader>>

\* CloseWrite fails if the other end is gone, on some kernels.
CloseWrite ==
  /\ pc = "shut"
  /\ \/ pc' = "wait" /\ shut' = TRUE /\ UNCHANGED res
     \/ recv # "open" /\ Return("error")
  /\ UNCHANGED <<send, wr, cancelled, late, reader>>

\* The read ends: with EOF, or ECONNRESET if the other end left bytes unread,
\* or at the deadline.
AwaitClose ==
  /\ pc = "wait"
  /\ \/ recv # "open" /\ Return(IF rd = wr THEN "nil" ELSE "error")
     \/ late /\ Return("error")
  /\ UNCHANGED <<send, wr, cancelled, late, reader>>

\* Mutant of Deadline: the connection has a deadline for writing only.
DeadlineWrite ==
  /\ pc = "write" /\ late' = TRUE
  /\ UNCHANGED <<send, pc, wr, shut, cancelled, res, reader>>

\* The deadline of the connection, and of the context, passes.
Deadline ==
  /\ pc \notin {"start", "done"} /\ late' = TRUE
  /\ UNCHANGED <<send, pc, wr, shut, cancelled, res, reader>>

\* The caller cancels its context.
Cancel ==
  /\ pc # "done" /\ cancelled' = TRUE
  /\ UNCHANGED <<send, pc, wr, shut, late, res, reader>>

-----------------------------------------------------------------------------
(* The scanner of the handler                                              *)

\* Where the line at pos ends, its newline included.
LineEnd == IF pos < auth THEN auth ELSE Total

HasLine == pos < Total /\ rd >= LineEnd

\* The buffer is full of a line that has no newline yet, and may not grow.
Stuck == off = 0 /\ rd - pos = cap /\ cap >= MaxFrame

\* The line in the buffer is complete: its callback runs.
ScanLine ==
  /\ recv = "open" /\ HasLine
  /\ pos' = LineEnd /\ off' = off + (LineEnd - pos)
  /\ got' = (got \/ LineEnd = Total)
  /\ UNCHANGED <<send, writer, recv, rd, cap>>

\* Mutant of Grown: the buffer doubles whatever the limit.
GrownFreely == IF off = 0 /\ rd - pos = cap THEN 2 * cap ELSE cap

\* A buffer full of one line doubles, up to the limit.
Grown == IF off = 0 /\ rd - pos = cap THEN Least(2 * cap, MaxFrame) ELSE cap

\* A line that does not begin the buffer moves there when the buffer is used
\* up, or is half behind it.
Moved == IF off + (rd - pos) = cap \/ off > cap \div 2 THEN 0 ELSE off

Read(n) ==
  /\ recv = "open" /\ ~HasLine /\ ~Stuck
  /\ cap' = Grown /\ off' = Moved
  /\ n \in 1..Least(wr - rd, Grown - (Moved + (rd - pos))) /\ rd' = rd + n
  /\ UNCHANGED <<send, writer, recv, pos, got>>

\* bufio.ErrTooLong.
TooLong ==
  /\ recv = "open" /\ ~HasLine /\ Stuck
  /\ recv' = "toolong"
  /\ UNCHANGED <<send, writer, rd, pos, off, cap, got>>

\* EOF, or inboxIdleTimeout: the rest of the buffer is one more line, which is
\* JSON if it lacks only its newline.
Ends ==
  /\ recv = "open" /\ ~HasLine /\ ~Stuck
  /\ recv' = "closed"
  /\ got' = (got \/ (pos = auth /\ rd = Total - 1))
  /\ UNCHANGED <<send, writer, rd, pos, off, cap>>

\* The receiving process dies.
Dies ==
  /\ recv = "open" /\ recv' = "closed"
  /\ UNCHANGED <<send, writer, rd, pos, off, cap, got>>

-----------------------------------------------------------------------------
Sends ==
  \/ GiveUp \/ Dial \/ (\E n \in 1..Total : Write(n)) \/ WriteFails
  \/ Pause \/ CloseWrite \/ AwaitClose \/ Deadline

Next == Sends \/ Cancel \/ ScanLine \/ (\E n \in 1..Total : Read(n)) \/ TooLong \/ Ends \/ Dies

Spec == Init /\ [][Next]_vars

\* The goroutine that sends runs and its deadline passes; nothing is assumed of
\* the receiver.
FairSpec ==
  /\ Spec /\ WF_vars(Deadline)
  /\ WF_vars(WriteFails) /\ WF_vars(Pause) /\ WF_vars(CloseWrite) /\ WF_vars(AwaitClose)

-----------------------------------------------------------------------------
TypeOK ==
  /\ payload \in Payloads /\ auth \in AuthLines /\ checked \in BOOLEAN /\ darwin \in BOOLEAN
  /\ pc \in {"start", "write", "pause", "shut", "wait", "done"}
  /\ shut \in BOOLEAN /\ cancelled \in BOOLEAN /\ late \in BOOLEAN
  /\ res \in {"none", "nil", "error"} /\ recv \in {"open", "closed", "toolong"}
  /\ wr \in Nat /\ rd \in Nat /\ pos \in Nat /\ off \in Nat /\ got \in BOOLEAN
  /\ cap \in FirstBuf..MaxFrame

\* client.go:127-129, 183: a frame writeFrame sends is not too long for the
\* scanner, however the stream is cut into reads and with an auth line before.
FrameFits == checked => recv # "toolong"

\* The other way: writeFrame refuses no frame the scanner would have taken.
RefusedUnreadable == Refuses(payload) => ~got

\* client.go:26-28: Timeout bounds a send once it has dialed, whatever the
\* receiver and the caller's context do.
SendReturns == pc = "write" ~> pc = "done"
=============================================================================
