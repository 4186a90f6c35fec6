---------------------------- MODULE InboxServe ----------------------------
(***************************************************************************)
(* An open Inbox at work: serve and handle of inbox.go, its Close, and the *)
(* peers that connect to it, of which writeFrame of client.go is one.      *)
(*                                                                         *)
(* A connection is a stream of pieces, three to a line: the first piece    *)
(* alone is no JSON, with the second the JSON is whole, the third is the   *)
(* newline.  Only the number of pieces written, read and turned into lines *)
(* is kept.  A line is known by its kind: one that dispatches to OnReceipt *)
(* or OnMessage, "other" for a blank one, one that is no JSON, an auth     *)
(* line or a frame of another type, and "big" for one whose first piece    *)
(* alone fills the scanner's buffer.                                       *)
(***************************************************************************)
EXTENDS Naturals, Sequences, FiniteSets

CONSTANTS
  Conns,      \* connections
  Scripts,    \* the sequences of lines peers may mean to send
  Callbacks,  \* the callbacks of InboxConfig that are set
  Systems,    \* the systems, of "linux" and "darwin"
  FdLimit,    \* how many connections the process has descriptors for
  MaxDelay    \* the longest pause after a failed Accept, in units of the first

Kinds == {"receipt", "user", "other", "big"}

ASSUME InboxServeAssumption ==
  /\ Scripts \subseteq Seq(Kinds) /\ Callbacks \subseteq {"receipt", "user"}
  /\ Systems \subseteq {"linux", "darwin"}
  /\ FdLimit \in Nat \ {0} /\ MaxDelay \in Nat \ {0}

VARIABLES
  script,  \* the lines the peer of each connection means to send
  goos,    \* runtime.GOOS
  place,   \* where the connection is: the accept queue, a handler, over
  wr,      \* pieces the peer has written
  eof,     \* the peer has shut its side
  res,     \* what writeFrame returned to the peer
  rd,      \* pieces the handler's scanner has read
  tok,     \* pieces it has turned into lines
  last,    \* history: the line the last callback ran for
  calls,   \* history: how many callbacks have run
  srv,     \* where serve is
  delay,   \* retryDelay
  closed,  \* Inbox.closed
  lopen,   \* the listener is open
  crashed  \* the process died

given == <<script, goos>>
peer == <<given, wr, eof, res>>
hand == <<rd, tok, last, calls>>
loop == <<srv, delay, closed, lopen, crashed>>
vars == <<peer, hand, loop, place>>

-----------------------------------------------------------------------------
Full(c) == 3 * Len(script[c])

Handled == {c \in Conns : place[c] = "handled"}

\* The kind of the line the scanner is at, and whether its JSON is in the
\* buffer, and its newline.
Current(c) == script[c][tok[c] \div 3 + 1]
HasJSON(c) == rd[c] >= tok[c] + 2
HasLine(c) == rd[c] >= tok[c] + 3

Init ==
  /\ script \in [Conns -> Scripts] /\ goos \in Systems
  /\ place = [c \in Conns |-> "none"]
  /\ wr = [c \in Conns |-> 0] /\ eof = [c \in Conns |-> FALSE]
  /\ res = [c \in Conns |-> "none"]
  /\ rd = wr /\ tok = wr /\ last = wr /\ calls = wr
  /\ srv = "accept" /\ delay = 0
  /\ closed = FALSE /\ lopen = TRUE /\ crashed = FALSE

-----------------------------------------------------------------------------
(* The peers                                                               *)

\* The peer's connect is queued by the kernel.
Connect(c) ==
  /\ place[c] = "none" /\ lopen
  /\ place' = [place EXCEPT ![c] = "queued"]
  /\ UNCHANGED <<peer, hand, loop>>

WritePiece(c) ==
  /\ place[c] \in {"queued", "handled"} /\ ~eof[c] /\ wr[c] < Full(c)
  /\ wr' = [wr EXCEPT ![c] = @ + 1]
  /\ UNCHANGED <<given, eof, res, hand, loop, place>>

\* CloseWrite.
HalfClose(c) ==
  /\ place[c] # "none" /\ ~eof[c] /\ wr[c] = Full(c)
  /\ eof' = [eof EXCEPT ![c] = TRUE]
  /\ UNCHANGED <<given, wr, res, hand, loop, place>>

\* Mutant of SeesClose: writeFrame returns once it has half-closed.
SeesNothing(c) ==
  /\ eof[c] /\ res[c] = "none"
  /\ res' = [res EXCEPT ![c] = "nil"]
  /\ UNCHANGED <<given, wr, eof, hand, loop, place>>

\* writeFrame's read of the connection ends, with EOF; when the receiver closed with
\* pieces unread Linux ends it with ECONNRESET, macOS does not.
SeesClose(c) ==
  /\ place[c] = "over" /\ eof[c] /\ res[c] = "none"
  /\ res' = [res EXCEPT ![c] = IF goos = "linux" /\ rd[c] # wr[c] THEN "error" ELSE "nil"]
  /\ UNCHANGED <<given, wr, eof, hand, loop, place>>

\* The deadline fires, a write fails, or the peer dies: the connection is shut
\* whatever has been written.
GiveUp(c) ==
  /\ place[c] # "none" /\ res[c] = "none"
  /\ res' = [res EXCEPT ![c] = "error"] /\ eof' = [eof EXCEPT ![c] = TRUE]
  /\ UNCHANGED <<given, wr, hand, loop, place>>

-----------------------------------------------------------------------------
(* serve                                                                   *)

Accept(c) ==
  /\ srv = "accept" /\ lopen /\ place[c] = "queued" /\ Cardinality(Handled) < FdLimit
  /\ place' = [place EXCEPT ![c] = "handled"] /\ delay' = 0
  /\ UNCHANGED <<peer, hand, srv, closed, lopen, crashed>>

\* Accept fails: EMFILE, or the listener is closed.
AcceptFails ==
  /\ srv = "accept" /\ (~lopen \/ Cardinality(Handled) >= FdLimit)
  /\ srv' = "check"
  /\ UNCHANGED <<peer, hand, delay, closed, lopen, crashed, place>>

\* Mutant of Longer: the pause is not capped.
LongerUncapped(d) == IF d = 0 THEN 1 ELSE 2 * d

\* The pause doubles from the first one up to the longest.
Longer(d) == IF d = 0 THEN 1 ELSE IF 2 * d > MaxDelay THEN MaxDelay ELSE 2 * d

\* Mutants of CheckClosed: serve returns on any error, or on none.
CheckExits ==
  /\ srv = "check" /\ srv' = "exited"
  /\ UNCHANGED <<peer, hand, delay, closed, lopen, crashed, place>>
CheckNever ==
  /\ srv = "check" /\ srv' = "sleep" /\ delay' = Longer(delay)
  /\ UNCHANGED <<peer, hand, closed, lopen, crashed, place>>

\* serve returns when the Inbox is closed, else it pauses.
CheckClosed ==
  /\ srv = "check"
  /\ \/ closed /\ srv' = "exited" /\ UNCHANGED delay
     \/ ~closed /\ srv' = "sleep" /\ delay' = Longer(delay)
  /\ UNCHANGED <<peer, hand, closed, lopen, crashed, place>>

WakeUp ==
  /\ srv = "sleep" /\ srv' = "accept"
  /\ UNCHANGED <<peer, hand, delay, closed, lopen, crashed, place>>

Serve == (\E c \in Conns : Accept(c)) \/ AcceptFails \/ CheckClosed \/ WakeUp

-----------------------------------------------------------------------------
(* handle                                                                  *)

\* Mutant of Dispatch: handle looks at the first line only.
DispatchFirstOnly(c) ==
  IF tok[c] = 0 /\ Current(c) \in Callbacks
  THEN /\ last' = [last EXCEPT ![c] = tok[c] \div 3 + 1]
       /\ calls' = [calls EXCEPT ![c] = @ + 1]
  ELSE UNCHANGED <<last, calls>>

\* The callback for the line the scanner is at runs, if it has one.
Dispatch(c) ==
  IF Current(c) \in Callbacks
  THEN /\ last' = [last EXCEPT ![c] = tok[c] \div 3 + 1]
       /\ calls' = [calls EXCEPT ![c] = @ + 1]
  ELSE UNCHANGED <<last, calls>>

\* Scan finds a line in its buffer.
ScanLine(c) ==
  /\ place[c] = "handled" /\ HasLine(c)
  /\ Dispatch(c)
  /\ tok' = [tok EXCEPT ![c] = @ + 3]
  /\ UNCHANGED <<peer, loop, place, rd>>

\* Scan finds none and reads; its buffer fills up with a line too long for it,
\* and handle closes the connection with the rest unread.
ReadPiece(c) ==
  /\ place[c] = "handled" /\ ~HasLine(c) /\ rd[c] < wr[c]
  /\ rd' = [rd EXCEPT ![c] = @ + 1]
  /\ place' = IF Current(c) = "big" THEN [place EXCEPT ![c] = "over"] ELSE place
  /\ UNCHANGED <<peer, loop, tok, last, calls>>

\* Mutant of Ends: what was cut off is dispatched all the same.
EndsCut(c) ==
  /\ place[c] = "handled" /\ ~HasLine(c)
  /\ IF rd[c] > tok[c] THEN Dispatch(c) ELSE UNCHANGED <<last, calls>>
  /\ tok' = [tok EXCEPT ![c] = rd[c]]
  /\ place' = [place EXCEPT ![c] = "over"]
  /\ UNCHANGED <<peer, loop, rd>>

\* A read returns an error: Scan yields what is left in its buffer as one more
\* line, and handle closes the connection.
Ends(c) ==
  /\ place[c] = "handled" /\ ~HasLine(c)
  /\ IF HasJSON(c) THEN Dispatch(c) ELSE UNCHANGED <<last, calls>>
  /\ tok' = [tok EXCEPT ![c] = rd[c]]
  /\ place' = [place EXCEPT ![c] = "over"]
  /\ UNCHANGED <<peer, loop, rd>>

EndOfStream(c) == eof[c] /\ rd[c] = wr[c] /\ Ends(c)

\* Mutant of IdleTimeout: no deadline before the first read.
IdleTimeoutLate(c) == ~eof[c] /\ rd[c] > 0 /\ Ends(c)

\* inboxIdleTimeout passes before Scan has a line, perhaps with pieces the peer
\* has only just written unread.  One that passes after the peer has shut its
\* side leads where one just before would have.
IdleTimeout(c) == ~eof[c] /\ Ends(c)

Handle(c) == ScanLine(c) \/ ReadPiece(c) \/ EndOfStream(c) \/ IdleTimeout(c)

-----------------------------------------------------------------------------
(* Close, and the end of the process                                       *)

CloseMarks ==
  /\ ~closed /\ ~crashed /\ closed' = TRUE
  /\ UNCHANGED <<peer, hand, srv, delay, lopen, crashed, place>>

\* The listener is closed, and the kernel resets what was queued for it.
CloseListener ==
  /\ closed /\ lopen /\ lopen' = FALSE
  /\ place' = [c \in Conns |-> IF place[c] = "queued" THEN "over" ELSE place[c]]
  /\ UNCHANGED <<peer, hand, srv, delay, closed, crashed>>

Crash ==
  /\ ~crashed /\ crashed' = TRUE
  /\ srv' = "exited" /\ lopen' = FALSE
  /\ place' = [c \in Conns |-> IF place[c] = "none" THEN "none" ELSE "over"]
  /\ UNCHANGED <<peer, hand, delay, closed>>

-----------------------------------------------------------------------------
Peer(c) == Connect(c) \/ WritePiece(c) \/ HalfClose(c) \/ SeesClose(c) \/ GiveUp(c)

Next ==
  \/ \E c \in Conns : Peer(c) \/ Handle(c)
  \/ Serve \/ CloseMarks \/ CloseListener \/ Crash

Spec == Init /\ [][Next]_vars

\* The goroutines of the Inbox run and their deadlines fire; nothing is assumed
\* of the peers, nor that Close is ever called.
FairSpec ==
  /\ Spec /\ WF_vars(Serve) /\ WF_vars(CloseListener)
  /\ \A c \in Conns : WF_vars(Handle(c))

-----------------------------------------------------------------------------
TypeOK ==
  /\ script \in [Conns -> Scripts] /\ goos \in Systems
  /\ place \in [Conns -> {"none", "queued", "handled", "over"}]
  /\ eof \in [Conns -> BOOLEAN]
  /\ res \in [Conns -> {"none", "nil", "error"}]
  /\ wr \in [Conns -> Nat] /\ rd \in [Conns -> Nat] /\ tok \in [Conns -> Nat]
  /\ last \in [Conns -> Nat] /\ calls \in [Conns -> Nat]
  /\ srv \in {"accept", "check", "sleep", "exited"}
  /\ delay \in 0..MaxDelay
  /\ closed \in BOOLEAN /\ lopen \in BOOLEAN /\ crashed \in BOOLEAN

\* A line has been sent once its JSON is whole on the wire.
Box == INSTANCE Mailbox WITH sent <- [c \in Conns |-> (wr[c] + 1) \div 3]

\* handle: whatever arrives, breaks off or times out on a connection, callbacks
\* run in order, once for each line, and never for a line cut short.
ImplementsMailbox == Box!Spec

\* No line of the connection is too long for the scanner.
Fitting(c) == \A i \in 1..Len(script[c]) : script[c][i] # "big"

\* How many of the first n lines of a connection have a callback.
Due(c, n) == Cardinality({i \in 1..n : script[c][i] \in Callbacks})

\* client.go:125-128, 235-237: when writeFrame returns nil and the receiver is an
\* Inbox that has not died, every callback the frame is due has already run.  On
\* macOS nil says so only of a frame that has been read to its end.
NilMeansDispatched ==
  \A c \in Conns :
    res[c] = "nil" /\ ~crashed /\ (goos = "linux" \/ rd[c] = Full(c))
      => calls[c] = Due(c, Len(script[c]))

\* inbox.go:14-18, 204-208: no peer pins a handler, however silent.
HandlersEnd == \A c \in Conns : place[c] = "handled" ~> place[c] = "over"

\* serve, inbox.go:170-172: a frame sent whole is dispatched in the end, also
\* when descriptors have run out and Accept fails, unless the Inbox is closed.
SentIsDispatched ==
  \A c \in Conns :
    place[c] = "queued" /\ eof[c] /\ wr[c] = Full(c) /\ Fitting(c)
      ~> calls[c] = Due(c, Len(script[c])) \/ closed \/ crashed

\* Close ends the accept loop, even one that pauses after failures.
ServeStops == closed ~> srv = "exited"
=============================================================================
