------------------------------- MODULE CcSend -------------------------------
(***************************************************************************)
(* cc-send send: sendCmd of cmd/cc-send/main.go, and the session that      *)
(* receives its message and reports back to the Inbox of --wait-receipt.   *)
(*                                                                         *)
(* Receipts of one message come on connections of their own, which the     *)
(* Inbox handles concurrently, so they may overtake each other, and they   *)
(* go to whatever is bound to the socket path of the sender's PID then.    *)
(***************************************************************************)
EXTENDS Naturals, Sequences

CONSTANTS
  Runs,      \* runs of cc-send
  Pids,      \* the PIDs they may get; 0 is none
  Commands,  \* their command lines
  Buffer     \* capacity of the receipts channel

\* One of --session, --pid, --name and --to; --wait-receipt; a --from that is
\* no address; a word that is no flag.
Args == {"target", "wait", "badfrom", "word"}

ASSUME CcSendAssumption == Buffer \in Nat /\ 0 \notin Pids /\ Commands \subseteq Seq(Args)

Receipts == [of : Runs, status : {"held", "denied", "expired", "delivered"}]

VARIABLES
  cmd,     \* the command line of each run
  pid,     \* its PID
  pc,      \* where it is
  chan,    \* its receipts channel
  seen,    \* history: the receipts its OnReceipt has been called with
  exit,    \* its exit code
  fate,    \* what the receiving session has done with its message
  flight   \* receipts sent and not yet handed to an Inbox

vars == <<cmd, pid, pc, chan, seen, exit, fate, flight>>

Init ==
  /\ cmd \in [Runs -> Commands] /\ pid = [i \in Runs |-> 0]
  /\ pc = [i \in Runs |-> "new"] /\ exit = [i \in Runs |-> "none"]
  /\ chan = [i \in Runs |-> <<>>] /\ seen = [i \in Runs |-> {}]
  /\ fate = [i \in Runs |-> "unsent"] /\ flight = {}

-----------------------------------------------------------------------------
(* The run                                                                 *)

\* fs.Parse stops at the first argument that is no flag; it and all that follow
\* are the text.
HasText(i) == \E k \in DOMAIN cmd[i] : cmd[i][k] = "word"
Flag(i, f) == \E k \in DOMAIN cmd[i] : cmd[i][k] = f /\ \A j \in 1..k : cmd[i][j] # "word"
Waits(i) == Flag(i, "wait")

Alive(i) == pc[i] \in {"sending", "waiting"}

\* The Inbox of run i is bound to the path of its PID.
Bound(i) == Alive(i) /\ Waits(i)

\* The process ends, its Inbox closed by the deferred Close.
Leave(i, code) == pc' = [pc EXCEPT ![i] = "gone"] /\ exit' = [exit EXCEPT ![i] = code]

\* The command line is read and the Inbox opened, both of which may fail; while
\* the Send that follows is in progress receipts may come.
Start(i, p) ==
  /\ pc[i] = "new" /\ \A j \in Runs : Alive(j) => pid[j] # p
  /\ pid' = [pid EXCEPT ![i] = p]
  /\ \/ HasText(i) /\ ~Flag(i, "badfrom") /\ pc' = [pc EXCEPT ![i] = "sending"] /\ UNCHANGED exit
     \/ (HasText(i) /\ ~Flag(i, "badfrom") => Waits(i)) /\ Leave(i, "1")
  /\ UNCHANGED <<cmd, chan, seen, fate, flight>>

\* writeFrame has written the frame; the session will read it or never.
WriteFrame(i) ==
  /\ pc[i] = "sending" /\ Flag(i, "target") /\ fate[i] = "unsent"
  /\ fate' = [fate EXCEPT ![i] = "written"]
  /\ UNCHANGED <<cmd, pid, pc, chan, seen, exit, flight>>

\* There is no target, or Send fails, whether or not the session will read the
\* frame.
SendFails(i) ==
  /\ pc[i] = "sending" /\ Leave(i, "1")
  /\ UNCHANGED <<cmd, pid, chan, seen, fate, flight>>

SendReturns(i) ==
  /\ pc[i] = "sending" /\ fate[i] \notin {"unsent", "written"}
  /\ \/ Waits(i) /\ pc' = [pc EXCEPT ![i] = "waiting"] /\ UNCHANGED exit
     \/ ~Waits(i) /\ Leave(i, "0")
  /\ UNCHANGED <<cmd, pid, chan, seen, fate, flight>>

\* Mutant of TakeReceipt: a held receipt ends the wait.
TakeAny(i) ==
  /\ pc[i] = "waiting" /\ chan[i] # <<>>
  /\ Leave(i, IF Head(chan[i]).status \in {"denied", "expired"} THEN "2" ELSE "0")
  /\ chan' = [chan EXCEPT ![i] = Tail(@)]
  /\ UNCHANGED <<cmd, pid, seen, fate, flight>>

\* The receipts arm of the select.
TakeReceipt(i) ==
  /\ pc[i] = "waiting" /\ chan[i] # <<>>
  /\ LET s == Head(chan[i]).status IN
       \/ s = "held" /\ UNCHANGED <<pc, exit>>
       \/ s \in {"denied", "expired"} /\ Leave(i, "2")
       \/ s = "delivered" /\ Leave(i, "0")
  /\ chan' = [chan EXCEPT ![i] = Tail(@)]
  /\ UNCHANGED <<cmd, pid, seen, fate, flight>>

\* Mutant of Deadline: the time is looked at only after a receipt.
DeadlineAfterReceipt(i) ==
  /\ pc[i] = "waiting" /\ seen[i] # {} /\ Leave(i, "3")
  /\ UNCHANGED <<cmd, pid, chan, seen, fate, flight>>

\* The deadline arm, which select may take with a receipt in the channel.
Deadline(i) ==
  /\ pc[i] = "waiting" /\ Leave(i, "3")
  /\ UNCHANGED <<cmd, pid, chan, seen, fate, flight>>

\* A signal ends the process.
Kill(i) ==
  /\ Alive(i) /\ Leave(i, "killed")
  /\ UNCHANGED <<cmd, pid, chan, seen, fate, flight>>

-----------------------------------------------------------------------------
(* The receiving session                                                   *)

\* It reports to the address in the message; without --wait-receipt that is
\* some other inbox, or none.
Report(i, s) ==
  /\ fate' = [fate EXCEPT ![i] = s]
  /\ flight' = IF Waits(i) THEN flight \cup {[of |-> i, status |-> s]} ELSE flight

\* The message is shown at once, with no receipt, or held for the user.
Receive(i) ==
  /\ fate[i] = "written"
  /\ \/ fate' = [fate EXCEPT ![i] = "shown"] /\ UNCHANGED flight
     \/ Report(i, "held")
  /\ UNCHANGED <<cmd, pid, pc, chan, seen, exit>>

Decide(i, s) ==
  /\ fate[i] = "held" /\ Report(i, s)
  /\ UNCHANGED <<cmd, pid, pc, chan, seen, exit>>

\* Mutant of Push: the channel has no buffer.
PushUnbuffered(i, r) ==
  chan' = [chan EXCEPT ![i] = IF pc[i] = "waiting" THEN Append(@, r) ELSE @]

\* OnReceipt: a receipt that finds the channel full is dropped.
Push(i, r) ==
  chan' = [chan EXCEPT ![i] = IF Len(@) < Buffer THEN Append(@, r) ELSE @]

\* A receipt reaches the Inbox on the path of its sender's PID, if there is one.
Arrive(r) ==
  /\ r \in flight /\ flight' = flight \ {r}
  /\ \/ \E i \in Runs :
          /\ pid[i] = pid[r.of] /\ Bound(i)
          /\ Push(i, r) /\ seen' = [seen EXCEPT ![i] = @ \cup {r}]
     \/ /\ \A i \in Runs : pid[i] = pid[r.of] => ~Bound(i)
        /\ UNCHANGED <<chan, seen>>
  /\ UNCHANGED <<cmd, pid, pc, exit, fate>>

-----------------------------------------------------------------------------
Wait(i) == TakeReceipt(i) \/ Deadline(i)

Next ==
  \/ \E i \in Runs :
       \/ \E p \in Pids : Start(i, p)
       \/ WriteFrame(i) \/ SendFails(i) \/ SendReturns(i) \/ Wait(i) \/ Kill(i)
       \/ Receive(i)
       \/ \E s \in {"denied", "expired", "delivered"} : Decide(i, s)
  \/ \E r \in flight : Arrive(r)

Spec == Init /\ [][Next]_vars

\* The wait loop runs and its timer fires; nothing is assumed of the session.
FairSpec == Spec /\ \A i \in Runs : WF_vars(Wait(i))

-----------------------------------------------------------------------------
\* README.md:218-221: exit code 2 tells that the message was denied or expired,
\* and 0 that it was delivered, in whatever order its receipts come.
ExitTells ==
  \A i \in Runs :
    /\ exit[i] = "2" => fate[i] \in {"denied", "expired"}
    /\ exit[i] = "0" /\ Waits(i) => fate[i] = "delivered"

\* sendCmd, main.go:263-284: an exit code that tells a verdict tells that on a
\* message sent under this PID, in whatever order receipts come; so a run whose
\* PID no other run has had tells what became of its own.  Without
\* --wait-receipt, 0 tells that the session has read the frame.
ExitBacked ==
  \A i \in Runs :
    /\ exit[i] = "2" => \E j \in Runs : pid[j] = pid[i] /\ fate[j] \in {"denied", "expired"}
    /\ exit[i] = "0" /\ Waits(i) => \E j \in Runs : pid[j] = pid[i] /\ fate[j] = "delivered"
    /\ exit[i] = "0" /\ ~Waits(i) => fate[i] \notin {"unsent", "written"}

\* main.go:218-230: a receipt is not lost on a run that is still in Send: once
\* the run waits and its channel is empty, no receipt of its own that decides
\* about the message has come.
NoDecisionMissed ==
  \A i \in Runs : pc[i] = "waiting" /\ chan[i] = <<>> =>
    \A r \in seen[i] : r.of = i => r.status = "held"

\* main.go:265-283: the wait ends, whatever the session sends or does not.
WaitEnds == \A i \in Runs : pc[i] = "waiting" ~> pc[i] = "gone"
=============================================================================
