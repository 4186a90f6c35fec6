---------------------------- MODULE CcSendProofs ----------------------------
(***************************************************************************)
(* Proofs about CcSend, for any number of runs, any PIDs, command lines    *)
(* and channel capacity: an exit code that tells a verdict is backed by    *)
(* one, and a verdict that has come is lost only by a channel too small.   *)
(***************************************************************************)
EXTENDS CcSend, FiniteSetTheorems, SequenceTheorems, TLAPS

Verdicts == {"denied", "expired", "delivered"}

Typed ==
  /\ pid \in [Runs -> Pids \cup {0}]
  /\ pc \in [Runs -> {"new", "sending", "waiting", "gone"}]
  /\ chan \in [Runs -> Seq(Receipts)]
  /\ exit \in [Runs -> {"none", "0", "1", "2", "3", "killed"}]
  /\ fate \in [Runs -> {"unsent", "written", "shown", "held"} \cup Verdicts]
  /\ flight \subseteq Receipts

\* A run that has not started has sent nothing, got nothing, and not ended.
Fresh == \A i \in Runs : pc[i] = "new" => fate[i] = "unsent" /\ chan[i] = <<>> /\ exit[i] = "none"

\* A verdict in a receipt is the one the session has come to.
Told(r) == fate[r.of] # "unsent" /\ (r.status \in Verdicts => fate[r.of] = r.status)

\* So it is for receipts on their way, and for those in the channel of a run,
\* which are about messages sent under its PID.
ReceiptsTell ==
  /\ \A r \in flight : Told(r)
  /\ \A i \in Runs : \A k \in DOMAIN chan[i] : Told(chan[i][k]) /\ pid[chan[i][k].of] = pid[i]

\* Only a run with --wait-receipt waits.
WaitOK == \A i \in Runs : pc[i] = "waiting" => Waits(i)

IInv == Typed /\ Fresh /\ WaitOK /\ ReceiptsTell /\ ExitBacked

\* The invariant holds before any run starts.
LEMMA InitIInv == Init => IInv
<1> SUFFICES ASSUME Init PROVE IInv
  OBVIOUS
<1>1. Typed
  BY DEF Init, Typed, Receipts
<1>2. Fresh
  BY DEF Init, Fresh
<1>3. ReceiptsTell
  BY DEF Init, ReceiptsTell
<1>4. ExitBacked
  BY DEF Init, ExitBacked
<1>5. WaitOK
  BY DEF Init, WaitOK
<1> QED BY <1>1, <1>2, <1>3, <1>4, <1>5 DEF IInv

\* The command line of a run does not change.
LEMMA SameWaits == ASSUME UNCHANGED cmd, NEW i \in Runs PROVE Waits(i)' <=> Waits(i)
BY DEF Waits, Flag

\* What no step undoes: the PID of a run that has started, a message sent, read
\* or decided about.
Lasting ==
  /\ \A j \in Runs : pc[j] # "new" => pid'[j] = pid[j]
  /\ \A j \in Runs : fate[j] # "unsent" => fate'[j] # "unsent"
  /\ \A j \in Runs : fate[j] \notin {"unsent", "written"} => fate'[j] \notin {"unsent", "written"}
  /\ \A j \in Runs : fate[j] \in Verdicts => fate'[j] = fate[j]

\* Receipts go on telling what they told, if those added to a channel come from
\* flight and are about a message sent under the PID of the run.
LEMMA KeptReceipts ==
  ASSUME Typed, Fresh, ReceiptsTell, Lasting,
         \A r \in flight' : r \in flight \/ (r \in Receipts /\ Told(r)'),
         \A i \in Runs : \A k \in DOMAIN chan'[i] :
           \/ \E l \in DOMAIN chan[i] : chan'[i][k] = chan[i][l]
           \/ /\ pc[i] # "new"
              /\ chan'[i][k] \in flight /\ pid[chan'[i][k].of] = pid[i]
  PROVE  ReceiptsTell'
<1>1. ASSUME NEW r \in Receipts, Told(r)
      PROVE  Told(r)' /\ pid'[r.of] = pid[r.of]
  BY <1>1 DEF Told, Receipts, Fresh, Lasting
<1>2. flight \subseteq Receipts /\ \A i \in Runs : \A k \in DOMAIN chan[i] : chan[i][k] \in Receipts
  BY DEF Typed
<1>3. ASSUME NEW r \in flight' PROVE Told(r)'
  BY <1>1, <1>2, <1>3 DEF ReceiptsTell
<1>4. ASSUME NEW i \in Runs, NEW k \in DOMAIN chan'[i]
      PROVE  Told(chan[i][k])' /\ pid'[chan'[i][k].of] = pid'[i]
  <2>1. \E r \in Receipts : chan'[i][k] = r /\ Told(r) /\ pid[r.of] = pid[i] /\ pc[i] # "new"
    <3>1. CASE \E l \in DOMAIN chan[i] : chan'[i][k] = chan[i][l]
      <4> PICK l \in DOMAIN chan[i] : chan'[i][k] = chan[i][l]
        BY <3>1
      <4>1. pc[i] # "new"
        BY DEF Fresh, Typed
      <4> QED BY <1>2, <4>1 DEF ReceiptsTell
    <3>2. CASE pc[i] # "new" /\ chan'[i][k] \in flight /\ pid[chan'[i][k].of] = pid[i]
      BY <1>2, <3>2 DEF ReceiptsTell
    <3> QED BY <3>1, <3>2
  <2> PICK r \in Receipts : chan'[i][k] = r /\ Told(r) /\ pid[r.of] = pid[i] /\ pc[i] # "new"
    BY <2>1
  <2>2. Told(r)' /\ pid'[r.of] = pid[r.of] /\ pid'[i] = pid[i]
    BY <1>1 DEF Lasting
  <2> QED BY <2>2 DEF Told
<1> QED BY <1>3, <1>4 DEF ReceiptsTell

\* Exit codes go on being backed, if those given now are.
LEMMA KeptExits ==
  ASSUME Typed, Fresh, ExitBacked, Lasting, UNCHANGED cmd,
         \A i \in Runs :
           \/ exit'[i] = exit[i]
           \/ exit'[i] \notin {"0", "2"}
           \/ exit'[i] = "0" /\ ~Waits(i) /\ fate'[i] \notin {"unsent", "written"}
           \/ /\ exit'[i] \in {"0", "2"} /\ Waits(i)
              /\ \E j \in Runs : /\ pid'[j] = pid'[i]
                                 /\ exit'[i] = "2" => fate'[j] \in {"denied", "expired"}
                                 /\ exit'[i] = "0" => fate'[j] = "delivered"
  PROVE  ExitBacked'
<1>1. ASSUME NEW i \in Runs PROVE Waits(i)' <=> Waits(i)
  BY DEF Waits, Flag
<1>2. ASSUME NEW i \in Runs, exit'[i] = exit[i], exit[i] # "none"
      PROVE  /\ exit[i] = "2" =>
                  \E j \in Runs : pid'[j] = pid'[i] /\ fate'[j] \in {"denied", "expired"}
             /\ exit[i] = "0" /\ Waits(i) =>
                  \E j \in Runs : pid'[j] = pid'[i] /\ fate'[j] = "delivered"
             /\ exit[i] = "0" /\ ~Waits(i) => fate'[i] \notin {"unsent", "written"}
  <2>1. pid'[i] = pid[i]
    BY <1>2 DEF Fresh, Lasting
  <2>2. \A j \in Runs : fate[j] \in Verdicts => pid'[j] = pid[j] /\ fate'[j] = fate[j]
    BY DEF Fresh, Lasting, Verdicts
  <2> QED BY <2>1, <2>2 DEF ExitBacked, Lasting, Verdicts
<1> QED BY <1>1, <1>2 DEF ExitBacked, Typed

\* A step that touches neither flight nor a channel.
LEMMA QuietStep ==
  ASSUME IInv, Typed', Fresh', WaitOK', Lasting, UNCHANGED <<cmd, chan, flight>>,
         \A i \in Runs : \/ exit'[i] = exit[i]
                         \/ exit'[i] \notin {"0", "2"}
                         \/ exit'[i] = "0" /\ ~Waits(i) /\ fate'[i] \notin {"unsent", "written"}
  PROVE  IInv'
<1>1. ReceiptsTell'
  BY KeptReceipts DEF IInv
<1>2. ExitBacked'
  BY KeptExits DEF IInv
<1> QED BY <1>1, <1>2 DEF IInv

\* The steps of a run that take no receipt.
LEMMA RunInv ==
  ASSUME IInv, NEW i \in Runs,
         \/ \E p \in Pids : Start(i, p)
         \/ WriteFrame(i) \/ SendFails(i) \/ SendReturns(i) \/ Deadline(i) \/ Kill(i)
  PROVE  IInv'
<1> USE DEF IInv, Start, WriteFrame, SendFails, SendReturns, Deadline, Kill, Leave, Alive
<1>1. UNCHANGED <<cmd, chan, flight>> /\ \A j \in Runs : Waits(j)' <=> Waits(j)
  BY SameWaits
<1>2. /\ \A j \in Runs \ {i} :
           pid'[j] = pid[j] /\ pc'[j] = pc[j] /\ exit'[j] = exit[j] /\ fate'[j] = fate[j]
      /\ pid' \in [Runs -> Pids \cup {0}]
  <2>1. CASE \E p \in Pids : Start(i, p)
    <3> PICK p \in Pids : Start(i, p)
      BY <2>1
    <3>1. pid' = [pid EXCEPT ![i] = p] /\ fate' = fate
      OBVIOUS
    <3>2. \A j \in Runs \ {i} : pc'[j] = pc[j] /\ exit'[j] = exit[j]
      BY DEF Typed
    <3> QED BY <3>1, <3>2 DEF Typed
  <2>2. CASE WriteFrame(i) \/ SendFails(i) \/ SendReturns(i)
    BY <2>2 DEF Typed
  <2>3. CASE Deadline(i) \/ Kill(i)
    BY <2>3 DEF Typed
  <2> QED BY <2>1, <2>2, <2>3
<1>3. /\ pc' \in [Runs -> {"new", "sending", "waiting", "gone"}] /\ pc'[i] # "new"
      /\ pc[i] = "new" \/ pid'[i] = pid[i]
      /\ pc'[i] = "waiting" => pc[i] = "waiting" \/ Waits(i)
  BY DEF Typed
<1>4. /\ fate' \in [Runs -> {"unsent", "written", "shown", "held"} \cup Verdicts]
      /\ fate' = fate \/ (fate[i] = "unsent" /\ fate'[i] = "written")
  BY DEF Typed
<1>5. /\ exit' \in [Runs -> {"none", "0", "1", "2", "3", "killed"}]
      /\ \/ exit'[i] = exit[i]
         \/ exit'[i] \notin {"0", "2"}
         \/ exit'[i] = "0" /\ ~Waits(i) /\ fate'[i] \notin {"unsent", "written"}
  BY DEF Typed
<1>6. Typed' /\ Fresh'
  BY <1>1, <1>2, <1>3, <1>4, <1>5 DEF Typed, Fresh
<1>7. WaitOK'
  BY <1>1, <1>2, <1>3 DEF WaitOK
<1>8. Lasting
  BY <1>2, <1>3, <1>4 DEF Lasting, Verdicts
<1>9. \A j \in Runs : \/ exit'[j] = exit[j]
                      \/ exit'[j] \notin {"0", "2"}
                      \/ exit'[j] = "0" /\ ~Waits(j) /\ fate'[j] \notin {"unsent", "written"}
  <2> TAKE j \in Runs
  <2>1. CASE j = i
    BY <1>5, <2>1
  <2>2. CASE j # i
    BY <1>2, <2>2
  <2> QED BY <2>1, <2>2
<1>10. IInv
  OBVIOUS
<1> HIDE DEF IInv
<1> QED BY <1>1, <1>6, <1>7, <1>8, <1>9, <1>10, QuietStep

\* A receipt with a verdict ends the wait.
LEMMA TakeInv == ASSUME IInv, NEW i \in Runs, TakeReceipt(i) PROVE IInv'
<1> USE DEF IInv, TakeReceipt, Leave
<1>1. /\ chan[i] \in Seq(Receipts) /\ chan[i] # <<>> /\ Tail(chan[i]) \in Seq(Receipts)
      /\ Head(chan[i]) \in Receipts /\ Head(chan[i]) = chan[i][1] /\ 1 \in DOMAIN chan[i]
      /\ \A k \in DOMAIN Tail(chan[i]) :
           k + 1 \in DOMAIN chan[i] /\ Tail(chan[i])[k] = chan[i][k + 1]
  BY HeadTailProperties DEF Typed
<1>2. Typed'
  BY <1>1 DEF Typed
<1>3. Fresh'
  BY <1>1 DEF Typed, Fresh
<1>4. WaitOK'
  BY SameWaits DEF Typed, WaitOK
<1>5. Lasting
  BY DEF Lasting
<1>6. ReceiptsTell'
  BY <1>1, <1>5, KeptReceipts DEF Typed
<1>7. ExitBacked'
  <2> DEFINE r == Head(chan[i])
  <2>1. r.of \in Runs /\ Told(r) /\ pid[r.of] = pid[i] /\ Waits(i)
    BY <1>1 DEF ReceiptsTell, WaitOK, Receipts
  <2>2. exit'[i] = exit[i] \/ (exit'[i] = "2" /\ fate[r.of] \in {"denied", "expired"})
        \/ (exit'[i] = "0" /\ fate[r.of] = "delivered")
    BY <2>1 DEF Typed, Told, Verdicts
  <2>3. \A j \in Runs \ {i} : exit'[j] = exit[j]
    BY DEF Typed
  <2> QED BY <1>5, <2>1, <2>2, <2>3, KeptExits
<1> QED BY <1>2, <1>3, <1>4, <1>6, <1>7

\* The session reads a message, and decides about one it holds.
LEMMA SessionInv ==
  ASSUME IInv, NEW i \in Runs,
         Receive(i) \/ \E s \in {"denied", "expired", "delivered"} : Decide(i, s)
  PROVE  IInv'
<1> USE DEF IInv, Receive, Decide, Report
<1>1. \E s \in {"shown", "held"} \cup Verdicts :
        /\ fate' = [fate EXCEPT ![i] = s] /\ fate[i] \in {"written", "held"}
        /\ \/ flight' = flight
           \/ flight' = flight \cup {[of |-> i, status |-> s]} /\ s # "shown"
  <2>1. CASE Receive(i)
    <3>1. \/ fate' = [fate EXCEPT ![i] = "shown"] /\ flight' = flight
          \/ Report(i, "held")
      BY <2>1
    <3> QED BY <2>1, <3>1
  <2>2. ASSUME NEW s \in {"denied", "expired", "delivered"}, Decide(i, s)
        PROVE  <1>1!:
    <3>1. s \in Verdicts /\ s # "shown"
      BY DEF Verdicts
    <3> QED BY <2>2, <3>1
  <2> QED BY <2>1, <2>2
<1> PICK s \in {"shown", "held"} \cup Verdicts :
        /\ fate' = [fate EXCEPT ![i] = s] /\ fate[i] \in {"written", "held"}
        /\ \/ flight' = flight
           \/ flight' = flight \cup {[of |-> i, status |-> s]} /\ s # "shown"
  BY <1>1
<1>2. UNCHANGED <<cmd, pid, pc, chan, seen, exit>>
  OBVIOUS
<1>3. fate'[i] = s /\ \A j \in Runs \ {i} : fate'[j] = fate[j]
  BY DEF Typed
<1>4. Typed'
  BY <1>2 DEF Typed, Receipts, Verdicts
<1>5. Fresh' /\ WaitOK'
  BY <1>2, <1>3, SameWaits DEF Fresh, WaitOK
<1>6. Lasting
  BY <1>2, <1>3 DEF Lasting, Verdicts
<1>7. \A r \in flight' : r \in flight \/ (r \in Receipts /\ Told(r)')
  <2>1. ASSUME NEW r \in flight', r \notin flight PROVE r \in Receipts /\ Told(r)'
    <3>1. r = [of |-> i, status |-> s] /\ s # "shown"
      BY <2>1
    <3> QED BY <1>3, <3>1 DEF Receipts, Told, Verdicts
  <2> QED BY <2>1
<1>8. ReceiptsTell'
  BY <1>2, <1>6, <1>7, KeptReceipts
<1>9. ExitBacked'
  BY <1>2, <1>6, KeptExits
<1> QED BY <1>4, <1>5, <1>8, <1>9

\* A receipt is put into the channel of a run with the PID of the one it is about.
LEMMA ArriveInv == ASSUME IInv, NEW r \in flight, Arrive(r) PROVE IInv'
<1> USE DEF IInv, Arrive
<1>1. r \in Receipts /\ flight' \subseteq flight /\ UNCHANGED <<cmd, pid, pc, exit, fate>>
  BY DEF Typed
<1>2. Lasting
  BY <1>1 DEF Lasting
<1>3. ExitBacked' /\ WaitOK'
  BY <1>1, <1>2, SameWaits, KeptExits DEF WaitOK
<1>4. CASE chan' = chan
  <2>1. Typed' /\ Fresh'
    BY <1>1, <1>4 DEF Typed, Fresh
  <2>2. ReceiptsTell'
    BY <1>1, <1>2, <1>4, KeptReceipts
  <2> QED BY <1>3, <2>1, <2>2
<1>5. ASSUME NEW i \in Runs, pid[i] = pid[r.of], Bound(i), Push(i, r)
      PROVE  IInv'
  <2>1. chan[i] \in Seq(Receipts) /\ Append(chan[i], r) \in Seq(Receipts)
    BY <1>1 DEF Typed
  <2>2. \A k \in DOMAIN Append(chan[i], r) :
          \/ k \in DOMAIN chan[i] /\ Append(chan[i], r)[k] = chan[i][k]
          \/ Append(chan[i], r)[k] = r
    BY <1>1, <2>1
  <2>3. Typed' /\ Fresh'
    BY <1>1, <1>5, <2>1 DEF Typed, Fresh, Push, Bound, Alive
  <2>4. \A j \in Runs : \A k \in DOMAIN chan'[j] :
          \/ \E l \in DOMAIN chan[j] : chan'[j][k] = chan[j][l]
          \/ pc[j] # "new" /\ chan'[j][k] \in flight /\ pid[chan'[j][k].of] = pid[j]
    BY <1>5, <2>1, <2>2 DEF Typed, Push, Bound, Alive
  <2>5. ReceiptsTell'
    BY <1>1, <1>2, <2>4, KeptReceipts
  <2> QED BY <1>3, <2>3, <2>5
<1> QED BY <1>4, <1>5

\* The invariant is inductive: one step per action.
LEMMA StepIInv == IInv /\ [Next]_vars => IInv'
<1> SUFFICES ASSUME IInv, [Next]_vars PROVE IInv'
  OBVIOUS
<1>1. ASSUME NEW i \in Runs,
             \/ \E p \in Pids : Start(i, p)
             \/ WriteFrame(i) \/ SendFails(i) \/ SendReturns(i) \/ Wait(i) \/ Kill(i)
             \/ Receive(i)
             \/ \E s \in {"denied", "expired", "delivered"} : Decide(i, s)
      PROVE  IInv'
  BY <1>1, RunInv, TakeInv, SessionInv DEF Wait
<1>2. ASSUME NEW r \in flight, Arrive(r)
      PROVE  IInv'
  BY <1>2, ArriveInv
<1>3. CASE UNCHANGED vars
  BY <1>3 DEF vars, IInv, Typed, Fresh, WaitOK, Waits, Flag, ReceiptsTell, Told, ExitBacked
<1> QED BY <1>1, <1>2, <1>3 DEF Next

\* An exit code that tells a verdict is backed by the verdict on a message sent
\* under the same PID, in whatever order the receipts come.
THEOREM VerdictIsBacked == Spec => []ExitBacked
<1>1. IInv => ExitBacked
  BY DEF IInv
<1> QED BY <1>1, InitIInv, StepIInv, PTL DEF Spec

-----------------------------------------------------------------------------
(* A verdict is lost only on a run whose channel has been full.            *)

\* A receipt has been sent, for which its message must have come that far.
Came(r) ==
  /\ r.status = "held" => fate[r.of] \in {"held"} \cup Verdicts
  /\ r.status \in Verdicts => fate[r.of] = r.status

\* No receipt comes twice, so a channel holds no more than have been seen; those
\* are about messages sent under the PID of the run.
SeenOK ==
  /\ seen \in [Runs -> SUBSET Receipts]
  /\ \A r \in flight : Came(r)
  /\ \A i \in Runs :
       /\ pc[i] = "new" => seen[i] = {}
       /\ \A r \in seen[i] : Came(r) /\ r \notin flight /\ pid[r.of] = pid[i]
       /\ IsFiniteSet(seen[i]) /\ Len(chan[i]) <= Cardinality(seen[i])

\* The receipts that have come are more than the channel holds.
Overflow(i) == Cardinality(seen[i]) > Buffer

\* A verdict that a run in progress has seen is in its channel.
VerdictsKept ==
  \A i \in Runs : Alive(i) /\ ~Overflow(i) =>
    \A r \in seen[i] : r.status \in Verdicts => \E k \in DOMAIN chan[i] : chan[i][k] = r

KInv == IInv /\ SeenOK /\ VerdictsKept

\* No receipt has come before any run starts.
LEMMA InitKInv == Init => KInv
<1> SUFFICES ASSUME Init PROVE KInv
  OBVIOUS
<1>1. SeenOK
  BY FS_EmptySet DEF Init, SeenOK
<1>2. VerdictsKept
  BY DEF Init, VerdictsKept
<1> QED BY <1>1, <1>2, InitIInv DEF KInv

\* What a message has come to, it has come to for good, so a receipt sent stays
\* one that could be sent.
LEMMA CameLasts ==
  ASSUME Typed, NEW r \in Receipts, Came(r),
         \A j \in Runs : \/ fate'[j] = fate[j]
                         \/ fate[j] \in {"unsent", "written"}
                         \/ fate[j] = "held" /\ fate'[j] \in Verdicts
  PROVE  Came(r)'
BY DEF Came, Receipts, Verdicts

\* Steps that neither send a receipt nor hand one over.
LEMMA RunKInv ==
  ASSUME KInv, IInv', NEW i \in Runs,
         \/ \E p \in Pids : Start(i, p)
         \/ WriteFrame(i) \/ SendFails(i) \/ SendReturns(i) \/ Deadline(i) \/ Kill(i)
  PROVE  KInv'
<1> USE DEF KInv, IInv
<1>1. UNCHANGED <<seen, chan, flight>>
  BY DEF Start, WriteFrame, SendFails, SendReturns, Deadline, Kill
<1>2. \A j \in Runs : fate'[j] = fate[j] \/ fate[j] \in {"unsent", "written"}
  BY DEF Start, WriteFrame, SendFails, SendReturns, Deadline, Kill, Typed
<1>3. \A j \in Runs : (pc'[j] = "new" => pc[j] = "new") /\ (Alive(j)' => Alive(j) \/ pc[j] = "new")
  BY DEF Start, WriteFrame, SendFails, SendReturns, Deadline, Kill, Leave, Alive, Typed
<1>4. SeenOK'
  <2>1. flight \subseteq Receipts /\ \A j \in Runs : seen[j] \subseteq Receipts
    BY DEF Typed, SeenOK
  <2>2. \A q \in Receipts : Came(q) => Came(q)'
    BY <1>2, CameLasts
  <2>3. \A j \in Runs : pc[j] # "new" => pid'[j] = pid[j]
    BY DEF Start, WriteFrame, SendFails, SendReturns, Deadline, Kill, Alive, Typed
  <2>4. ASSUME NEW j \in Runs, NEW q \in seen[j] PROVE pid'[q.of] = pid'[j]
    <3>1. q \in Receipts /\ Came(q) /\ pid[q.of] = pid[j] /\ pc[j] # "new"
      BY <2>1 DEF SeenOK
    <3>2. q.of \in Runs /\ pc[q.of] # "new"
      BY <3>1 DEF Fresh, Came, Receipts, Verdicts
    <3> QED BY <2>3, <3>1, <3>2
  <2> QED BY <1>1, <1>3, <2>1, <2>2, <2>4 DEF SeenOK
<1>5. VerdictsKept'
  BY <1>1, <1>3 DEF VerdictsKept, SeenOK, Overflow
<1> QED BY <1>4, <1>5

\* The run takes a receipt, and goes on only if it is no verdict.
LEMMA TakeKInv == ASSUME KInv, IInv', NEW i \in Runs, TakeReceipt(i) PROVE KInv'
<1> USE DEF KInv, IInv, TakeReceipt, Leave
<1>1. /\ chan[i] \in Seq(Receipts) /\ Len(Tail(chan[i])) = Len(chan[i]) - 1
      /\ Head(chan[i]) = chan[i][1] /\ Len(chan[i]) \in Nat /\ DOMAIN chan[i] = 1..Len(chan[i])
      /\ DOMAIN Tail(chan[i]) = 1..(Len(chan[i]) - 1)
      /\ \A k \in 1..(Len(chan[i]) - 1) : Tail(chan[i])[k] = chan[i][k + 1]
  BY HeadTailProperties DEF Typed
<1>2. /\ UNCHANGED <<seen, flight, fate>> /\ chan'[i] = Tail(chan[i])
      /\ \A j \in Runs \ {i} : chan'[j] = chan[j] /\ pc'[j] = pc[j]
      /\ pc[i] = "waiting" /\ pc'[i] \in {"waiting", "gone"}
      /\ pc'[i] = "waiting" => Head(chan[i]).status = "held"
  BY DEF Typed
<1>3. SeenOK'
  <2>1. \A j \in Runs : Cardinality(seen[j]) \in Nat /\ Len(chan[j]) \in Nat
    BY FS_CardinalityType DEF SeenOK, Typed
  <2>2. \A j \in Runs : Len(chan'[j]) <= Cardinality(seen[j])
    BY <1>1, <1>2, <2>1 DEF SeenOK
  <2> QED BY <1>2, <2>2 DEF SeenOK, Came
<1>4. VerdictsKept'
  <2> SUFFICES ASSUME NEW j \in Runs, Alive(j)', ~Overflow(j)',
                      NEW r \in seen[j], r.status \in Verdicts
               PROVE  \E k \in DOMAIN chan'[j] : chan'[j][k] = r
    BY <1>2 DEF VerdictsKept
  <2>1. Alive(j) /\ ~Overflow(j)
    BY <1>2 DEF Alive, Overflow
  <2> PICK k \in DOMAIN chan[j] : chan[j][k] = r
    BY <2>1 DEF VerdictsKept
  <2>2. CASE j # i
    BY <1>2, <2>2
  <2>3. CASE j = i
    <3>1. k # 1 /\ k \in 1..Len(chan[i])
      BY <1>1, <1>2, <2>3 DEF Alive, Verdicts
    <3>2. k - 1 \in 1..(Len(chan[i]) - 1) /\ (k - 1) + 1 = k
      BY <1>1, <3>1
    <3> QED BY <1>1, <1>2, <2>3, <3>2
  <2> QED BY <2>2, <2>3
<1> QED BY <1>3, <1>4

\* The session sends a receipt that has not come anywhere yet.
LEMMA SessionKInv ==
  ASSUME KInv, IInv', NEW i \in Runs,
         Receive(i) \/ \E s \in {"denied", "expired", "delivered"} : Decide(i, s)
  PROVE  KInv'
<1> USE DEF KInv, IInv
<1>1. UNCHANGED <<cmd, pid, pc, chan, seen, exit>>
  BY DEF Receive, Decide
<1>2. \E s \in {"shown", "held"} \cup Verdicts :
        /\ fate' = [fate EXCEPT ![i] = s]
        /\ fate[i] = "written" \/ (fate[i] = "held" /\ s \in Verdicts)
        /\ \/ flight' = flight
           \/ flight' = flight \cup {[of |-> i, status |-> s]} /\ s # "shown"
  <2>1. CASE Receive(i)
    <3>1. \/ fate' = [fate EXCEPT ![i] = "shown"] /\ flight' = flight
          \/ Report(i, "held")
      BY <2>1 DEF Receive
    <3> QED BY <2>1, <3>1 DEF Receive, Report
  <2>2. ASSUME NEW s \in {"denied", "expired", "delivered"}, Decide(i, s)
        PROVE  <1>2!:
    <3>1. s \in Verdicts /\ s # "shown"
      BY DEF Verdicts
    <3> QED BY <2>2, <3>1 DEF Decide, Report
  <2> QED BY <2>1, <2>2
<1> PICK s \in {"shown", "held"} \cup Verdicts :
        /\ fate' = [fate EXCEPT ![i] = s]
        /\ fate[i] = "written" \/ (fate[i] = "held" /\ s \in Verdicts)
        /\ \/ flight' = flight
           \/ flight' = flight \cup {[of |-> i, status |-> s]} /\ s # "shown"
  BY <1>2
<1>3. fate'[i] = s /\ \A j \in Runs \ {i} : fate'[j] = fate[j]
  BY DEF Typed
<1>4. flight \subseteq Receipts /\ \A j \in Runs : seen[j] \subseteq Receipts
  BY DEF Typed, SeenOK
<1>5. \A q \in Receipts : Came(q) => Came(q)'
  BY <1>3, CameLasts
<1>6. ASSUME NEW q \in flight', q \notin flight
      PROVE  ~Came(q) /\ Came(q)'
  <2>1. q = [of |-> i, status |-> s] /\ s # "shown"
    BY <1>6
  <2>2. q.of = i /\ q.status = s /\ s \in {"held"} \cup Verdicts
    BY <2>1
  <2> QED BY <1>3, <2>2 DEF Came, Verdicts
<1>7. SeenOK'
  <2>1. \A q \in flight' : Came(q)'
    BY <1>4, <1>5, <1>6 DEF SeenOK
  <2>2. ASSUME NEW j \in Runs, NEW q \in seen[j] PROVE Came(q)' /\ q \notin flight'
    BY <1>4, <1>5, <1>6, <2>2 DEF SeenOK
  <2> QED BY <1>1, <2>1, <2>2 DEF SeenOK
<1>8. VerdictsKept'
  BY <1>1 DEF VerdictsKept, Alive, Overflow
<1> QED BY <1>7, <1>8

\* A receipt that comes is new to the run; only if as many have come as the
\* channel holds may it find it full.
LEMMA ArriveKInv == ASSUME KInv, IInv', NEW r \in flight, Arrive(r) PROVE KInv'
<1> USE DEF KInv, IInv
<1>1. /\ r \in Receipts /\ flight' = flight \ {r} /\ UNCHANGED <<cmd, pid, pc, exit, fate>>
      /\ \A q : Came(q)' <=> Came(q)
  BY DEF Arrive, Typed, Came
<1>2. CASE UNCHANGED <<chan, seen>>
  <2>1. SeenOK'
    BY <1>1, <1>2 DEF SeenOK
  <2>2. VerdictsKept'
    BY <1>1, <1>2 DEF VerdictsKept, Alive, Overflow
  <2> QED BY <2>1, <2>2
<1>3. ASSUME NEW i \in Runs, pid[i] = pid[r.of], Bound(i),
             Push(i, r), seen' = [seen EXCEPT ![i] = @ \cup {r}]
      PROVE  KInv'
  <2>1. /\ seen'[i] = seen[i] \cup {r} /\ r \notin seen[i] /\ seen[i] \subseteq Receipts
        /\ \A j \in Runs \ {i} : seen'[j] = seen[j] /\ chan'[j] = chan[j]
    BY <1>3 DEF SeenOK, Push, Typed
  <2>2. /\ IsFiniteSet(seen'[i]) /\ Cardinality(seen'[i]) = Cardinality(seen[i]) + 1
        /\ Cardinality(seen[i]) \in Nat
    BY <2>1, FS_AddElement, FS_CardinalityType DEF SeenOK
  <2>3. chan[i] \in Seq(Receipts) /\ Len(chan[i]) \in Nat /\ Buffer \in Nat
        /\ Len(chan[i]) <= Cardinality(seen[i])
    BY CcSendAssumption DEF Typed, SeenOK
  <2>4. \/ /\ chan'[i] = Append(chan[i], r) /\ Len(chan'[i]) = Len(chan[i]) + 1
           /\ chan'[i][Len(chan[i]) + 1] = r /\ Len(chan[i]) + 1 \in DOMAIN chan'[i]
           /\ \A k \in DOMAIN chan[i] : k \in DOMAIN chan'[i] /\ chan'[i][k] = chan[i][k]
        \/ /\ chan'[i] = chan[i] /\ Len(chan[i]) >= Buffer
    <3>1. CASE Len(chan[i]) < Buffer
      <4>1. chan'[i] = Append(chan[i], r)
        BY <1>3, <3>1 DEF Push, Typed
      <4> QED BY <1>1, <2>3, <4>1
    <3>2. CASE ~(Len(chan[i]) < Buffer)
      BY <1>3, <2>3, <3>2 DEF Push, Typed
    <3> QED BY <3>1, <3>2
  <2>5. SeenOK'
    <3>1. \A j \in Runs : IsFiniteSet(seen'[j]) /\ Len(chan'[j]) <= Cardinality(seen'[j])
      <4>1. Len(chan'[i]) <= Cardinality(seen'[i])
        BY <2>2, <2>3, <2>4
      <4> QED BY <2>1, <2>2, <4>1 DEF SeenOK
    <3>2. seen' \in [Runs -> SUBSET Receipts]
      BY <1>1, <1>3 DEF SeenOK
    <3>3. \A j \in Runs : pc'[j] = "new" => seen'[j] = {}
      BY <1>1, <1>3, <2>1 DEF SeenOK, Bound, Alive
    <3>4. \A j \in Runs : \A q \in seen'[j] : Came(q) /\ q \notin flight' /\ pid[q.of] = pid[j]
      BY <1>1, <1>3, <2>1 DEF SeenOK
    <3>5. \A q \in flight' : Came(q)
      BY <1>1 DEF SeenOK
    <3> QED BY <1>1, <3>1, <3>2, <3>3, <3>4, <3>5 DEF SeenOK
  <2>6. VerdictsKept'
    <3> SUFFICES ASSUME NEW j \in Runs, Alive(j), ~Overflow(j)',
                        NEW q \in seen'[j], q.status \in Verdicts
                 PROVE  \E k \in DOMAIN chan'[j] : chan'[j][k] = q
      BY <1>1 DEF VerdictsKept, Alive
    <3>1. CASE j # i
      BY <2>1, <3>1 DEF VerdictsKept, Overflow
    <3>2. CASE j = i
      <4>1. Cardinality(seen[i]) + 1 <= Buffer
        BY <2>2, <2>3, <3>2 DEF Overflow
      <4>2. ~Overflow(i) /\ Len(chan[i]) < Buffer
        BY <2>2, <2>3, <4>1 DEF Overflow
      <4>3. CASE q = r
        BY <2>3, <2>4, <3>2, <4>2, <4>3
      <4>4. CASE q \in seen[i]
        <5> PICK k \in DOMAIN chan[i] : chan[i][k] = q
          BY <3>2, <4>2, <4>4 DEF VerdictsKept
        <5> QED BY <2>3, <2>4, <3>2, <4>2
      <4> QED BY <2>1, <3>2, <4>3, <4>4
    <3> QED BY <3>1, <3>2
  <2> QED BY <2>5, <2>6
<1> QED BY <1>2, <1>3 DEF Arrive

\* The invariant is inductive.
LEMMA StepKInv == KInv /\ [Next]_vars => KInv'
<1> SUFFICES ASSUME KInv, [Next]_vars PROVE KInv'
  OBVIOUS
<1>1. IInv'
  BY StepIInv DEF KInv
<1>2. ASSUME NEW i \in Runs,
             \/ \E p \in Pids : Start(i, p)
             \/ WriteFrame(i) \/ SendFails(i) \/ SendReturns(i) \/ Wait(i) \/ Kill(i)
             \/ Receive(i)
             \/ \E s \in {"denied", "expired", "delivered"} : Decide(i, s)
      PROVE  KInv'
  BY <1>1, <1>2, RunKInv, TakeKInv, SessionKInv DEF Wait
<1>3. ASSUME NEW r \in flight, Arrive(r)
      PROVE  KInv'
  BY <1>1, <1>3, ArriveKInv
<1>4. CASE UNCHANGED vars
  <2>1. SeenOK'
    BY <1>4 DEF vars, KInv, SeenOK, Came
  <2>2. VerdictsKept'
    BY <1>4 DEF vars, KInv, VerdictsKept, Alive, Overflow
  <2> QED BY <1>1, <2>1, <2>2 DEF KInv
<1> QED BY <1>2, <1>3, <1>4 DEF Next

\* A run that waits on an empty channel has missed a verdict only if more
\* receipts have come than the channel holds, whoever they were about and in
\* whatever order they came.
MissedOnlyByOverflow ==
  \A i \in Runs : pc[i] = "waiting" /\ chan[i] = <<>> /\ ~Overflow(i) =>
    \A r \in seen[i] : r.status = "held"

\* The receipts arm of the select and OnReceipt's push lose nothing but by that.
THEOREM LostOnlyByOverflow == Spec => []MissedOnlyByOverflow
<1>1. KInv => MissedOnlyByOverflow
  BY DEF KInv, SeenOK, VerdictsKept, MissedOnlyByOverflow, Alive, Receipts, Verdicts
<1> QED BY <1>1, InitKInv, StepKInv, PTL DEF Spec

\* The runs that have had the PID of run i, itself among them.
Sharing(i) == {j \in Runs : pid[j] = pid[i]}

\* A run sees at most two receipts of each of their messages: that it is held,
\* and what becomes of it.
LEMMA AtMostTwo ==
  ASSUME KInv, NEW i \in Runs, IsFiniteSet(Sharing(i))
  PROVE  Cardinality(seen[i]) <= 2 * Cardinality(Sharing(i))
<1> DEFINE Kinds == {"held", "decided"}
           f == [r \in seen[i] |-> <<r.of, IF r.status = "held" THEN "held" ELSE "decided">>]
<1>1. f \in Injection(seen[i], Sharing(i) \X Kinds)
  <2>1. \A r \in seen[i] : /\ r \in Receipts /\ Came(r) /\ r.of \in Sharing(i)
                           /\ r = [of |-> r.of, status |-> r.status]
                           /\ r.status = "held" \/ r.status \in Verdicts
    BY DEF KInv, SeenOK, Receipts, Verdicts, Sharing
  <2>2. f \in [seen[i] -> Sharing(i) \X Kinds]
    BY <2>1
  <2>3. ASSUME NEW q \in seen[i], NEW r \in seen[i], f[q] = f[r] PROVE q = r
    <3>1. q.of = r.of /\ (q.status = "held" <=> r.status = "held")
      BY <2>3
    <3>2. q.status = r.status
      BY <2>1, <3>1 DEF Came
    <3> QED BY <2>1, <3>1, <3>2
  <2> QED BY <2>2, <2>3 DEF Injection, IsInjective
<1>2. IsFiniteSet(Kinds) /\ Cardinality(Kinds) = 2
  <2>1. Kinds = {"held"} \cup {"decided"} /\ "decided" \notin {"held"}
    OBVIOUS
  <2>2. IsFiniteSet({"held"}) /\ Cardinality({"held"}) = 1
    BY FS_Singleton
  <2> DEFINE K == {"held"}
             x == "decided"
  <2>3. IsFiniteSet(K) /\ Cardinality(K) = 1 /\ x \notin K /\ Kinds = K \cup {x}
    BY <2>1, <2>2
  <2> HIDE DEF Kinds, K, x
  <2>4. IsFiniteSet(K \cup {x}) /\ Cardinality(K \cup {x}) = Cardinality(K) + 1
    BY ONLY <2>3, FS_AddElement
  <2> QED BY ONLY <2>3, <2>4
<1> HIDE DEF f, Kinds
<1>3. /\ IsFiniteSet(Sharing(i) \X Kinds)
      /\ Cardinality(Sharing(i) \X Kinds) = Cardinality(Sharing(i)) * 2
  BY <1>2, FS_Product
<1>4. Cardinality(seen[i]) <= Cardinality(Sharing(i) \X Kinds)
  BY <1>1, <1>3, FS_Injection
<1> QED BY <1>3, <1>4, FS_CardinalityType

\* With two places in the channel for each run that has had its PID, itself
\* among them, a run never waits for a verdict that has come.
MissedOnlyByReuse ==
  \A i \in Runs :
    /\ pc[i] = "waiting" /\ chan[i] = <<>>
    /\ IsFiniteSet(Sharing(i)) /\ 2 * Cardinality(Sharing(i)) <= Buffer
    => \A r \in seen[i] : r.status = "held"

\* The channel of 16 loses no verdict unless more than eight runs have had the PID
\* (main.go:220).
THEOREM LostOnlyByReuse == Spec => []MissedOnlyByReuse
<1>1. KInv => MissedOnlyByReuse
  <2> SUFFICES ASSUME KInv, NEW i \in Runs, pc[i] = "waiting" /\ chan[i] = <<>>,
                      IsFiniteSet(Sharing(i)), 2 * Cardinality(Sharing(i)) <= Buffer
               PROVE  \A r \in seen[i] : r.status = "held"
    BY DEF MissedOnlyByReuse
  <2>1. Cardinality(seen[i]) <= 2 * Cardinality(Sharing(i))
    BY AtMostTwo
  <2>2. Cardinality(seen[i]) \in Nat /\ Cardinality(Sharing(i)) \in Nat /\ Buffer \in Nat
    BY FS_CardinalityType, CcSendAssumption DEF KInv, SeenOK
  <2>3. ~Overflow(i)
    BY <2>1, <2>2 DEF Overflow
  <2> QED BY <2>3 DEF KInv, SeenOK, VerdictsKept, Alive, Receipts, Verdicts
<1> QED BY <1>1, InitKInv, StepKInv, PTL DEF Spec

\* So with a channel that holds two receipts of each run there is, none waits
\* for a verdict on its own message that has come.
THEOREM DecisionKept ==
  ASSUME IsFiniteSet(Runs), Buffer >= 2 * Cardinality(Runs)
  PROVE  Spec => []NoDecisionMissed
<1>1. MissedOnlyByReuse => NoDecisionMissed
  <2> SUFFICES ASSUME MissedOnlyByReuse PROVE NoDecisionMissed
    OBVIOUS
  <2>1. ASSUME NEW i \in Runs
        PROVE  IsFiniteSet(Sharing(i)) /\ 2 * Cardinality(Sharing(i)) <= Buffer
    <3>1. IsFiniteSet(Sharing(i)) /\ Cardinality(Sharing(i)) <= Cardinality(Runs)
      BY FS_Subset DEF Sharing
    <3> QED BY <3>1, FS_CardinalityType, CcSendAssumption
  <2> QED BY <2>1 DEF MissedOnlyByReuse, NoDecisionMissed
<1> QED BY <1>1, LostOnlyByReuse, PTL
=============================================================================
