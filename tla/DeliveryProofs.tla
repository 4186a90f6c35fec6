--------------------------- MODULE DeliveryProofs ---------------------------
(***************************************************************************)
(* Proofs about Delivery, for any PIDs, session IDs and names: a frame is  *)
(* acted on by no session but the one meant, a lookup never prefers        *)
(* another entry to a session that stays registered and listening, a list  *)
(* never leaves one out, and a start token finds its process after /clear. *)
(***************************************************************************)
EXTENDS Delivery, TLAPS

\* What the call has fixed so far and no step of another process can undo:
\* candidates and the chosen entry fit the lookup, the stamp is the one Send or
\* Rename chose, and a session acted on no stamp but its own or none.
LookupOK ==
  /\ pc # "idle" => op # None
  /\ pc # "done" => result = "none"
  /\ result = "listed" => op.how = "list"
  /\ pc \in {"list", "probe"} => op.how # "path"
  /\ pc \in {"idle", "list"} => live = {}
  /\ pc = "probe" => unprobed \cup live \subseteq Matches
  /\ pc \in {"send", "wait"} => target # None
  /\ target # None => /\ pc \in {"send", "wait", "done"}
                      /\ op.how # "list"
                      /\ op.how # "path" => target \in Matches
  /\ conn # None => target # None /\ pc # "send" /\ conn.stamp = StampOf
  /\ got # None => /\ conn # None
                   /\ got.kind = "session" => conn.stamp \in {None, got.sid}
                   /\ op.frame = "rename" => got.kind = "session"

\* A session that stays put is read as it is and survives the probing.
SteadyOK ==
  /\ \A p \in steady : Registered(p)
  /\ pc = "list" => \A p \in steady : p \in unread \/ listing[p] = reg[p]
  /\ pc = "probe" => \A p \in steady : Fits(reg[p], p) => p \in unprobed \cup live
  /\ pc \in {"probe", "send", "wait", "done"} /\ op.how # "path" =>
       \A p \in steady : listing[p] = reg[p]
  /\ pc \in {"send", "wait", "done"} /\ op.how # "path" =>
       \A p \in steady : Fits(reg[p], p) =>
         target = p \/ result = "ambiguous" \/ (result = "listed" /\ p \in live)

IInv == TypeOK /\ LookupOK /\ SteadyOK

\* What every call carries, whichever Find function it goes through.
LEMMA OpFields ==
  ASSUME NEW o \in Ops
  PROVE  /\ o.preset \in SessionIds \cup {None}
         /\ o.how # "list" => o.frame \in {"user", "rename"}
         /\ o.how = "path" => o.key \in Pids
BY DeliveryAssumption DEF Ops

\* The invariant holds before the call starts.
LEMMA InitIInv == Init => IInv
<1> SUFFICES ASSUME Init PROVE IInv
  OBVIOUS
<1>1. TypeOK
  <2>1. 0 \in 0..MaxStart
    BY DeliveryAssumption
  <2>2. [kind |-> "none", start |-> 0, sid |-> None, name |-> None] \in Processes
    BY <2>1 DEF Processes
  <2> QED BY <2>2 DEF Init, TypeOK
<1>2. LookupOK
  BY DEF Init, LookupOK
<1>3. SteadyOK
  BY DEF Init, SteadyOK
<1> QED BY <1>1, <1>2, <1>3 DEF IInv

\* A step of the machine that leaves the call alone, keeps the types of what it
\* changes and takes the PIDs it touches out of steady keeps the invariant.
LEMMA WorldStep ==
  ASSUME IInv, UNCHANGED <<find, wire, pc, result>>,
         proc' \in [Pids -> Processes],
         reg' \in [Pids -> Entries \cup {None}],
         steady' \subseteq steady, same' \subseteq same,
         \A q \in steady' : proc'[q] = proc[q] /\ reg'[q] = reg[q]
  PROVE  IInv'
<1>1. TypeOK'
  BY DEF IInv, TypeOK, find, wire
<1>2. LookupOK'
  BY DEF IInv, LookupOK, Matches, Fits, StampOf, find, wire
<1>3. SteadyOK'
  BY DEF IInv, TypeOK, SteadyOK, Registered, Fits, find, wire
<1> QED BY <1>1, <1>2, <1>3 DEF IInv

\* Every step of a session or of another process is such a step.
LEMMA WorldInv == IInv /\ World => IInv'
<1> SUFFICES ASSUME IInv, World PROVE IInv'
  OBVIOUS
<1> PICK p \in Pids :
    \/ \E k \in {"session", "bare"}, s \in SessionIds, n \in Names : StartSession(p, k, s, n)
    \/ \E k \in {"inbox", "other"} : StartOther(p, k)
    \/ \E s \in SessionIds : Clear(p, s)
    \/ Die(p)
  BY DEF World
<1> USE DEF IInv
<1>1. ASSUME NEW k \in {"session", "bare"}, NEW s \in SessionIds, NEW n \in Names,
             StartSession(p, k, s, n)
      PROVE  IInv'
  <2>1. proc[p].start + 1 \in 1..MaxStart
    BY <1>1, DeliveryAssumption DEF StartSession, TypeOK, Processes
  <2>2. proc' \in [Pids -> Processes]
    BY <1>1, <2>1 DEF StartSession, TypeOK, Processes
  <2>3. reg' \in [Pids -> Entries \cup {None}]
    BY <1>1, <2>1 DEF StartSession, TypeOK, Entries
  <2>4. p \notin steady
    BY <1>1 DEF StartSession, SteadyOK, Registered
  <2> QED BY <1>1, <2>2, <2>3, <2>4, WorldStep DEF StartSession, TypeOK
<1>2. ASSUME NEW k \in {"inbox", "other"}, StartOther(p, k)
      PROVE  IInv'
  <2>1. proc[p].start + 1 \in 0..MaxStart
    BY <1>2, DeliveryAssumption DEF StartOther, TypeOK, Processes
  <2>2. proc' \in [Pids -> Processes]
    BY <1>2, <2>1 DEF StartOther, TypeOK, Processes
  <2>3. p \notin steady
    BY <1>2 DEF StartOther, SteadyOK, Registered
  <2> QED BY <1>2, <2>2, <2>3, WorldStep DEF StartOther, TypeOK
<1>3. ASSUME NEW s \in SessionIds, Clear(p, s)
      PROVE  IInv'
  <2>1. proc' \in [Pids -> Processes]
    BY <1>3 DEF Clear, TypeOK, Processes
  <2>2. reg' \in [Pids -> Entries \cup {None}]
    BY <1>3 DEF Clear, TypeOK, Entries
  <2> QED BY <1>3, <2>1, <2>2, WorldStep DEF Clear, TypeOK
<1>4. CASE Die(p)
  <2>1. proc' \in [Pids -> Processes]
    BY <1>4 DEF Die, TypeOK, Processes
  <2>2. reg' \in [Pids -> Entries \cup {None}]
    BY <1>4 DEF Die, TypeOK
  <2> QED BY <1>4, <2>1, <2>2, WorldStep DEF Die, TypeOK
<1> QED BY <1>1, <1>2, <1>3, <1>4

\* The call starts: whatever is registered now has been listed.
LEMMA BeginInv == ASSUME IInv, NEW o \in Ops, Begin(o) PROVE IInv'
<1> USE DEF IInv, Begin, wire
<1>1. TypeOK'
  <2>1. target' \in Pids \cup {None}
    BY OpFields DEF TypeOK
  <2>2. conn' = None
    BY DEF LookupOK
  <2> QED BY <2>1, <2>2 DEF TypeOK
<1>2. LookupOK'
  <2>1. target = None /\ conn = None /\ got = None /\ result = "none" /\ live = {}
    BY DEF LookupOK
  <2>2. op' # None /\ (o.how = "path" => o.key # None)
    BY OpFields, DeliveryAssumption
  <2> QED BY <2>1, <2>2 DEF LookupOK
<1>3. SteadyOK'
  BY DEF SteadyOK, Registered, Fits, TypeOK
<1> QED BY <1>1, <1>2, <1>3

\* An entry is read while nothing has been chosen yet.
LEMMA ReadEntryInv == ASSUME IInv, NEW p \in Pids, ReadEntry(p) PROVE IInv'
<1> USE DEF IInv, ReadEntry, wire, env
<1>1. TypeOK'
  BY DEF TypeOK
<1>2. LookupOK'
  BY DEF LookupOK, TypeOK
<1>3. SteadyOK'
  BY DEF SteadyOK, Registered, Fits, TypeOK
<1> QED BY <1>1, <1>2, <1>3

\* Every entry read is probed, and every steady one is among them.
LEMMA PickAllInv == ASSUME IInv, PickAll PROVE IInv'
<1> USE DEF IInv, PickAll, wire, env
<1>1. TypeOK'
  BY DEF TypeOK, Matches
<1>2. LookupOK'
  BY DEF LookupOK, Matches, Fits
<1>3. SteadyOK'
  <2>1. \A p \in steady : listing[p] = reg[p] /\ reg[p] # None
    BY DEF SteadyOK, Registered
  <2>2. \A p \in steady : Fits(reg[p], p) => p \in Matches
    BY <2>1 DEF Matches, TypeOK
  <2>3. \A p \in steady : Fits(reg[p], p)' <=> Fits(reg[p], p)
    BY DEF Fits
  <2> QED BY <2>1, <2>2, <2>3 DEF SteadyOK, Registered
<1> QED BY <1>1, <1>2, <1>3

\* A single match is taken unprobed; a session that stays put is that match.
LEMMA PickOneInv == ASSUME IInv, PickOne PROVE IInv'
<1> USE DEF IInv, PickOne, wire, env, Found, Fail
<1>1. TypeOK'
  BY DEF TypeOK, Matches
<1>2. LookupOK'
  <2>1. target = None /\ conn = None /\ got = None
    BY DEF LookupOK
  <2>2. Matches' = Matches
    BY DEF Matches, Fits
  <2>3. None \notin Matches
    BY DeliveryAssumption DEF Matches
  <2> QED BY <2>1, <2>2, <2>3 DEF LookupOK
<1>3. SteadyOK'
  <2>1. \A p \in steady : listing[p] = reg[p] /\ reg[p] # None
    BY DEF SteadyOK, Registered
  <2>2. \A p \in steady : Fits(reg[p], p) => p \in Matches
    BY <2>1 DEF Matches, TypeOK
  <2>3. \A p \in steady : Fits(reg[p], p)' <=> Fits(reg[p], p)
    BY DEF Fits
  <2> QED BY <2>1, <2>2, <2>3 DEF SteadyOK, Registered
<1> QED BY <1>1, <1>2, <1>3

\* A probe moves its match to live, or takes it out of steady.
LEMMA ProbeOneInv == ASSUME IInv, NEW p \in Pids, ProbeOne(p) PROVE IInv'
<1> USE DEF IInv, ProbeOne, wire
<1>1. TypeOK'
  BY DEF TypeOK
<1>2. LookupOK'
  BY DEF LookupOK, Matches, Fits
<1>3. SteadyOK'
  BY DEF SteadyOK, Registered, Fits, TypeOK
<1> QED BY <1>1, <1>2, <1>3

\* One live match is taken, two are ambiguous.
LEMMA PickLiveInv == ASSUME IInv, PickLive PROVE IInv'
<1> USE DEF IInv, PickLive, wire, env, Found, Fail
<1>1. TypeOK'
  BY DEF TypeOK
<1>2. LookupOK'
  <2>1. target = None /\ conn = None /\ got = None
    BY DEF LookupOK
  <2>2. Matches' = Matches
    BY DEF Matches, Fits
  <2>3. live \subseteq Matches /\ None \notin Matches
    BY DeliveryAssumption DEF LookupOK, Matches
  <2> QED BY <2>1, <2>2, <2>3 DEF LookupOK
<1>3. SteadyOK'
  BY DEF SteadyOK, Registered, Fits
<1> QED BY <1>1, <1>2, <1>3

\* Dialing fixes the stamp.
LEMMA DialInv == ASSUME IInv, Dial PROVE IInv'
<1> USE DEF IInv, Dial, find, env, Fail
<1>1. TypeOK'
  <2>1. target \in Pids /\ op \in Ops
    BY DEF LookupOK, TypeOK
  <2>2. op.how # "path" => listing[target] \in Entries
    BY <2>1, DeliveryAssumption DEF LookupOK, TypeOK, Matches
  <2>3. StampOf \in SessionIds \cup {None} /\ (op.how # "path" => StampOf \in SessionIds)
    BY <2>1, <2>2, OpFields DEF StampOf, Entries
  <2>4. proc[target].start \in 0..MaxStart
    BY <2>1 DEF TypeOK, Processes
  <2>5. conn' = conn \/ conn' = [start |-> proc[target].start, stamp |-> StampOf]
    OBVIOUS
  <2>6. CASE conn' = conn
    BY <2>6 DEF TypeOK
  <2>7. CASE conn' = [start |-> proc[target].start, stamp |-> StampOf]
    <3>1. conn' \in [start : 0..MaxStart, stamp : SessionIds \cup {None}]
      BY <2>3, <2>4, <2>7
    <3>2. op.how # "path" => conn'.stamp # None
      BY <2>3, <2>7, DeliveryAssumption
    <3> QED BY <3>1, <3>2 DEF TypeOK
  <2> QED BY <2>5, <2>6, <2>7
<1>2. LookupOK'
  BY DEF LookupOK, Matches, Fits, StampOf
<1>3. SteadyOK'
  BY DEF LookupOK, SteadyOK, Registered, Fits
<1> QED BY <1>1, <1>2, <1>3

\* A session acts on the frame only when the stamp is its own ID.
LEMMA TakeInv == ASSUME IInv, Take PROVE IInv'
<1> USE DEF IInv, Take, find, env
<1>1. target \in Pids /\ op \in Ops
  BY DEF LookupOK, TypeOK
<1>2. TypeOK'
  BY <1>1 DEF TypeOK, Processes, Receivers
<1>3. LookupOK'
  <2>1. Matches' = Matches /\ StampOf' = StampOf
    BY DEF Matches, Fits, StampOf
  <2>2. op.frame \in {"user", "rename"}
    BY <1>1, OpFields DEF LookupOK
  <2> QED BY <2>1, <2>2 DEF LookupOK
<1>4. SteadyOK'
  BY DEF SteadyOK, Registered, Fits
<1> QED BY <1>2, <1>3, <1>4

\* Returning changes nothing but the result.
LEMMA ReturnInv == ASSUME IInv, Return PROVE IInv'
<1> USE DEF IInv, Return, wire, env, Fail
<1>1. TypeOK'
  BY DEF TypeOK
<1>2. LookupOK'
  BY DEF LookupOK, Matches, Fits, StampOf
<1>3. SteadyOK'
  BY DEF LookupOK, SteadyOK, Registered, Fits
<1> QED BY <1>1, <1>2, <1>3

\* The invariant is inductive: one step per action.
LEMMA StepIInv == IInv /\ [Next]_vars => IInv'
<1> SUFFICES ASSUME IInv, [Next]_vars PROVE IInv'
  OBVIOUS
<1>1. CASE World
  BY <1>1, WorldInv
<1>2. CASE \E o \in Ops : Begin(o)
  BY <1>2, BeginInv
<1>3. CASE Call
  BY <1>3, ReadEntryInv, ProbeOneInv, PickAllInv, PickOneInv, PickLiveInv, DialInv, ReturnInv DEF Call
<1>4. CASE Take
  BY <1>4, TakeInv
<1>5. CASE UNCHANGED vars
  BY <1>5, WorldStep DEF vars, env, IInv, TypeOK
<1> QED BY <1>1, <1>2, <1>3, <1>4, <1>5 DEF Next

\* In every state: what the invariant says.
THEOREM Invariance == Spec => []IInv
BY InitIInv, StepIInv, PTL DEF Spec

\* Every variable keeps its type; the stamp of a frame, in particular, is never
\* empty when the lookup returned a session with an ID.
THEOREM TypeCorrect == Spec => []TypeOK
<1>1. IInv => TypeOK
  BY DEF IInv
<1> QED BY <1>1, Invariance, PTL

\* No session but the one meant acts on a message, however stale the entry.
THEOREM MisdeliveryImpossible == Spec => []NoMisdelivery
<1>1. IInv => NoMisdelivery
  <2> SUFFICES ASSUME IInv, got # None, got.kind = "session", ~AnySession
               PROVE  got.sid = WantedId
    BY DEF NoMisdelivery
  <2>1. /\ op \in Ops /\ op.how # "list"
        /\ op.how # "path" => target \in Matches
        /\ StampOf \in {None, got.sid}
        /\ op.how # "path" => StampOf # None
    BY DEF IInv, TypeOK, LookupOK
  <2>2. CASE op.how = "path"
    BY <2>1, <2>2, OpFields DEF StampOf, WantedId, AnySession
  <2>3. CASE op.how \in {"sid", "session"}
    <3>1. Fits(listing[target], target)
      BY <2>1, <2>3 DEF Matches
    <3> QED BY <2>1, <2>3, <3>1 DEF Ops, Fits, StampOf, WantedId
  <2>4. CASE op.how \notin {"sid", "session", "path"}
    BY <2>1, <2>4, OpFields DEF StampOf, WantedId
  <2> QED BY <2>2, <2>3, <2>4
<1> QED BY <1>1, Invariance, PTL

\* A rename takes effect on the session whose entry was looked up or nowhere.
THEOREM MisrenameImpossible == Spec => []NoMisrename
<1>1. IInv => NoMisrename
  BY DEF IInv, TypeOK, LookupOK, NoMisrename, StampOf
<1> QED BY <1>1, Invariance, PTL

\* A registered, listening and answering session that fits the lookup is the
\* one returned, or the lookup is ambiguous.
THEOREM SteadySessionWins == Spec => []SteadyWins
<1>1. IInv => SteadyWins
  BY DEF IInv, LookupOK, SteadyOK, SteadyWins
<1> QED BY <1>1, Invariance, PTL

\* A registered, listening and answering session is listed, as it is, as live.
THEOREM SteadySessionListed == Spec => []SteadyListed
<1>1. IInv => SteadyListed
  <2> SUFFICES ASSUME IInv, result = "listed", NEW p \in steady
               PROVE  p \in live /\ listing[p] = reg[p]
    BY DEF SteadyListed
  <2>1. op.how = "list" /\ pc = "done"
    BY DEF IInv, LookupOK
  <2>2. Fits(reg[p], p) /\ target = None
    BY <2>1 DEF Fits, IInv, LookupOK
  <2>3. p # None
    BY DeliveryAssumption DEF IInv, TypeOK
  <2> QED BY <2>1, <2>2, <2>3 DEF IInv, SteadyOK
<1> QED BY <1>1, Invariance, PTL

\* Whatever has been read came over the connection, and SteadyAccepts.
AcceptOK == (taken => conn # None) /\ SteadyAccepts

\* Every step keeps it: what is read is checked against the stamp, and a steady
\* session's ID is the one in its entry.
LEMMA AcceptStep == IInv /\ AcceptOK /\ [Next]_vars => AcceptOK'
<1> SUFFICES ASSUME IInv, AcceptOK, [Next]_vars PROVE AcceptOK'
  OBVIOUS
<1>1. CASE World \/ UNCHANGED vars
  BY <1>1 DEF World, StartSession, StartOther, Clear, Die, AcceptOK, SteadyAccepts,
              find, wire, env, vars
<1>2. CASE (\E o \in Ops : Begin(o)) \/ (\E p \in Pids : ReadEntry(p) \/ ProbeOne(p))
           \/ PickAll \/ PickOne \/ PickLive
  <2>1. ~taken
    BY <1>2 DEF IInv, LookupOK, AcceptOK, Begin, ReadEntry, ProbeOne, PickAll, PickOne, PickLive
  <2> QED BY <1>2, <2>1 DEF AcceptOK, SteadyAccepts, Begin, ReadEntry, ProbeOne, PickAll,
              PickOne, PickLive, wire
<1>3. CASE Dial
  <2>1. ~taken
    BY <1>3 DEF IInv, LookupOK, AcceptOK, Dial
  <2> QED BY <1>3, <2>1 DEF AcceptOK, SteadyAccepts, Dial
<1>4. CASE Return
  BY <1>4 DEF AcceptOK, SteadyAccepts, Return, env, wire, Fail
<1>5. CASE Take
  <2>1. SUFFICES ASSUME target \in steady, op.preset = None \/ op.frame = "rename"
                 PROVE  got' # None /\ got'.kind = "session"
    BY <1>5 DEF AcceptOK, SteadyAccepts, Take, find, env
  <2>2. conn.stamp = StampOf /\ pc \in {"wait", "done"}
    BY <1>5 DEF Take, IInv, LookupOK
  <2>3. proc[target].kind = "session" /\ reg[target].sid = proc[target].sid
    BY <2>1 DEF IInv, SteadyOK, Registered
  <2>4. conn.stamp \in {None, proc[target].sid}
    <3>1. CASE op.how = "path"
      BY <2>1, <2>2, <3>1 DEF StampOf
    <3>2. CASE op.how # "path"
      <4>1. listing[target] = reg[target]
        BY <2>1, <2>2, <3>2 DEF IInv, SteadyOK
      <4> QED BY <2>1, <2>2, <2>3, <3>2, <4>1 DEF StampOf
    <3> QED BY <3>1, <3>2
  <2>5. got' = [kind |-> "session", sid |-> proc[target].sid]
    BY <1>5, <2>3, <2>4 DEF Take
  <2>6. got' \in Receivers
    BY <1>5, <2>5 DEF Take, IInv, TypeOK, LookupOK, Matches, Processes, Receivers
  <2> QED BY <2>5, <2>6, DeliveryAssumption
<1> QED BY <1>1, <1>2, <1>3, <1>4, <1>5 DEF Next, Call

\* A frame stamped from an entry that is still good is acted on when read.
THEOREM SteadySessionAccepts == Spec => []SteadyAccepts
<1>1. Init => AcceptOK
  BY DEF Init, AcceptOK, SteadyAccepts
<1>2. AcceptOK => SteadyAccepts
  BY DEF AcceptOK
<1> QED BY <1>1, <1>2, AcceptStep, Invariance, PTL DEF Spec

\* The caller of FindByPIDForProcess remembers the token of a session that still
\* runs under the PID.
Sought ==
  /\ op.how = "proc" /\ op.key \in same
  /\ proc[op.key].start = op.token /\ proc[op.key].kind \in {"session", "bare"}

\* A running session has an entry with its start token, and one that is sought
\* is not lost between ReadDir and pickOne, which never probes for it.
TokenOK ==
  /\ \A p \in Pids : proc[p].kind \in {"session", "bare"} =>
       reg[p] # None /\ reg[p].procStart = proc[p].start
  /\ \A p \in same : proc[p].kind # "none"
  /\ pc = "probe" => op.how # "proc"
  /\ pc = "list" /\ Sought =>
       \/ op.key \in unread
       \/ listing[op.key] # None /\ listing[op.key].procStart = op.token
  /\ TokenSurvivesClear

\* A step of the machine finds nothing that was not sought before.
LEMMA TokenWorld == IInv /\ TokenOK /\ World => TokenOK'
<1> SUFFICES ASSUME IInv, TokenOK, World PROVE TokenOK'
  OBVIOUS
<1> PICK p \in Pids :
    \/ \E k \in {"session", "bare"}, s \in SessionIds, n \in Names : StartSession(p, k, s, n)
    \/ \E k \in {"inbox", "other"} : StartOther(p, k)
    \/ \E s \in SessionIds : Clear(p, s)
    \/ Die(p)
  BY DEF World
<1>1. proc \in [Pids -> Processes] /\ reg \in [Pids -> Entries \cup {None}] /\ same \subseteq Pids
  BY DEF IInv, TypeOK
<1>2. UNCHANGED <<op, pc, unread, listing, result>>
  BY DEF StartSession, StartOther, Clear, Die, find
<1>3. /\ \A q \in Pids : proc'[q].kind \in {"session", "bare"} =>
           reg'[q] # None /\ reg'[q].procStart = proc'[q].start
      /\ \A q \in same' : proc'[q].kind # "none"
  <2>1. ASSUME NEW k \in {"session", "bare"}, NEW s \in SessionIds, NEW n \in Names,
               StartSession(p, k, s, n)
        PROVE  <1>3!:
    <3>1. [sid |-> s, name |-> n, procStart |-> proc[p].start + 1, sock |-> k = "session"]
            \in Entries
      BY <1>1, <2>1, DeliveryAssumption DEF StartSession, Processes, Entries
    <3> QED BY <1>1, <2>1, <3>1, DeliveryAssumption DEF StartSession, TokenOK
  <2>2. ASSUME NEW k \in {"inbox", "other"}, StartOther(p, k)
        PROVE  <1>3!:
    BY <1>1, <2>2 DEF StartOther, TokenOK
  <2>3. ASSUME NEW s \in SessionIds, Clear(p, s)
        PROVE  <1>3!:
    <3>1. reg'[p] \in Entries
      BY <1>1, <2>3 DEF Clear, Entries
    <3> QED BY <1>1, <2>3, <3>1, DeliveryAssumption DEF Clear, TokenOK, Processes, Entries
  <2>4. CASE Die(p)
    BY <1>1, <2>4 DEF Die, TokenOK
  <2> QED BY <2>1, <2>2, <2>3, <2>4
<1>4. Sought' => Sought
  BY <1>1, <1>2 DEF StartSession, StartOther, Clear, Die, Sought, TokenOK, Processes
<1>5. TokenSurvivesClear <=> ~(pc = "done" /\ result = "notfound" /\ Sought)
  BY DEF TokenSurvivesClear, Sought
<1>6. TokenSurvivesClear' <=> ~(pc' = "done" /\ result' = "notfound" /\ Sought')
  BY DEF TokenSurvivesClear, Sought
<1> QED BY <1>2, <1>3, <1>4, <1>5, <1>6 DEF TokenOK

\* A step of the call: every running session has an entry when the files are
\* listed, and what the lookup has read of it carries the token.
LEMMA TokenCall ==
  IInv /\ TokenOK /\ ((\E o \in Ops : Begin(o)) \/ Call \/ Take \/ UNCHANGED vars) => TokenOK'
<1> SUFFICES ASSUME IInv, TokenOK,
                    (\E o \in Ops : Begin(o)) \/ Call \/ Take \/ UNCHANGED vars
             PROVE  TokenOK'
  OBVIOUS
<1>1. TokenSurvivesClear <=> ~(pc = "done" /\ result = "notfound" /\ Sought)
  BY DEF TokenSurvivesClear, Sought
<1>2. TokenSurvivesClear' <=> ~(pc' = "done" /\ result' = "notfound" /\ Sought')
  BY DEF TokenSurvivesClear, Sought
<1>3. ASSUME NEW o \in Ops, Begin(o)
      PROVE  TokenOK'
  <2>1. UNCHANGED <<proc, reg, result>> /\ result = "none" /\ op' = o
    BY <1>3 DEF Begin, IInv, LookupOK
  <2>2. \A p \in same' : proc'[p].kind # "none"
    BY <1>3 DEF Begin
  <2>3. pc' = "list" /\ Sought' => op'.key \in unread'
    BY <1>3, <2>1 DEF Begin, Sought, TokenOK
  <2> QED BY <1>2, <1>3, <2>1, <2>2, <2>3 DEF Begin, TokenOK
<1>4. ASSUME NEW p \in Pids, ReadEntry(p)
      PROVE  TokenOK'
  <2>1. /\ UNCHANGED <<proc, reg, same, op, pc, result>> /\ pc = "list"
        /\ listing \in [Pids -> Entries \cup {None}]
    BY <1>4 DEF ReadEntry, env, IInv, TypeOK
  <2>2. Sought' <=> Sought
    BY <2>1 DEF Sought
  <2>3. Sought => \/ op.key \in unread'
                  \/ listing'[op.key] # None /\ listing'[op.key].procStart = op.token
    BY <1>4, <2>1 DEF ReadEntry, Sought, TokenOK
  <2> QED BY <1>2, <2>1, <2>2, <2>3 DEF TokenOK
<1>5. CASE PickOne
  <2>1. UNCHANGED <<proc, reg, same, op>>
    BY <1>5 DEF PickOne, env
  <2>2. Sought' <=> Sought
    BY <2>1 DEF Sought
  <2>3. op.how = "proc" => Matches \subseteq {op.key}
    BY DEF Matches, Fits
  <2>4. Sought => op.key \in Matches
    BY <1>5 DEF PickOne, TokenOK, Sought, Matches, Fits, IInv, TypeOK
  <2>5. pc' = "probe" => op.how # "proc"
    BY <1>5, <2>3 DEF PickOne, Found, Fail
  <2>6. ~(pc' = "done" /\ result' = "notfound" /\ Sought)
    BY <1>5, <2>4 DEF PickOne, Found, Fail
  <2>7. pc' # "list"
    BY <1>5 DEF PickOne, Found, Fail
  <2> QED BY <1>2, <2>1, <2>2, <2>5, <2>6, <2>7 DEF TokenOK
<1>6. CASE PickAll
  <2>1. UNCHANGED <<proc, reg, same, op, result>> /\ pc' = "probe" /\ op.how # "proc"
    BY <1>6 DEF PickAll, env
  <2> QED BY <1>2, <2>1 DEF TokenOK
<1>7. ASSUME NEW p \in Pids, ProbeOne(p)
      PROVE  TokenOK'
  <2>1. UNCHANGED <<proc, reg, same, op, pc, result>> /\ pc = "probe"
    BY <1>7 DEF ProbeOne
  <2> QED BY <1>2, <2>1 DEF TokenOK
<1>8. CASE PickLive
  <2>1. UNCHANGED <<proc, reg, same, op>> /\ op.how # "proc" /\ pc' \notin {"list", "probe"}
    BY <1>8 DEF PickLive, Found, Fail, env, TokenOK
  <2>2. ~Sought'
    BY <2>1 DEF Sought
  <2> QED BY <1>2, <2>1, <2>2 DEF TokenOK
<1>9. CASE Dial \/ Return
  <2>1. UNCHANGED <<proc, reg, same, op>> /\ pc' \notin {"list", "probe"} /\ result' # "notfound"
    BY <1>9 DEF Dial, Return, Fail, env, find, IInv, LookupOK
  <2> QED BY <1>2, <2>1 DEF TokenOK
<1>10. CASE Take \/ UNCHANGED vars
  <2>1. UNCHANGED <<proc, reg, same, op, pc, unread, listing, result>>
    BY <1>10 DEF Take, vars, env, find
  <2>2. Sought' <=> Sought
    BY <2>1 DEF Sought
  <2> QED BY <1>1, <1>2, <2>1, <2>2 DEF TokenOK
<1> QED BY <1>3, <1>4, <1>5, <1>6, <1>7, <1>8, <1>9, <1>10 DEF Call

\* FindByPIDForProcess finds the process it was given the token of, whatever
\* /clear does to the session's ID meanwhile.
THEOREM TokenFindsProcess == Spec => []TokenSurvivesClear
<1>1. Init => TokenOK
  BY DEF Init, TokenOK, TokenSurvivesClear
<1>2. IInv /\ TokenOK /\ [Next]_vars => TokenOK'
  BY TokenWorld, TokenCall DEF Next
<1>3. TokenOK => TokenSurvivesClear
  BY DEF TokenOK
<1> QED BY <1>1, <1>2, <1>3, Invariance, PTL DEF Spec

-----------------------------------------------------------------------------
(* Delivery implements Lookup.                                             *)

\* Before the call nothing is known; what is probed has been read, and several
\* entries of it match, or the call is a list; what has answered has been probed.
RoundOK ==
  /\ pc = "idle" => op = None /\ unread = {} /\ listing = [p \in Pids |-> None]
  /\ pc = "probe" => /\ unread = {} /\ unprobed \cap live = {}
                     /\ op.how # "list" => \E p, q \in Matches : p # q

\* Steps of other processes leave it alone.
LEMMA RoundStep == IInv /\ RoundOK /\ [Next]_vars => RoundOK'
<1> SUFFICES ASSUME IInv, RoundOK, [Next]_vars PROVE RoundOK'
  OBVIOUS
<1>1. CASE World \/ Take \/ UNCHANGED vars
  <2>1. UNCHANGED <<op, pc, unread, listing, unprobed, live>>
    BY <1>1 DEF World, StartSession, StartOther, Clear, Die, Take, vars, env, find
  <2>2. Matches' = Matches
    BY <2>1 DEF Matches, Fits
  <2> QED BY <2>1, <2>2 DEF RoundOK
<1>2. CASE (\E o \in Ops : Begin(o)) \/ PickLive \/ Dial \/ Return
  <2>1. pc' \notin {"idle", "probe"}
    BY <1>2 DEF Begin, PickLive, Dial, Return, Found, Fail
  <2> QED BY <2>1 DEF RoundOK
<1>3. CASE \E p \in Pids : ReadEntry(p)
  <2>1. pc' = "list"
    BY <1>3 DEF ReadEntry
  <2> QED BY <2>1 DEF RoundOK
<1>4. CASE PickAll \/ PickOne
  <2>1. UNCHANGED <<op, unread, listing, live>> /\ live = {} /\ unread = {} /\ pc' # "idle"
    BY <1>4 DEF PickAll, PickOne, IInv, LookupOK, Found, Fail
  <2>2. Matches' = Matches
    BY <2>1 DEF Matches, Fits
  <2>3. pc' = "probe" => op.how = "list" \/ \E p, q \in Matches : p # q
    BY <1>4 DEF PickAll, PickOne, Found, Fail
  <2> QED BY <2>1, <2>2, <2>3 DEF RoundOK
<1>5. ASSUME NEW p \in Pids, ProbeOne(p)
      PROVE  RoundOK'
  <2>1. /\ UNCHANGED <<op, pc, unread, listing>> /\ pc = "probe"
        /\ unprobed' = unprobed \ {p} /\ live' \subseteq live \cup {p}
    BY <1>5 DEF ProbeOne
  <2>2. Matches' = Matches
    BY <2>1 DEF Matches, Fits
  <2> QED BY <2>1, <2>2 DEF RoundOK
<1> QED BY <1>1, <1>2, <1>3, <1>4, <1>5 DEF Next, Call

\* An entry is a match, with a socket or without one, or it is none.
LEMMA KindType ==
  /\ [p \in Pids |-> Kind(reg[p], p)] \in [Pids -> Registry!Kinds]
  /\ [p \in Pids |-> Listening(p)] \in [Pids -> BOOLEAN]
<1>1. \A p \in Pids : Kind(reg[p], p) \in Registry!Kinds
  BY DEF Kind, Registry!Kinds
<1>2. \A p \in Pids : Listening(p) \in BOOLEAN
  BY DEF Listening
<1> QED BY <1>1, <1>2

\* Before the call Lookup has been asked nothing.
LEMMA InitLookup == Init => Registry!Init
<1> SUFFICES ASSUME Init PROVE Registry!Init
  OBVIOUS
<1>1. \A p \in Pids : Kind(reg[p], p) = "no" /\ View(p) = "unseen"
  BY DEF Init, Kind, View
<1>2. Told = [as |-> "idle", pids |-> {}]
  BY DEF Init, Told
<1> QED BY <1>1, <1>2, KindType DEF Registry!Init, Registry!Unseen

\* Steps that leave the call alone change the registry at most.
LEMMA WorldLookup ==
  ASSUME UNCHANGED <<op, pc, unread, listing, unprobed, live, target, result>>
  PROVE  Registry!Change
<1>1. Matches' = Matches /\ \A e : \A p \in Pids : Kind(e, p)' = Kind(e, p)
  BY DEF Matches, Kind, Fits
<1>2. \A p \in Pids : View(p)' = View(p)
  BY <1>1 DEF View
<1>3. Told' = Told
  BY DEF Told
<1>4. /\ [p \in Pids |-> Kind(reg[p], p)]' \in [Pids -> Registry!Kinds]
      /\ [p \in Pids |-> Listening(p)]' \in [Pids -> BOOLEAN]
  <2>1. \A p \in Pids : Kind(reg[p], p)' \in Registry!Kinds
    BY DEF Kind, Registry!Kinds
  <2>2. \A p \in Pids : Listening(p)' \in BOOLEAN
    BY DEF Listening
  <2> QED BY <2>1, <2>2
<1> QED BY <1>2, <1>3, <1>4 DEF Registry!Change

\* The call starts: only entries that have a file are still to be seen.
LEMMA BeginLookup ==
  ASSUME IInv, RoundOK, NEW o \in Ops, Begin(o)
  PROVE  Registry!Ask \/ UNCHANGED Registry!vars
<1>1. /\ pc = "idle" /\ op = None /\ op' = o /\ o # None /\ UNCHANGED <<proc, reg, listing>>
      /\ listing = [p \in Pids |-> None]
  BY DeliveryAssumption DEF Begin, RoundOK
<1>2. /\ Told = [as |-> "idle", pids |-> {}]
      /\ \A p \in Pids : Kind(reg[p], p) = "no" /\ View(p) = "unseen"
  BY <1>1 DEF Told, Kind, View
<1>3. UNCHANGED [p \in Pids |-> Listening(p)]
  BY <1>1 DEF Listening
<1>4. CASE o.how = "path"
  <2>1. pc' = "send"
    BY <1>4 DEF Begin
  <2>2. Told' = Told
    BY <1>1, <1>2, <1>4 DEF Told
  <2>3. \A p \in Pids : Kind(reg[p], p)' = "no" /\ View(p)' = "unseen"
    BY <1>1, <1>4, <2>1 DEF Kind, View, Fits
  <2> QED BY <1>2, <1>3, <2>2, <2>3 DEF Registry!vars
<1>5. CASE o.how # "path"
  <2>1. pc' = "list" /\ unread' = {p \in Pids : reg[p] # None}
    BY <1>5 DEF Begin
  <2>2. Told' = [as |-> IF o.how = "list" THEN "listing" ELSE "finding", pids |-> {}]
    BY <1>1, <1>5, <2>1 DEF Told
  <2> DEFINE some == {p \in Pids : reg[p] = None}
  <2>3. \A p \in Pids : View(p)' = IF p \in some THEN "no" ELSE "unseen"
    BY <1>1, <2>1 DEF View, Kind
  <2>4. \A p \in some : Kind(reg[p], p)' = "no"
    BY <1>1 DEF Kind
  <2>5. [p \in Pids |-> Kind(reg[p], p)]' \in [Pids -> Registry!Kinds]
    <3>1. \A p \in Pids : Kind(reg[p], p)' \in Registry!Kinds
      BY DEF Kind, Registry!Kinds
    <3> QED BY <3>1
  <2>6. some \in SUBSET {p \in Pids : [q \in Pids |-> Kind(reg[q], q)]'[p] = "no"}
    BY <2>4
  <2>7. [p \in Pids |-> View(p)]' = [p \in Pids |-> IF p \in some THEN "no" ELSE "unseen"]
    BY <2>3
  <2> HIDE DEF some
  <2> QED BY <1>2, <1>3, <2>2, <2>5, <2>6, <2>7 DEF Registry!Ask
<1> QED BY <1>4, <1>5

\* While the call goes on, what it has been asked and told is this.
LEMMA Going ==
  ASSUME IInv, pc \in {"list", "probe"}
  PROVE  /\ Told = [as |-> IF op.how = "list" THEN "listing" ELSE "finding", pids |-> {}]
         /\ op # None /\ target = None /\ Registry!Asked
<1>1. op # None /\ op.how # "path" /\ target = None
  BY DEF IInv, LookupOK
<1>2. Told = [as |-> IF op.how = "list" THEN "listing" ELSE "finding", pids |-> {}]
  BY <1>1 DEF Told
<1> QED BY <1>1, <1>2 DEF Registry!Asked

\* An entry is seen as it is.
LEMMA ReadLookup ==
  ASSUME IInv, NEW p \in Pids, ReadEntry(p)
  PROVE  Registry!See(p)
<1>1. /\ pc = "list" /\ pc' = "list" /\ p \in unread /\ unread' = unread \ {p}
      /\ UNCHANGED <<proc, reg, op>> /\ listing' = [listing EXCEPT ![p] = reg[p]]
      /\ listing \in [Pids -> Entries \cup {None}]
  BY DEF ReadEntry, env, IInv, TypeOK
<1>2. \A e : \A q \in Pids : Kind(e, q)' = Kind(e, q)
  BY <1>1 DEF Kind, Fits
<1>3. UNCHANGED <<[q \in Pids |-> Kind(reg[q], q)], [q \in Pids |-> Listening(q)]>>
  BY <1>1, <1>2 DEF Listening
<1>4. Told' = Told /\ Registry!Asked
  BY <1>1, Going DEF Told
<1>5. View(p) = "unseen" /\ View(p)' = Kind(reg[p], p)
  BY <1>1, <1>2 DEF View
<1>6. \A q \in Pids : q # p => View(q)' = View(q)
  BY <1>1, <1>2 DEF View
<1>7. [q \in Pids |-> View(q)]' =
        [[q \in Pids |-> View(q)] EXCEPT ![p] = [q \in Pids |-> Kind(reg[q], q)][p]]
  BY <1>5, <1>6
<1> QED BY <1>3, <1>4, <1>5, <1>7 DEF Registry!See

\* A match is heard when it is probed, or it is not.
LEMMA ProbeLookup ==
  ASSUME IInv, RoundOK, NEW p \in Pids, ProbeOne(p)
  PROVE  Registry!Hear(p)
<1>1. /\ pc = "probe" /\ pc' = "probe" /\ p \in unprobed /\ unprobed' = unprobed \ {p}
      /\ UNCHANGED <<proc, reg, op, listing>>
      /\ p \in Matches /\ p \notin live
  BY DEF ProbeOne, IInv, LookupOK, RoundOK
<1>2. Matches' = Matches /\ \A e : \A q \in Pids : Kind(e, q)' = Kind(e, q)
  BY <1>1 DEF Matches, Kind, Fits
<1>3. UNCHANGED <<[q \in Pids |-> Kind(reg[q], q)], [q \in Pids |-> Listening(q)]>>
  BY <1>1, <1>2 DEF Listening
<1>4. Told' = Told /\ Registry!Asked /\ op # None
  BY <1>1, Going DEF Told
<1>5. View(p) = IF listing[p].sock THEN "sock" ELSE "bare"
  BY <1>1, <1>4 DEF View, Kind, Matches
<1>6. \A q \in Pids : View(q) # "unseen"
  BY <1>1 DEF View, Kind
<1>7. \/ View(p) = "sock" /\ Listening(p) /\ live' = live \cup {p}
      \/ live' = live
  BY <1>5 DEF ProbeOne
<1>8. \A q \in Pids : q # p => View(q)' = View(q)
  BY <1>1, <1>2, <1>7 DEF View
<1>9. View(p)' = IF p \in live' THEN "live" ELSE "silent"
  BY <1>1, <1>2 DEF View
<1> DEFINE view == [q \in Pids |-> View(q)]
<1>10. \/ View(p) = "sock" /\ Listening(p) /\ view' = [view EXCEPT ![p] = "live"]
       \/ view' = [view EXCEPT ![p] = "silent"]
  BY <1>1, <1>7, <1>8, <1>9
<1>11. Registry!Read
  BY <1>6 DEF Registry!Read
<1>12. view[p] = View(p) /\ view[p] \in {"bare", "sock"}
  BY <1>5
<1>13. [q \in Pids |-> Listening(q)][p] <=> Listening(p)
  OBVIOUS
<1> QED BY <1>3, <1>4, <1>10, <1>11, <1>12, <1>13 DEF Registry!Hear

\* Going on to probe the matches tells nothing about them.
LEMMA TurnLookup ==
  ASSUME IInv, RoundOK, pc = "list", pc' = "probe", unread = {}, unprobed' = Matches,
         UNCHANGED <<proc, reg, op, listing, live, target, result>>
  PROVE  UNCHANGED Registry!vars
<1>1. Matches' = Matches /\ \A e : \A q \in Pids : Kind(e, q)' = Kind(e, q)
  BY DEF Matches, Kind, Fits
<1>2. UNCHANGED <<[q \in Pids |-> Kind(reg[q], q)], [q \in Pids |-> Listening(q)]>>
  BY <1>1 DEF Listening
<1>3. Told' = Told
  BY DEF Told
<1>4. \A q \in Pids : View(q)' = View(q)
  BY <1>1 DEF View
<1> QED BY <1>2, <1>3, <1>4 DEF Registry!vars

\* Once every entry is read, what matches for Lookup are the matches of pickOne.
LEMMA ReadMatching ==
  ASSUME IInv, pc = "list", unread = {}
  PROVE  Registry!Read /\ Registry!Matching = Matches
<1>1. \A q \in Pids : View(q) = Kind(listing[q], q)
  BY DEF View
<1>2. op # None
  BY Going
<1>3. \A q \in Pids : View(q) # "unseen" /\ (View(q) # "no" <=> q \in Matches)
  BY <1>1, <1>2 DEF Kind, Matches
<1>4. Matches \subseteq Pids
  BY DEF Matches
<1> QED BY <1>3, <1>4 DEF Registry!Read, Registry!Matching

\* When pickOne returns, nothing is known any more but what it told.
LEMMA AnswerEnds ==
  ASSUME pc' \in {"send", "done"}, UNCHANGED <<proc, reg, op>>
  PROVE  /\ [q \in Pids |-> View(q)]' = Registry!Unseen
         /\ UNCHANGED <<[q \in Pids |-> Kind(reg[q], q)], [q \in Pids |-> Listening(q)]>>
<1>1. \A q \in Pids : View(q)' = "unseen" /\ Kind(reg[q], q)' = Kind(reg[q], q)
  BY DEF View, Kind, Fits
<1> QED BY <1>1 DEF Registry!Unseen, Listening

\* The head of pickOne answers with a single match, or none.
LEMMA PickOneLookup ==
  ASSUME IInv, RoundOK, PickOne
  PROVE  Registry!Answer \/ UNCHANGED Registry!vars
<1>1. /\ pc = "list" /\ unread = {} /\ op.how # "list" /\ live = {}
      /\ UNCHANGED <<proc, reg, op, listing, live>>
      /\ op # None /\ op.how # "path" /\ target = None
  BY Going DEF PickOne, env, IInv, LookupOK
<1>2. Registry!Asked /\ Told.as = "finding" /\ Registry!Read /\ Registry!Matching = Matches
  BY <1>1, Going, ReadMatching
<1>3. CASE Matches = {} /\ Fail("notfound")
  <2>1. pc' = "done" /\ result' = "notfound" /\ target' = None
    BY <1>1, <1>3 DEF Fail
  <2>2. Told' = [as |-> "notfound", pids |-> {}]
    BY <1>1, <2>1 DEF Told
  <2>3. Told' = Registry!Choice(Registry!Matching) /\ Registry!Matching = {}
    BY <1>2, <1>3, <2>2 DEF Registry!Choice
  <2> QED BY <1>1, <1>2, <2>1, <2>3, AnswerEnds DEF Registry!Answer
<1>4. ASSUME NEW p \in Matches, Matches = {p}, Found(p) PROVE Registry!Answer
  <2>1. pc' = "send" /\ target' = p /\ p # None /\ p \in Pids
    BY <1>4, DeliveryAssumption DEF Found, Matches
  <2>2. Told' = [as |-> "found", pids |-> {p}]
    BY <1>1, <2>1 DEF Told
  <2>3. Registry!Single(Registry!Matching)
    BY <1>2, <1>4, <2>1 DEF Registry!Single
  <2>4. Told' = Registry!Choice(Registry!Matching)
    BY <1>2, <1>4, <2>2, <2>3 DEF Registry!Choice
  <2> QED BY <1>1, <1>2, <2>1, <2>3, <2>4, AnswerEnds DEF Registry!Answer
<1>5. CASE unprobed' = Matches /\ pc' = "probe" /\ UNCHANGED <<target, result>>
  BY <1>1, <1>5, TurnLookup
<1> QED BY <1>3, <1>4, <1>5 DEF PickOne

\* The tail of pickOne, and a list, answer with what was heard.
LEMMA PickLiveLookup ==
  ASSUME IInv, RoundOK, PickLive
  PROVE  Registry!Answer
<1>1. /\ pc = "probe" /\ unprobed = {} /\ live \subseteq Matches
      /\ UNCHANGED <<proc, reg, op, live>>
      /\ op # None /\ op.how # "path" /\ target = None
      /\ op.how # "list" => \E p, q \in Matches : p # q
  BY Going DEF PickLive, env, IInv, LookupOK, RoundOK
<1>2. \A q \in Pids : View(q) = IF q \in live THEN "live" ELSE IF q \in Matches THEN "silent" ELSE "no"
  BY <1>1 DEF View, Kind, Matches
<1>3. Matches \subseteq Pids
  BY DEF Matches
<1>4. /\ Registry!Matching = Matches /\ Registry!Live = live
      /\ Registry!Read /\ Registry!Heard
  BY <1>1, <1>2, <1>3 DEF Registry!Matching, Registry!Live, Registry!Read, Registry!Heard
<1>5. Registry!Asked /\ Told.as = IF op.how = "list" THEN "listing" ELSE "finding"
  BY <1>1, Going
<1>6. op.how # "list" => ~Registry!Single(Registry!Matching)
  BY <1>1, <1>4 DEF Registry!Single
<1>7. CASE op.how = "list"
  <2>1. pc' = "done" /\ result' = "listed" /\ target' = None
    BY <1>1, <1>7 DEF PickLive, Fail
  <2>2. Told' = [as |-> "listed", pids |-> live]
    BY <1>1, <2>1 DEF Told
  <2> QED BY <1>1, <1>4, <1>5, <1>7, <2>1, <2>2, AnswerEnds DEF Registry!Answer
<1>8. CASE op.how # "list"
  <2>1. /\ pc' \in {"send", "done"}
        /\ Told' = Registry!Choice(live)
    <3>1. CASE live = {} /\ Fail("notfound")
      <4>1. pc' = "done" /\ result' = "notfound" /\ target' = None
        BY <1>1, <3>1 DEF Fail
      <4>2. Told' = [as |-> "notfound", pids |-> {}]
        BY <1>1, <3>1, <4>1 DEF Told
      <4> QED BY <3>1, <4>1, <4>2 DEF Registry!Choice
    <3>2. ASSUME NEW p \in live, live = {p}, Found(p) PROVE <2>1!:
      <4>1. pc' = "send" /\ target' = p /\ p # None /\ p \in Pids
        BY <1>1, <1>3, <3>2, DeliveryAssumption DEF Found
      <4>2. Told' = [as |-> "found", pids |-> {p}]
        BY <1>1, <4>1 DEF Told
      <4> QED BY <3>2, <4>1, <4>2 DEF Registry!Choice, Registry!Single
    <3>3. ASSUME NEW p \in live, NEW q \in live, p # q, Fail("ambiguous") PROVE <2>1!:
      <4>1. pc' = "done" /\ result' = "ambiguous" /\ target' = None
        BY <1>1, <3>3 DEF Fail
      <4>2. Told' = [as |-> "ambiguous", pids |-> live]
        BY <1>1, <4>1 DEF Told
      <4>3. live # {} /\ ~Registry!Single(live)
        BY <3>3 DEF Registry!Single
      <4> QED BY <4>1, <4>2, <4>3 DEF Registry!Choice
    <3> QED BY <1>8, <3>1, <3>2, <3>3 DEF PickLive
  <2> QED BY <1>1, <1>4, <1>5, <1>6, <1>8, <2>1, AnswerEnds DEF Registry!Answer
<1> QED BY <1>7, <1>8

\* Sending and what the receiver does are no part of the lookup.
LEMMA SendLookup ==
  ASSUME IInv, Dial \/ Take \/ Return
  PROVE  UNCHANGED Registry!vars
<1>1. /\ UNCHANGED <<proc, reg, op, listing, live, target>> /\ op # None
      /\ pc \in {"send", "wait", "done"} /\ pc' \in {"send", "wait", "done"}
      /\ target # None
  BY DEF Dial, Take, Return, Fail, env, find, IInv, LookupOK
<1>2. \A q \in Pids : Kind(reg[q], q)' = Kind(reg[q], q)
  BY <1>1 DEF Kind, Fits
<1>3. \A q \in Pids : View(q) = "unseen" /\ View(q)' = "unseen"
  BY <1>1 DEF View
<1>4. Told' = Told
  BY <1>1 DEF Told
<1>5. UNCHANGED [q \in Pids |-> Listening(q)]
  BY <1>1 DEF Listening
<1> QED BY <1>2, <1>3, <1>4, <1>5 DEF Registry!vars

\* Every step is one of Lookup's, or a stutter of it.
LEMMA StepLookup ==
  IInv /\ RoundOK /\ [Next]_vars => [Registry!Next]_Registry!vars
<1> SUFFICES ASSUME IInv, RoundOK, [Next]_vars PROVE [Registry!Next]_Registry!vars
  OBVIOUS
<1>1. CASE World \/ UNCHANGED vars
  <2>1. UNCHANGED <<op, pc, unread, listing, unprobed, live, target, result>>
    BY <1>1 DEF World, StartSession, StartOther, Clear, Die, vars, find
  <2> QED BY <2>1, WorldLookup DEF Registry!Next
<1>2. CASE \E o \in Ops : Begin(o)
  BY <1>2, BeginLookup DEF Registry!Next
<1>3. CASE \E p \in Pids : ReadEntry(p) \/ ProbeOne(p)
  BY <1>3, ReadLookup, ProbeLookup DEF Registry!Next
<1>4. CASE PickAll
  <2>1. /\ pc = "list" /\ pc' = "probe" /\ unread = {} /\ unprobed' = Matches
        /\ UNCHANGED <<proc, reg, op, listing, live, target, result>>
    BY <1>4 DEF PickAll, env
  <2> QED BY <2>1, TurnLookup
<1>5. CASE PickOne \/ PickLive
  BY <1>5, PickOneLookup, PickLiveLookup DEF Registry!Next
<1>6. CASE Dial \/ Take \/ Return
  BY <1>6, SendLookup
<1> QED BY <1>1, <1>2, <1>3, <1>4, <1>5, <1>6 DEF Next, Call

\* However sessions change while it reads and probes, a lookup answers as
\* pickOne does for entries and probes that each were so during the call.
THEOREM DeliveryLooksUp == Spec => ImplementsLookup
<1>1. Init => RoundOK
  BY DEF Init, RoundOK
<1> QED BY <1>1, InitLookup, RoundStep, StepLookup, Invariance, PTL
    DEF Spec, Registry!Spec, ImplementsLookup
=============================================================================
