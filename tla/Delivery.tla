------------------------------ MODULE Delivery ------------------------------
(***************************************************************************)
(* Finding a session through the on-disk registry and sending it a frame:  *)
(* ListSessions, the Find functions and pickOne of session.go, the Send,   *)
(* SendTo and Rename functions of client.go, and cc-send list.             *)
(*                                                                         *)
(* One call of the library is followed from its start to its return.  In   *)
(* between any of its steps the rest of the machine moves: sessions start, *)
(* /clear, exit, crash, and their PIDs are recycled onto other processes,  *)
(* one of which may be a Go program with an Inbox, which binds the socket  *)
(* path of its PID just as a session does (inbox.go:105).                  *)
(*                                                                         *)
(* A PID stands for its registry file <pid>.json and for its socket path   *)
(* <pid>.sock as well.  A start token is the number of the process among   *)
(* those that have had the PID.                                            *)
(***************************************************************************)
EXTENDS Naturals

CONSTANTS
  Pids,        \* process IDs
  SessionIds,  \* session UUIDs
  Names,       \* names sessions answer to
  Presets,     \* values of Message.SessionID callers pass; None is ""
  MaxStart,    \* how many processes may have each PID, one after another
  None         \* no value: an empty string, no file, no connection

\* A registry file; a process and how many have had its PID before it.
Entries == [sid : SessionIds, name : Names, procStart : 1..MaxStart, sock : BOOLEAN]
Processes ==
  [kind : {"none", "session", "bare", "inbox", "other"}, start : 0..MaxStart,
   sid : SessionIds \cup {None}, name : Names \cup {None}]

\* A lookup and what it looks for, a frame and the Message.SessionID of it.  A
\* "path" is given by the caller and nothing is looked up; a "list" is cc-send
\* list, which sends nothing.
Ops ==
       [how : {"pid"}, key : Pids, frame : {"user", "rename"}, preset : Presets]
  \cup [how : {"sid"}, key : SessionIds, frame : {"user"}, preset : Presets]
  \cup [how : {"name"}, key : Names, frame : {"user"}, preset : Presets]
  \cup [how : {"session"}, key : Pids, sid : SessionIds, frame : {"user"}, preset : Presets]
  \cup [how : {"proc"}, key : Pids, token : 1..MaxStart, frame : {"user"}, preset : Presets]
  \cup [how : {"path"}, key : Pids, frame : {"user", "rename"}, preset : Presets]
  \cup [how : {"list"}, frame : {"none"}, preset : {None}]

\* What acted on a frame, and the session ID it had.
Receivers == [kind : {"session", "inbox"}, sid : SessionIds \cup {None}]

ASSUME DeliveryAssumption ==
  /\ MaxStart \in Nat
  /\ None \notin Pids \cup SessionIds \cup Names \cup Entries \cup Ops \cup Receivers
  /\ Presets \subseteq SessionIds \cup {None}

VARIABLES
  proc,      \* the process that has each PID
  reg,       \* the registry file of each PID
  op,        \* the call: which lookup, its key, the frame to send
  pc,        \* where the call is
  unread,    \* registry files ReadDir listed and readSessionFile has not read
  listing,   \* the entries read so far, by PID
  unprobed,  \* matches pickOne has not probed yet
  live,      \* matches whose socket answered
  target,    \* the PID of the entry the lookup returned
  conn,      \* the connection: the process at the other end, the stamped ID
  taken,     \* that process has read the frame off the socket
  got,       \* what acted on the frame, and the session ID it had then
  result,    \* what the call returned
  steady,    \* history: PIDs registered and listening at the start of the call
             \* whose process and entry have not changed since, and whose
             \* probe did not time out
  same       \* history: PIDs whose process has not changed during the call

env  == <<proc, reg, steady, same>>
find == <<op, unread, listing, unprobed, live, target>>
wire == <<conn, taken, got>>
vars == <<env, find, wire, pc, result>>

-----------------------------------------------------------------------------
\* Something accepts connections on the socket path of p: Probe would succeed.
Listening(p) == proc[p].kind \in {"session", "inbox"}

\* Session p runs, listens, and has an entry of its own that names its socket.
Registered(p) ==
  /\ proc[p].kind = "session" /\ reg[p] # None /\ reg[p].sock
  /\ reg[p].procStart = proc[p].start /\ reg[p].sid = proc[p].sid

\* Mutant of Fits: MatchesProcess wants an entry with a socket as well.
FitsSocketOnly(e, p) ==
  \/ op.how = "pid" /\ p = op.key
  \/ op.how = "sid" /\ e.sid = op.key
  \/ op.how = "name" /\ e.name = op.key
  \/ op.how = "session" /\ p = op.key /\ e.sid = op.sid
  \/ op.how = "proc" /\ p = op.key /\ e.procStart = op.token /\ e.sock
  \/ op.how = "list"

\* The entry read for p is one the lookup asks for.
Fits(e, p) ==
  \/ op.how = "pid" /\ p = op.key
  \/ op.how = "sid" /\ e.sid = op.key
  \/ op.how = "name" /\ e.name = op.key
  \/ op.how = "session" /\ p = op.key /\ e.sid = op.sid
  \/ op.how = "proc" /\ p = op.key /\ e.procStart = op.token
  \/ op.how = "list"

Matches == {p \in Pids : listing[p] # None /\ Fits(listing[p], p)}

Init ==
  /\ proc = [p \in Pids |-> [kind |-> "none", start |-> 0, sid |-> None, name |-> None]]
  /\ reg = [p \in Pids |-> None]
  /\ op = None /\ pc = "idle" /\ target = None /\ result = "none"
  /\ unread = {} /\ unprobed = {} /\ live = {}
  /\ listing = [p \in Pids |-> None]
  /\ conn = None /\ taken = FALSE /\ got = None
  /\ steady = {} /\ same = {}

-----------------------------------------------------------------------------
(* The sessions and the other processes of the machine.                    *)

\* A session starts and registers itself; a bare one binds no inbox.
StartSession(p, kind, s, n) ==
  /\ proc[p].kind = "none" /\ proc[p].start < MaxStart
  /\ proc' = [proc EXCEPT ![p] = [kind |-> kind, start |-> @.start + 1, sid |-> s, name |-> n]]
  /\ reg' = [reg EXCEPT ![p] = [sid |-> s, name |-> n, procStart |-> proc[p].start + 1,
                                sock |-> kind = "session"]]
  /\ UNCHANGED <<find, wire, pc, result, steady, same>>

\* The PID goes to a process that is not a session: it leaves the registry
\* alone.  An "inbox" is a Go program that has called Listen.
StartOther(p, kind) ==
  /\ proc[p].kind = "none" /\ proc[p].start < MaxStart
  /\ proc' = [proc EXCEPT ![p] = [kind |-> kind, start |-> @.start + 1, sid |-> None, name |-> None]]
  /\ UNCHANGED <<reg, find, wire, pc, result, steady, same>>

\* /clear: the session mints a new ID and rewrites its entry with it.
Clear(p, s) ==
  /\ proc[p].kind \in {"session", "bare"} /\ reg[p] # None
  /\ \A q \in Pids : proc[q].sid # s /\ (reg[q] # None => reg[q].sid # s)
  /\ proc' = [proc EXCEPT ![p].sid = s]
  /\ reg' = [reg EXCEPT ![p].sid = s]
  /\ steady' = steady \ {p}
  /\ UNCHANGED <<find, wire, pc, result, same>>

\* A process ends.  A session that shuts down removes its entry, one that
\* crashes leaves it behind.
Die(p) ==
  /\ proc[p].kind # "none"
  /\ proc' = [proc EXCEPT ![p] = [kind |-> "none", start |-> @.start, sid |-> None, name |-> None]]
  /\ \/ reg' = reg
     \/ proc[p].kind \in {"session", "bare"} /\ reg' = [reg EXCEPT ![p] = None]
  /\ steady' = steady \ {p} /\ same' = same \ {p}
  /\ UNCHANGED <<find, wire, pc, result>>

-----------------------------------------------------------------------------
(* The call.                                                               *)

\* The caller calls a Find or SendTo function; ListSessions reads the names of
\* the registry files.  A remembered token is that of a process that has been.
\* SendToSocket, SendToAddress and Rename have their path already.
Begin(o) ==
  /\ pc = "idle"
  /\ o.how = "proc" => o.token <= proc[o.key].start
  /\ op' = o
  /\ \/ o.how # "path" /\ pc' = "list" /\ unread' = {p \in Pids : reg[p] # None} /\ UNCHANGED target
     \/ o.how = "path" /\ pc' = "send" /\ target' = o.key /\ UNCHANGED unread
  /\ steady' = {p \in Pids : Registered(p)}
  /\ same' = {p \in Pids : proc[p].kind # "none"}
  /\ UNCHANGED <<proc, reg, listing, unprobed, live, wire, result>>

\* readSessionFile; a file that is gone by now is skipped.
ReadEntry(p) ==
  /\ pc = "list" /\ p \in unread
  /\ unread' = unread \ {p}
  /\ listing' = [listing EXCEPT ![p] = reg[p]]
  /\ UNCHANGED <<env, op, pc, unprobed, live, target, wire, result>>

Found(p) == target' = p /\ pc' = "send" /\ UNCHANGED result
Fail(r)  == result' = r /\ pc' = "done" /\ UNCHANGED target

\* Mutant of PickAll: one entry is listed without a probe.
PickAllTwo ==
  /\ pc = "list" /\ unread = {} /\ op.how = "list"
  /\ IF \E p, q \in Matches : p # q
     THEN unprobed' = Matches /\ pc' = "probe" /\ UNCHANGED result
     ELSE pc' = "done" /\ result' = "listed" /\ UNCHANGED unprobed
  /\ UNCHANGED <<env, op, unread, listing, live, target, wire>>

\* listCmd probes every entry, all at the same time.
PickAll ==
  /\ pc = "list" /\ unread = {} /\ op.how = "list"
  /\ unprobed' = Matches /\ pc' = "probe"
  /\ UNCHANGED <<env, op, unread, listing, live, target, wire, result>>

\* The head of pickOne: a single match is returned unprobed.
PickOne ==
  /\ pc = "list" /\ unread = {} /\ op.how # "list"
  /\ \/ Matches = {} /\ Fail("notfound") /\ UNCHANGED unprobed
     \/ \E p \in Matches : Matches = {p} /\ Found(p) /\ UNCHANGED unprobed
     \/ /\ \E p, q \in Matches : p # q
        /\ unprobed' = Matches /\ pc' = "probe" /\ UNCHANGED <<target, result>>
  /\ UNCHANGED <<env, op, unread, listing, live, wire>>

\* Mutant of ProbeOne: a match whose entry names a socket is taken for reachable.
ProbeOneTrusting(p) ==
  /\ pc = "probe" /\ p \in unprobed
  /\ unprobed' = unprobed \ {p}
  /\ IF listing[p].sock THEN live' = live \cup {p} /\ UNCHANGED steady
     ELSE steady' = steady \ {p} /\ UNCHANGED live
  /\ UNCHANGED <<proc, reg, same, op, pc, unread, listing, target, wire, result>>

\* Session.Reachable of one match.  The probe of a listener may time out.
ProbeOne(p) ==
  /\ pc = "probe" /\ p \in unprobed
  /\ unprobed' = unprobed \ {p}
  /\ \/ /\ listing[p].sock /\ Listening(p)
        /\ live' = live \cup {p} /\ UNCHANGED steady
     \/ steady' = steady \ {p} /\ UNCHANGED live
  /\ UNCHANGED <<proc, reg, same, op, pc, unread, listing, target, wire, result>>

\* Mutant of PickLive: the first match that answers is taken.
PickFirstLive ==
  /\ pc = "probe" /\ unprobed = {}
  /\ \/ op.how = "list" /\ Fail("listed")
     \/ op.how # "list" /\ live = {} /\ Fail("notfound")
     \/ op.how # "list" /\ (\E p \in live : Found(p))
  /\ UNCHANGED <<env, op, unread, listing, unprobed, live, wire>>

\* The tail of pickOne; listCmd shows what answered as live.
PickLive ==
  /\ pc = "probe" /\ unprobed = {}
  /\ \/ op.how = "list" /\ Fail("listed")
     \/ op.how # "list" /\ live = {} /\ Fail("notfound")
     \/ op.how # "list" /\ \E p \in live : live = {p} /\ Found(p)
     \/ op.how # "list" /\ (\E p, q \in live : p # q) /\ Fail("ambiguous")
  /\ UNCHANGED <<env, op, unread, listing, unprobed, live, wire>>

\* Mutants of StampOf: Send forgets to stamp, RenameSession forgets to stamp,
\* the stamp is taken from another match, the caller's own ID is overwritten.
Unstamped == IF op.frame = "user" THEN op.preset ELSE None
StampSendUnstamped ==
  IF op.frame = "user" \/ op.how = "path" THEN Unstamped ELSE listing[target].sid
StampRenameUnstamped ==
  IF op.frame = "rename" \/ op.how = "path" THEN Unstamped
  ELSE IF op.preset = None THEN listing[target].sid ELSE op.preset
StampFirstMatch ==
  IF op.how = "path" THEN Unstamped ELSE listing[CHOOSE p \in Matches : TRUE].sid
StampOverwrites == IF op.how = "path" THEN Unstamped ELSE listing[target].sid

\* The session ID put on the frame: Send keeps the caller's, RenameSession and
\* Send with an empty one take the entry's; without an entry there is only the
\* caller's, and none for a Rename.
StampOf ==
  IF op.frame = "user" /\ (op.preset # None \/ op.how = "path") THEN op.preset
  ELSE IF op.how = "path" THEN None
  ELSE listing[target].sid

\* Send or a Rename, then writeFrame: dial, write, half-close.  The entry may
\* name no socket, nothing may listen there, the dial may time out.
Dial ==
  /\ pc = "send"
  /\ \/ /\ (op.how # "path" => listing[target].sock) /\ Listening(target)
        /\ conn' = [start |-> proc[target].start, stamp |-> StampOf]
        /\ pc' = "wait" /\ UNCHANGED result
     \/ Fail("error") /\ UNCHANGED conn
  /\ UNCHANGED <<env, find, taken, got>>

\* The process at the other end is the one that accepted the connection.
PeerAlive == proc[target].kind # "none" /\ proc[target].start = conn.start

\* The receiver reads the frame and closes.  A session drops a frame stamped
\* with another ID; an Inbox has no ID to compare and looks only at the type.
Take ==
  /\ conn # None /\ ~taken /\ PeerAlive
  /\ taken' = TRUE
  /\ \/ /\ proc[target].kind = "session" /\ conn.stamp \in {None, proc[target].sid}
        /\ got' = [kind |-> "session", sid |-> proc[target].sid]
     \/ /\ proc[target].kind = "session" /\ conn.stamp \notin {None, proc[target].sid}
        /\ got' = got
     \/ /\ proc[target].kind = "inbox"
        /\ got' = IF op.frame = "user" THEN [kind |-> "inbox", sid |-> None] ELSE got
  /\ UNCHANGED <<env, find, conn, pc, result>>

\* writeFrame sees the receiver close, be it after Take or by dying, or gives
\* up at the deadline, when the frame stays in the socket.
Return ==
  /\ pc = "wait"
  /\ \/ taken /\ Fail("nil")
     \/ Fail("error")
  /\ UNCHANGED <<env, op, unread, listing, unprobed, live, wire>>

-----------------------------------------------------------------------------
World ==
  \E p \in Pids :
    \/ \E k \in {"session", "bare"}, s \in SessionIds, n \in Names : StartSession(p, k, s, n)
    \/ \E k \in {"inbox", "other"} : StartOther(p, k)
    \/ \E s \in SessionIds : Clear(p, s)
    \/ Die(p)

Call ==
  \/ \E p \in Pids : ReadEntry(p) \/ ProbeOne(p)
  \/ PickAll \/ PickOne \/ PickLive \/ Dial \/ Return

Next == World \/ (\E o \in Ops : Begin(o)) \/ Call \/ Take

Spec == Init /\ [][Next]_vars

-----------------------------------------------------------------------------
(* The lookup, as Lookup sees it.                                          *)

\* What entry e of p is to the lookup.
Kind(e, p) ==
  IF op = None \/ e = None \/ ~Fits(e, p) THEN "no" ELSE IF e.sock THEN "sock" ELSE "bare"

\* What the call knows of p.
View(p) ==
  IF \/ pc = "list" /\ p \notin unread
     \/ pc = "probe" /\ p \notin Matches \ unprobed
  THEN Kind(listing[p], p)
  ELSE IF pc = "probe" THEN IF p \in live THEN "live" ELSE "silent"
  ELSE "unseen"

\* What the caller has asked, and what it has been told.
Told ==
  IF op = None \/ op.how = "path" THEN [as |-> "idle", pids |-> {}]
  ELSE IF pc \in {"list", "probe"}
       THEN [as |-> IF op.how = "list" THEN "listing" ELSE "finding", pids |-> {}]
  ELSE IF target # None THEN [as |-> "found", pids |-> {target}]
  ELSE [as |-> result, pids |-> live]

Registry ==
  INSTANCE Lookup WITH entry <- [p \in Pids |-> Kind(reg[p], p)],
                       answers <- [p \in Pids |-> Listening(p)],
                       view <- [p \in Pids |-> View(p)], out <- Told

-----------------------------------------------------------------------------
TypeOK ==
  /\ proc \in [Pids -> Processes]
  /\ reg \in [Pids -> Entries \cup {None}]
  /\ op \in Ops \cup {None}
  /\ pc \in {"idle", "list", "probe", "send", "wait", "done"}
  /\ listing \in [Pids -> Entries \cup {None}]
  /\ unread \subseteq Pids /\ unprobed \subseteq Pids /\ live \subseteq Pids
  /\ steady \subseteq Pids /\ same \subseteq Pids
  /\ target \in Pids \cup {None}
  /\ conn \in [start : 0..MaxStart, stamp : SessionIds \cup {None}] \cup {None}
  /\ conn # None /\ op.how # "path" => conn.stamp # None
  /\ taken \in BOOLEAN
  /\ got \in Receivers \cup {None}
  /\ result \in {"none", "nil", "listed", "notfound", "ambiguous", "error"}

\* The session the caller means: the ID it set on the message or looked up,
\* else the one of the entry the lookup returned.  One that sends to a path and
\* sets no ID means whoever listens there.
WantedId ==
  IF op.frame = "user" /\ op.preset # None THEN op.preset
  ELSE IF op.how = "sid" THEN op.key
  ELSE IF op.how = "session" THEN op.sid
  ELSE listing[target].sid

AnySession == op.how = "path" /\ (op.preset = None \/ op.frame = "rename")

\* client.go:66-68, message.go:42-44: however stale the entry a lookup returned,
\* or the path the caller kept, is by the time the frame is read, no session
\* acts on the frame but the one meant.
NoMisdelivery ==
  got # None /\ got.kind = "session" /\ ~AnySession => got.sid = WantedId

\* client.go:146-148: a rename takes effect on the session of the entry, and on
\* nothing else that may listen on the path by then.
NoMisrename ==
  got # None /\ op.frame = "rename" =>
    /\ got.kind = "session"
    /\ op.how # "path" => got.sid = listing[target].sid

\* README.md:113-116: a stale entry cannot misdeliver the message to whatever
\* now listens on that path.
NoStrangerActs ==
  got # None /\ ~AnySession => got.kind = "session" /\ got.sid = WantedId

\* README.md:61-64, pickOne: a session that fits the lookup, and is registered
\* and listening while the lookup lasts, is the one it returns, or the lookup
\* is ambiguous.  Two such sessions are never chosen between.
SteadyWins ==
  pc \in {"send", "wait", "done"} /\ op.how \in {"sid", "name"} =>
    \A p \in steady : Fits(reg[p], p) => target = p \/ result = "ambiguous"

\* listCmd, main.go:113-125: a session that is registered and listening all
\* along is shown, as it is, and as live, whatever the others do meanwhile.
SteadyListed ==
  result = "listed" => \A p \in steady : p \in live /\ listing[p] = reg[p]

\* Send, writeFrame: the frame is not lost on a session that keeps its entry:
\* if it reads the frame, it acts on it.
SteadyAccepts ==
  taken /\ target \in steady /\ (op.preset = None \/ op.frame = "rename") =>
    got # None /\ got.kind = "session"

\* pickOne, ListSessions: a lookup answers as it would for entries, and then
\* probes, that each were so at some instant of the call, whatever sessions and
\* recycled PIDs do between its reads.
ImplementsLookup == Registry!Spec

\* session.go:283-287: a caller that remembered the start token of a session
\* that is still running finds it, whatever /clear did to its ID.
TokenSurvivesClear ==
  pc = "done" /\ op.how = "proc" /\ result = "notfound" =>
    ~(op.key \in same /\ proc[op.key].start = op.token
      /\ proc[op.key].kind \in {"session", "bare"})

\* session.go:293-295: FindByPIDForProcess returns an entry only if the PID has
\* not gone to another process since the token was recorded.
TokenBarsRecycled ==
  target # None /\ op.how = "proc" =>
    ~(op.key \in same /\ proc[op.key].start # op.token)
=============================================================================
