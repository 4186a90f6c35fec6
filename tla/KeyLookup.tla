----------------------------- MODULE KeyLookup -----------------------------
(***************************************************************************)
(* The auth token put on a frame: resolveToken of client.go, LookupToken   *)
(* and rankKeyOwner of auth.go, processAlive and processStartToken.        *)
(*                                                                         *)
(* One socket path, which sessions bind one after another, each publishing *)
(* a key file <pid>.<hash of the path>.key.  While a lookup reads the key  *)
(* files and asks after their owners, owners die, leave their key behind   *)
(* or not, and their PIDs go to other processes.  A key is identified by   *)
(* the process that published it: its PID and its number among those that  *)
(* have had that PID.  A key names the start token of its process or not;  *)
(* on a platform without start tokens (procstart_other.go) it may as well  *)
(* not.                                                                    *)
(***************************************************************************)
EXTENDS Integers

CONSTANTS
  Pids,      \* process IDs
  MaxStart,  \* how many processes may have each PID, one after another
  NoKey      \* no key file, no token

ASSUME KeyLookupAssumption ==
  /\ MaxStart \in Nat
  /\ NoKey \notin Pids \cup [pid : Pids, by : 1..MaxStart, stamped : BOOLEAN]

\* The key file a process publishes; stamped: it names its start token.
Keys == [pid : Pids, by : 1..MaxStart, stamped : BOOLEAN]

VARIABLES
  start,     \* how many processes have had each PID
  alive,     \* the PIDs in use
  listener,  \* the PID of the session that has bound the path
  key,       \* the key file of each PID
  pc,        \* where the lookup is
  unread,    \* key files listed and not read yet
  cur,       \* the key whose owner rankKeyOwner is asked about
  best,      \* the best key so far, and its rank
  bestRank,
  steady,    \* history: the listener, if it has been since the lookup began
  used,      \* history: PIDs in use at some time since the lookup began
  unsure     \* history: PIDs whose start token could not be read

world  == <<start, alive, listener, key>>
lookup == <<pc, unread, cur, best, bestRank>>
past   == <<steady, used, unsure>>
vars   == <<world, lookup, past>>

Init ==
  /\ start = [p \in Pids |-> 0] /\ alive = {} /\ listener = NoKey
  /\ key = [p \in Pids |-> NoKey]
  /\ pc = "idle" /\ unread = {} /\ cur = NoKey /\ best = NoKey /\ bestRank = -1
  /\ steady = {} /\ used = {} /\ unsure = {}

-----------------------------------------------------------------------------
(* The processes of the machine                                            *)

\* PID p goes to a process: a session that binds the path when it is free and
\* publishes its key, or anything else.
StartProcess(p, session) ==
  /\ p \notin alive /\ start[p] < MaxStart
  /\ start' = [start EXCEPT ![p] = @ + 1] /\ alive' = alive \cup {p}
  /\ used' = used \cup {p}
  /\ \/ /\ session /\ listener = NoKey
        /\ listener' = p
        /\ \E stamped \in BOOLEAN :
             key' = [key EXCEPT ![p] = [pid |-> p, by |-> start[p] + 1, stamped |-> stamped]]
     \/ ~session /\ UNCHANGED <<listener, key>>
  /\ UNCHANGED <<lookup, steady, unsure>>

\* A process ends; a session that shuts down removes its key, one that crashes
\* leaves it.
Die(p) ==
  /\ p \in alive /\ alive' = alive \ {p}
  /\ listener' = IF listener = p THEN NoKey ELSE listener
  /\ \/ listener = p /\ key' = [key EXCEPT ![p] = NoKey]
     \/ UNCHANGED key
  /\ steady' = steady \ {p}
  /\ UNCHANGED <<start, lookup, used, unsure>>

-----------------------------------------------------------------------------
(* The lookup                                                              *)

\* resolveToken: Client.NoAuth, Client.Token and the token of our own session
\* come before the key files.
Resolve ==
  /\ pc = "idle"
  /\ \/ pc' = "done" /\ UNCHANGED <<unread, steady, used>>
     \/ /\ pc' = "read" /\ unread' = {p \in Pids : key[p] # NoKey}
        /\ steady' = {p \in alive : listener = p} /\ used' = alive
  /\ UNCHANGED <<world, cur, best, bestRank, unsure>>

\* Mutant of ReadKey: a file that is gone is not skipped.
ReadKeyGone(p) ==
  /\ pc = "read" /\ p \in unread /\ unread' = unread \ {p}
  /\ pc' = "alive" /\ cur' = key[p]
  /\ UNCHANGED <<world, best, bestRank, past>>

\* readKeyFile of the next file; one that is gone is skipped.
ReadKey(p) ==
  /\ pc = "read" /\ p \in unread /\ unread' = unread \ {p}
  /\ \/ key[p] = NoKey /\ UNCHANGED <<pc, cur>>
     \/ key[p] # NoKey /\ pc' = "alive" /\ cur' = key[p]
  /\ UNCHANGED <<world, best, bestRank, past>>

\* The token is kept when its owner ranks higher than the best so far.
Consider(rank) ==
  /\ pc' = "read"
  /\ \/ rank > bestRank /\ best' = cur /\ bestRank' = rank
     \/ rank <= bestRank /\ UNCHANGED <<best, bestRank>>

\* Mutants of CheckAlive: the start token is never asked for, nor the PID.
CheckAliveOnly ==
  /\ pc = "alive" /\ Consider(IF cur.pid \in alive THEN 2 ELSE 0)
  /\ UNCHANGED <<world, unread, cur, past>>
CheckNothing ==
  /\ pc = "alive" /\ Consider(1)
  /\ UNCHANGED <<world, unread, cur, past>>

\* processAlive: a dead owner ranks 0, a live one whose key names no start
\* token ranks 1.
CheckAlive ==
  /\ pc = "alive"
  /\ \/ cur.pid \notin alive /\ Consider(0)
     \/ cur.pid \in alive /\ ~cur.stamped /\ Consider(1)
     \/ cur.pid \in alive /\ cur.stamped /\ pc' = "token" /\ UNCHANGED <<best, bestRank>>
  /\ UNCHANGED <<world, unread, cur, past>>

\* processStartToken, by when the owner may be gone.  When the token cannot be read,
\* because of that or for want of a descriptor or of time, the owner ranks 1.
CheckToken ==
  /\ pc = "token"
  /\ \/ /\ cur.pid \in alive
        /\ Consider(IF start[cur.pid] = cur.by THEN 2 ELSE 0) /\ UNCHANGED unsure
     \/ Consider(1) /\ unsure' = unsure \cup {cur.pid}
  /\ UNCHANGED <<world, unread, cur, steady, used>>

Return ==
  /\ pc = "read" /\ unread = {} /\ pc' = "sent"
  /\ UNCHANGED <<world, unread, cur, best, bestRank, past>>

-----------------------------------------------------------------------------
Next ==
  \/ \E p \in Pids :
       \/ \E session \in BOOLEAN : StartProcess(p, session)
       \/ Die(p)
       \/ ReadKey(p)
  \/ Resolve \/ CheckAlive \/ CheckToken \/ Return

Spec == Init /\ [][Next]_vars

-----------------------------------------------------------------------------
TypeOK ==
  /\ start \in [Pids -> 0..MaxStart] /\ alive \subseteq Pids
  /\ listener \in Pids \cup {NoKey}
  /\ key \in [Pids -> Keys \cup {NoKey}]
  /\ pc \in {"idle", "read", "alive", "token", "sent", "done"}
  /\ unread \subseteq Pids /\ best \in Keys \cup {NoKey} /\ bestRank \in -1..2
  /\ cur \in IF pc \in {"alive", "token"} THEN Keys ELSE Keys \cup {NoKey}
  /\ steady \subseteq Pids /\ used \subseteq Pids /\ unsure \subseteq Pids

\* auth.go:76-79: when the session that listens on the path while the lookup
\* lasts has named its start token, and that could be read, its key is the one
\* sent, whatever keys of earlier owners are left and whatever is read of those.
SteadyTokenSent ==
  pc = "sent" => \A p \in steady : key[p].stamped /\ p \notin unsure => best = key[p]

\* auth.go:76-79: the key of an owner whose PID nobody has had since the lookup
\* began is not sent while a session listens, named start tokens or not.
DeadTokenNotSent ==
  pc = "sent" /\ steady # {} => best # NoKey /\ best.pid \in used
=============================================================================
