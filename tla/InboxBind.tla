----------------------------- MODULE InboxBind -----------------------------
(***************************************************************************)
(* The life of the Inboxes of one PID: Listen and Close of inbox.go with   *)
(* withTightUmask of platform_unix.go, one step per system call.           *)
(*                                                                         *)
(* All Inboxes of a process share one socket path, the default one of its  *)
(* PID, one umask and one umaskMu.  A call c stands for a call of Listen   *)
(* and, once it has returned an Inbox, for that Inbox and its Close.  The  *)
(* process may crash at any point, which leaves the socket file behind for *)
(* the next process with the PID.                                          *)
(***************************************************************************)
EXTENDS Naturals

CONSTANTS
  Calls,   \* calls of Listen
  NoCall   \* no file on the path, nobody holds the mutex

ASSUME InboxBindAssumption == NoCall \notin Calls

VARIABLES
  pc,     \* where each call is
  ok,     \* whether its net.Listen succeeded
  saved,  \* the umask withTightUmask is to restore
  file,   \* the call whose socket is bound to the path
  mode,   \* the permissions of that file
  lsn,    \* the calls whose listening socket is open
  umask,  \* of the process
  mu,     \* the holder of umaskMu
  overlapped,  \* history: a Listen or Close of this process began during another
  misled       \* history: a probe found nobody where this process was listening

history == <<overlapped, misled>>
vars == <<pc, ok, saved, file, mode, lsn, umask, mu, history>>

-----------------------------------------------------------------------------
Returned == {"idle", "open", "failed", "closed", "dead"}

\* A Listen or Close begins, perhaps during another: the code does not care.
Begins == overlapped' = (overlapped \/ \E d \in Calls : pc[d] \notin Returned)

\* A connection to the path would be accepted.
Live == file \in lsn

Goto(c, from, to) == pc[c] = from /\ pc' = [pc EXCEPT ![c] = to]

Init ==
  /\ pc = [c \in Calls |-> "idle"] /\ ok = [c \in Calls |-> FALSE]
  /\ saved = [c \in Calls |-> "user"]
  /\ file = NoCall /\ mode = "tight" /\ lsn = {}
  /\ umask = "user" /\ mu = NoCall /\ overlapped = FALSE /\ misled = FALSE

-----------------------------------------------------------------------------
(* Listen                                                                  *)

\* Listen begins; ensureSocketDir may refuse the directory.
Listen(c) ==
  /\ Begins
  /\ Goto(c, "idle", "probe") \/ Goto(c, "idle", "failed")
  /\ UNCHANGED <<ok, saved, file, mode, lsn, umask, mu, misled>>

\* Mutant of ProbePath: a probe that is answered does not stop Listen.
ProbeIgnored(c) ==
  /\ Goto(c, "probe", "remove")
  /\ misled' = misled
  /\ UNCHANGED <<ok, saved, file, mode, lsn, umask, mu, overlapped>>

\* Probe of the path: Listen gives up when something accepts there.  Whatever
\* stops the dial (no descriptor, a full accept queue, the timeout) passes for
\* nobody listening.
ProbePath(c) ==
  /\ \/ Live /\ Goto(c, "probe", "failed") /\ UNCHANGED misled
     \/ Goto(c, "probe", "remove") /\ misled' = (misled \/ Live)
  /\ UNCHANGED <<ok, saved, file, mode, lsn, umask, mu, overlapped>>

\* Mutant of RemoveStale: a file left behind stays.
RemoveNothing(c) ==
  /\ Goto(c, "remove", "lock")
  /\ UNCHANGED <<ok, saved, file, mode, lsn, umask, mu, history>>

\* os.Remove of whatever is on the path by now.
RemoveStale(c) ==
  /\ Goto(c, "remove", "lock")
  /\ file' = NoCall
  /\ UNCHANGED <<ok, saved, mode, lsn, umask, mu, history>>

\* Mutant of LockUmask: umaskMu is not taken.
LockSkipped(c) ==
  /\ Goto(c, "lock", "tighten")
  /\ mu' = c
  /\ UNCHANGED <<ok, saved, file, mode, lsn, umask, history>>

LockUmask(c) ==
  /\ mu = NoCall
  /\ Goto(c, "lock", "tighten")
  /\ mu' = c
  /\ UNCHANGED <<ok, saved, file, mode, lsn, umask, history>>

\* Mutant of Tighten: the umask is left as it is.
TightenNot(c) ==
  /\ Goto(c, "tighten", "bind")
  /\ saved' = [saved EXCEPT ![c] = umask]
  /\ UNCHANGED <<ok, file, mode, lsn, umask, mu, history>>

\* Mutant of Tighten: the umask that syscall.Umask returns is not kept.
TightenForgets(c) ==
  /\ Goto(c, "tighten", "bind")
  /\ saved' = [saved EXCEPT ![c] = "zero"]
  /\ umask' = "tight"
  /\ UNCHANGED <<ok, file, mode, lsn, mu, history>>

Tighten(c) ==
  /\ Goto(c, "tighten", "bind")
  /\ saved' = [saved EXCEPT ![c] = umask]
  /\ umask' = "tight"
  /\ UNCHANGED <<ok, file, mode, lsn, mu, history>>

\* bind(2), which fails when the path exists, or for want of resources.
Bind(c) ==
  /\ \/ /\ file = NoCall /\ Goto(c, "bind", "listen")
        /\ file' = c /\ mode' = IF umask = "tight" THEN "tight" ELSE "loose"
     \/ Goto(c, "bind", "restore") /\ UNCHANGED <<file, mode>>
  /\ UNCHANGED <<ok, saved, lsn, umask, mu, history>>

\* listen(2): only from here on does a probe of the path succeed.
StartListening(c) ==
  /\ Goto(c, "listen", "restore")
  /\ ok' = [ok EXCEPT ![c] = TRUE] /\ lsn' = lsn \cup {c}
  /\ UNCHANGED <<saved, file, mode, umask, mu, history>>

\* The deferred calls of withTightUmask, last one first.
Restore(c) ==
  /\ Goto(c, "restore", "unlock")
  /\ umask' = saved[c]
  /\ UNCHANGED <<ok, saved, file, mode, lsn, mu, history>>

\* Mutant of Unlock: the mutex is released on success only.
UnlockOnSuccess(c) ==
  /\ \/ ok[c] /\ Goto(c, "unlock", "chmod") /\ mu' = NoCall
     \/ ~ok[c] /\ Goto(c, "unlock", "failed") /\ UNCHANGED mu
  /\ UNCHANGED <<ok, saved, file, mode, lsn, umask, history>>

Unlock(c) ==
  /\ Goto(c, "unlock", IF ok[c] THEN "chmod" ELSE "failed")
  /\ mu' = NoCall
  /\ UNCHANGED <<ok, saved, file, mode, lsn, umask, history>>

\* Mutant of Chmod: Listen fails without closing the listener.
ChmodLeaks(c) ==
  /\ \/ file # NoCall /\ Goto(c, "chmod", "open") /\ mode' = "tight"
     \/ Goto(c, "chmod", "failed") /\ UNCHANGED mode
  /\ UNCHANGED <<ok, saved, file, lsn, umask, mu, history>>

\* os.Chmod of whatever is on the path; when it fails Listen closes the
\* listener.  When it succeeds serve starts and Listen returns the Inbox.
Chmod(c) ==
  /\ \/ file # NoCall /\ Goto(c, "chmod", "open") /\ mode' = "tight"
     \/ Goto(c, "chmod", "abortUnlink") /\ UNCHANGED mode
  /\ UNCHANGED <<ok, saved, file, lsn, umask, mu, history>>

-----------------------------------------------------------------------------
(* Close                                                                   *)

\* Close sets closed; a second Close finds it set and changes nothing.
Close(c) ==
  /\ Begins
  /\ Goto(c, "open", "unlink")
  /\ UNCHANGED <<ok, saved, file, mode, lsn, umask, mu, misled>>

\* net.UnixListener.Close unlinks the path it was given ...
Unlink(c) ==
  /\ Goto(c, "unlink", "fdclose") \/ Goto(c, "abortUnlink", "abortClose")
  /\ file' = NoCall
  /\ UNCHANGED <<ok, saved, mode, lsn, umask, mu, history>>

\* ... and closes the socket.
CloseListener(c) ==
  /\ Goto(c, "fdclose", "sweep") \/ Goto(c, "abortClose", "failed")
  /\ lsn' = lsn \ {c}
  /\ UNCHANGED <<ok, saved, file, mode, umask, mu, history>>

\* os.Remove of the path once more.
Sweep(c) ==
  /\ Goto(c, "sweep", "closed")
  /\ file' = NoCall
  /\ UNCHANGED <<ok, saved, mode, lsn, umask, mu, history>>

\* The process dies; the next one with the PID has a umask and a mutex of its
\* own and finds the file.
Crash ==
  /\ \E c \in Calls : pc[c] \notin {"idle", "failed", "closed", "dead"}
  /\ pc' = [c \in Calls |-> IF pc[c] \in {"idle", "failed", "closed"} THEN pc[c] ELSE "dead"]
  /\ lsn' = {} /\ umask' = "user" /\ mu' = NoCall
  /\ overlapped' = FALSE /\ misled' = FALSE
  /\ UNCHANGED <<ok, saved, file, mode>>

-----------------------------------------------------------------------------
Umasked(c) == LockUmask(c) \/ Tighten(c) \/ Bind(c) \/ StartListening(c) \/ Restore(c) \/ Unlock(c)

\* A call in progress takes its next step.
Step(c) ==
  \/ ProbePath(c) \/ RemoveStale(c) \/ Umasked(c) \/ Chmod(c)
  \/ Unlink(c) \/ CloseListener(c) \/ Sweep(c)

Next == (\E c \in Calls : Listen(c) \/ Close(c) \/ Step(c)) \/ Crash

Spec == Init /\ [][Next]_vars

\* Goroutines in Listen or Close run; no program need call either.
FairSpec == Spec /\ \A c \in Calls : WF_vars(Step(c))

-----------------------------------------------------------------------------
TypeOK ==
  /\ pc \in [Calls -> Returned \cup
        {"probe", "remove", "lock", "tighten", "bind", "listen", "restore", "unlock", "chmod",
         "abortUnlink", "abortClose", "unlink", "fdclose", "sweep"}]
  /\ ok \in [Calls -> BOOLEAN]
  /\ saved \in [Calls -> {"user", "tight"}]
  /\ file \in Calls \cup {NoCall} /\ mu \in Calls \cup {NoCall}
  /\ mode \in {"tight", "loose"} /\ umask \in {"user", "tight"}
  /\ lsn \subseteq Calls /\ overlapped \in BOOLEAN /\ misled \in BOOLEAN

\* platform_unix.go:46-52: however binds overlap and fail, once none is in
\* withTightUmask the process has the umask it started with.
UmaskRestored == mu = NoCall => umask = "user"

\* inbox.go:118-122: the socket file is not open to other users, even for an
\* instant, nor when a crash leaves it behind.
NeverLoose == file # NoCall => mode = "tight"

\* inbox.go:133-136 and Close: a Listen that failed and an Inbox that was closed
\* leave neither a listening socket nor their file.
NothingLeft ==
  \A c \in Calls : pc[c] \in {"failed", "closed"} => c \notin lsn /\ file # c

\* inbox.go:111-116, 165: an open Inbox can be reached on its path, so no two are
\* open, unless a Listen or Close has begun during another or a probe has found
\* nobody where one was listening.
ReachableWhenOpen ==
  ~overlapped /\ ~misled => \A c \in Calls : pc[c] = "open" => c \in lsn /\ file = c

\* inbox.go:111-116: neither a crash nor an earlier Inbox leaves anything in the
\* way of net.Listen while no calls have overlapped, whatever a probe says.
PathFreeAtBind ==
  ~overlapped => \A c \in Calls : pc[c] = "bind" => file = NoCall

\* inbox.go:111-112: Listen clears the path only when nothing is listening, where
\* a listener answers every probe.
ClearsOnlyDead ==
  [][\A c \in Calls : pc[c] = "remove" /\ pc'[c] = "lock" => ~Live \/ misled]_vars

\* Every Listen and every Close returns, unless the process dies.
CallsReturn ==
  \A c \in Calls : pc[c] \notin Returned ~> pc[c] \in Returned
=============================================================================
