------------------------------ MODULE Mailbox ------------------------------
(***************************************************************************)
(* What an Inbox promises: on each connection the lines that have a        *)
(* callback are handed to it in the order they were sent, each at most     *)
(* once, none before it was sent whole, none skipped for a later one.      *)
(* Nothing is promised of lines on different connections.                  *)
(***************************************************************************)
EXTENDS Naturals, Sequences

CONSTANTS
  Conns,      \* connections
  Scripts,    \* the sequences of lines peers may mean to send
  Callbacks   \* the kinds of line the program has a callback for

VARIABLES
  script,  \* the lines the peer of each connection means to send
  sent,    \* how many of them it has sent whole
  last,    \* the line its connection's last callback ran for
  calls    \* how many callbacks have run for its lines

vars == <<script, sent, last, calls>>

Init ==
  /\ script \in [Conns -> Scripts]
  /\ sent = [c \in Conns |-> 0] /\ last = sent /\ calls = sent

Put(c) ==
  /\ sent[c] < Len(script[c])
  /\ sent' = [sent EXCEPT ![c] = @ + 1]
  /\ UNCHANGED <<script, last, calls>>

\* A callback runs for line i: the next one, of those sent, that has one.
Act(c) ==
  \E i \in (last[c] + 1)..sent[c] :
    /\ script[c][i] \in Callbacks
    /\ \A j \in (last[c] + 1)..(i - 1) : script[c][j] \notin Callbacks
    /\ last' = [last EXCEPT ![c] = i]
    /\ calls' = [calls EXCEPT ![c] = @ + 1]
    /\ UNCHANGED <<script, sent>>

Next == \E c \in Conns : Put(c) \/ Act(c)

Spec == Init /\ [][Next]_vars
=============================================================================
