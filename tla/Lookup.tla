------------------------------- MODULE Lookup -------------------------------
(***************************************************************************)
(* What a lookup in the registry promises, though it reads and probes one  *)
(* entry after another while sessions change them: its answer is the one   *)
(* pickOne gives for some view in which each entry is as it was at one     *)
(* instant of the call, and each match answers as it did at a later one.   *)
(* The instants of two entries may differ, so no moment need have had such *)
(* a registry.                                                             *)
(***************************************************************************)
CONSTANT Pids  \* process IDs

VARIABLES
  entry,    \* what the entry of each PID is to the question: no match, a match
            \* that names no socket, or one that names its socket
  answers,  \* whether something listens on the path of each PID
  view,     \* what the call knows of each PID
  out       \* the question, then the answer and the PIDs it is about

vars == <<entry, answers, view, out>>

Kinds == {"no", "bare", "sock"}
Views == Kinds \cup {"unseen", "live", "silent"}
Unseen == [p \in Pids |-> "unseen"]

Asked == out.as \in {"finding", "listing"}
Read  == \A p \in Pids : view[p] # "unseen"
Matching == {p \in Pids : view[p] # "no"}
Heard == \A p \in Matching : view[p] \in {"live", "silent"}
Live  == {p \in Pids : view[p] = "live"}

Init ==
  /\ entry = [p \in Pids |-> "no"] /\ answers \in [Pids -> BOOLEAN]
  /\ view = Unseen /\ out = [as |-> "idle", pids |-> {}]

\* The call starts; entries that are not there or do not match may be passed over.
Ask ==
  /\ out.as = "idle"
  /\ \E a \in {"finding", "listing"} : out' = [as |-> a, pids |-> {}]
  /\ entry' \in [Pids -> Kinds]
  /\ \E some \in SUBSET {p \in Pids : entry'[p] = "no"} :
       view' = [p \in Pids |-> IF p \in some THEN "no" ELSE "unseen"]
  /\ UNCHANGED answers

\* The registry changes, and what listens: the call learns nothing.
Change ==
  /\ entry' \in [Pids -> Kinds] /\ answers' \in [Pids -> BOOLEAN]
  /\ UNCHANGED <<view, out>>

See(p) ==
  /\ Asked /\ view[p] = "unseen"
  /\ view' = [view EXCEPT ![p] = entry[p]]
  /\ UNCHANGED <<entry, answers, out>>

\* A probe that times out hears nothing, whatever listens.
Hear(p) ==
  /\ Asked /\ Read /\ view[p] \in {"bare", "sock"}
  /\ \/ view[p] = "sock" /\ answers[p] /\ view' = [view EXCEPT ![p] = "live"]
     \/ view' = [view EXCEPT ![p] = "silent"]
  /\ UNCHANGED <<entry, answers, out>>

\* Of several matches the ones that answer are found; a single one is as it is.
Single(found) == \E p \in Pids : found = {p}
Choice(found) ==
  [as |-> IF found = {} THEN "notfound" ELSE IF Single(found) THEN "found" ELSE "ambiguous",
   pids |-> found]

Answer ==
  /\ Asked /\ Read
  /\ \/ /\ out.as = "finding" /\ (Matching = {} \/ Single(Matching))
        /\ out' = Choice(Matching)
     \/ /\ out.as = "finding" /\ Heard /\ ~Single(Matching)
        /\ out' = Choice(Live)
     \/ /\ out.as = "listing" /\ Heard
        /\ out' = [as |-> "listed", pids |-> Live]
  /\ view' = Unseen
  /\ UNCHANGED <<entry, answers>>

Next == Ask \/ Change \/ (\E p \in Pids : See(p) \/ Hear(p)) \/ Answer

Spec == Init /\ [][Next]_vars
=============================================================================
