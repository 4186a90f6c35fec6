------------------------------ MODULE Envelope ------------------------------
(***************************************************************************)
(* The content of a message frame: frame, wrapEnvelope, sanitizeName and   *)
(* escapeBody of message.go.  A string is the sequence of its code points; *)
(* Tag stands for "cross-session-message", the spelling of attributes is   *)
(* left out.  A byte that is no UTF-8 is U+FFFD, which strings.Map makes   *)
(* of it.                                                                  *)
(***************************************************************************)
EXTENDS Addresses

CONSTANTS
  MaxName,  \* maxFromName, in bytes
  Tag,      \* envelopeTag
  Unseen    \* what strconv does not print either: soft hyphens, zero-width and
            \* private-use characters and the like, none of them ASCII

ASSUME EnvelopeAssumption ==
  MaxName \in Nat /\ Tag \in 65..90 /\ \A r \in Unseen : r \notin 0..127

Newline == 10
Quote == 34
Lt == 60
Slash == 47
Gt == 62
Closing == <<Lt, Slash, Tag>>
ClosingAt(s, i) == i + 2 <= Len(s) /\ SubSeq(s, i, i + 2) = Closing

\* Bytes in UTF-8 and units in UTF-16: the k-th of the i-th rune is <<i, k>>.
Width(r) == IF r < 128 THEN 1 ELSE IF r < 2048 THEN 2 ELSE IF r < 65536 THEN 3 ELSE 4
UnitWidth(r) == IF r < 65536 THEN 1 ELSE 2
Bytes(s) == Cardinality({p \in (DOMAIN s) \X (1..4) : p[2] <= Width(s[p[1]])})
Units(s) == Cardinality({p \in (DOMAIN s) \X (1..2) : p[2] <= UnitWidth(s[p[1]])})

IsControl(r) == r < 32 \/ r \in 127..159
IsSpace(r) == r \in 9..13 \cup 8192..8202 \cup {32, 133, 160, 5760, 8232, 8233, 8239, 8287, 12288}

\* fromNameRe and unicode.IsControl: what a name may not hold.
Allowed(r) == r \notin {Quote, Lt, Gt, Newline, 13} /\ ~IsControl(r)

TrimSpace(s) ==
  LET kept == {i \in DOMAIN s : ~IsSpace(s[i])} IN
    IF kept = {} THEN <<>> ELSE SubSeq(s, Min(kept), Max(kept))

Kept(name) ==
  FlattenSeq([i \in DOMAIN name |-> IF Allowed(name[i]) THEN <<name[i]>> ELSE <<>>])

Cleaned(name) == TrimSpace(Kept(name))

\* Mutants of Cut: a byte too few, and runes counted for bytes.
CutShort(s) == SubSeq(s, 1, Max({k \in 0..Len(s) - 1 : k = 0 \/ Bytes(SubSeq(s, 1, k)) < MaxName}))
CutRunes(s) == SubSeq(s, 1, Min({MaxName, Len(s)}))

\* The runes before the last one to start within the first MaxName bytes, or
\* right after them.
Cut(s) == SubSeq(s, 1, Max({k \in 0..Len(s) - 1 : Bytes(SubSeq(s, 1, k)) <= MaxName}))

SanitizeName(name) ==
  LET c == Cleaned(name) IN IF Bytes(c) <= MaxName THEN c ELSE TrimSpace(Cut(c))

\* Mutant of EscapeBody: the first closing tag only.
EscapeFirst(body) ==
  LET ends == {i \in DOMAIN body : ClosingAt(body, i)} IN
    IF ends = {} THEN body
    ELSE SubSeq(body, 1, Min(ends)) \o <<Backslash>> \o SubSeq(body, Min(ends) + 1, Len(body))

\* Every closing tag gets a backslash after its "<".
EscapeBody(body) ==
  LET ends == {i \in DOMAIN body : ClosingAt(body, i)} IN
    FlattenSeq([i \in DOMAIN body |-> IF i \in ends THEN <<Lt, Backslash>> ELSE <<body[i]>>])

\* %q: quotes and backslashes are escaped, as is what strconv does not print
\* (written u, without its digits), which includes all spaces but the ASCII one.
Printed(r) == ~IsControl(r) /\ (IsSpace(r) => r = 32) /\ r \notin Unseen
Quoted(s) ==
  FlattenSeq([i \in DOMAIN s |->
    IF s[i] \in {Quote, Backslash} THEN <<Backslash, s[i]>>
    ELSE IF Printed(s[i]) THEN <<s[i]>> ELSE <<Backslash, 117>>])

\* An attribute, left out when it is empty.
Attribute(value) == IF value = <<>> THEN <<>> ELSE <<32, Quote>> \o Quoted(value) \o <<Quote>>

WrapEnvelope(from, name, body) ==
  <<Lt, Tag>> \o Attribute(from) \o Attribute(SanitizeName(name)) \o <<Gt, Newline>>
    \o EscapeBody(body) \o <<Newline>> \o Closing \o <<Gt>>

\* frame: a message with no text, or a From that is no address, is refused.
Refused(m) == m.text = <<>> \/ (m.from # <<>> /\ ~ValidAddress(m.from))

Content(m) == IF m.name = <<>> THEN m.text ELSE WrapEnvelope(m.from, m.name, m.text)

\* What an attribute holds from its quote to the next.
ValueOf(attribute) ==
  LET quotes == {i \in DOMAIN attribute : attribute[i] = Quote} IN
    IF quotes = {} THEN <<>>
    ELSE SubSeq(attribute, Min(quotes) + 1, Min(quotes \ {Min(quotes)}) - 1)

\* The name a session takes out of the attribute, cut at as many UTF-16 units; the
\* envelope it would write for that name must be the one it got.
ReceiverName(attribute) ==
  LET c == Kept(ValueOf(attribute)) IN
    SubSeq(c, 1, Max({k \in 0..Len(c) : Units(SubSeq(c, 1, k)) <= MaxName}))
=============================================================================
