----------------------------- MODULE Rendering -----------------------------
(***************************************************************************)
(* A string that a program takes from its environment, its command line or *)
(* its caller, of any of the kinds the library converts, growing by one    *)
(* character at a time, and what the conversions owe each other for it.    *)
(***************************************************************************)
EXTENDS Envelope, Paths

CONSTANTS
  Kinds,          \* "address", "bytes" (of a socket path), "name", "body", "path" (or base)
  Alphabet,       \* the characters of each kind
  MaxLen,         \* the longest string of each kind
  Files,          \* file names of sockets
  TermuxPrefixes  \* values of $PREFIX under Termux; empty: none, or no Termux

\* Characters are numbers; addresses and paths have bytes.  A socket's file name
\* is one segment, and Fallback leaves room for it.
ASSUME RenderingAssumption ==
  /\ \A k \in Kinds : Alphabet[k] \subseteq (IF k \in {"name", "body"} THEN Nat ELSE 0..255)
  /\ \A f \in Files :
       /\ f \in Seq(0..255) \ {<<>>, Dot, DotDot}
       /\ \A i \in DOMAIN f : f[i] # 47
       /\ Len(Fallback) + 1 + Len(f) <= MaxPath
  /\ TermuxPrefixes \subseteq Seq(0..255)

VARIABLES kind, text

Init == kind \in Kinds /\ text = <<>>

\* The caller's string has one more character.
Extend ==
  /\ Len(text) < MaxLen[kind]
  /\ \E c \in Alphabet[kind] : text' = Append(text, c)
  /\ UNCHANGED kind

Next == Extend

Spec == Init /\ [][Next]_<<kind, text>>

\* A message with the string in the field of its kind.
Message ==
  [text |-> IF kind = "body" THEN text ELSE <<120>>,
   from |-> IF kind = "address" THEN text ELSE <<>>,
   name |-> IF kind = "name" THEN text ELSE <<120>>]

-----------------------------------------------------------------------------
\* addr.go, sendCmd (main.go:206-215): any path, rendered as an address, is one
\* that frame accepts and that every reader parses back to the path.
RoundTrip ==
  kind \in {"address", "bytes"} =>
    ValidAddress(Address(text)) /\ PercentDecode(Address(text)) = text

\* validAddress and percentDecode agree on what an escape is: an address is
\* valid just if it holds safe bytes and percent signs only, and decoding
\* leaves no percent sign undone.
ValidAgrees ==
  kind = "address" =>
    LET signs == Cardinality({i \in DOMAIN text : text[i] = Percent}) IN
      ValidAddress(text) <=>
        /\ \A i \in DOMAIN text : Safe(text[i]) \/ text[i] = Percent
        /\ Len(PercentDecode(text)) + 2 * signs = Len(text)

\* message.go:149-152: the From of a message that frame accepts is quoted as
\* it is, unless it has a backslash, which %q doubles.
FromQuotedPlain ==
  kind = "address" /\ ~Refused(Message) /\ (\A i \in DOMAIN text : text[i] # Backslash) =>
    Quoted(text) = text

\* What %q does not change.
Plain(s) == \A i \in DOMAIN s : s[i] # Backslash /\ Printed(s[i])

\* message.go:193, 208-219: a name that %q does not change is in the envelope as
\* sanitizeName made it, and the receiver finds nothing left in it to cut.
AttributionSurvives ==
  kind = "name" =>
    LET s == SanitizeName(text) IN
      Plain(s) => ValueOf(Attribute(s)) = s /\ ReceiverName(Attribute(s)) = s

\* sanitizeName: of a name that is too long nothing is lost that would have
\* fitted, but for space before the cut; one that fits is whole.
NameKept ==
  kind = "name" =>
    LET c == Cleaned(text)
        s == SanitizeName(text)
    IN /\ IsPrefix(s, c) /\ TrimSpace(s) = s /\ Bytes(s) <= MaxName
       /\ \A k \in Len(s) + 1..Len(c) : Bytes(SubSeq(c, 1, k)) <= MaxName => IsSpace(c[k])

\* escapeBody: whatever the fields of a message, its envelope is closed once, at
\* the end.
OneClosingTag ==
  ~Refused(Message) /\ Message.name # <<>> =>
    LET s == Content(Message) IN
      {i \in DOMAIN s : ClosingAt(s, i)} = {Len(s) - 3}

\* paths.go:91-93: making a path canonical takes no segment out of it that could
\* lead elsewhere: two paths have one key file only if they name one socket.
CanonicalKeeps ==
  kind = "path" => \A cwd \in Cwds : Canonical(cwd, text) # NoPath =>
    LET real(s) == FlattenSeq([i \in DOMAIN Split(s) |->
                     IF Split(s)[i] \in {<<>>, Dot} THEN <<>> ELSE <<Split(s)[i]>>]) IN
      Split(Canonical(cwd, text)) =
        LET segs == (IF Rooted(text) THEN <<>> ELSE real(cwd)) \o real(text) IN
          <<<<>>>> \o (IF segs = <<>> THEN <<<<>>>> ELSE segs)

\* inbox.go:102-105, paths.go:10-13: whatever base the environment names and wherever
\* the program is, the path an Inbox binds is the one its key file would be named for,
\* unless Termux has a relative $PREFIX, and fits the limit, unless Termux has one.
DefaultUsable ==
  kind = "path" =>
    \A cwd \in Cwds, prefix \in TermuxPrefixes, f \in Files :
      LET p == DefaultPath(cwd, text, prefix, f) IN
        /\ prefix = <<>> \/ Rooted(prefix) => Canonical(cwd, p) = p
        /\ prefix = <<>> => Len(p) <= MaxPath
=============================================================================
