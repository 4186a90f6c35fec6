# A verification project for ccsock

`ccsock` is a Go library, with a command `cc-send`, that finds the Claude Code
sessions running on a machine through files they leave in a registry directory,
sends them frames over Unix sockets, and binds sockets of its own on which they
report back. This directory holds TLA+ models of its parts, the TLC
configurations that check them on small instances, and TLAPS proofs of the main
results for instances of any size.

Everything the library works with is shared with processes it does not control:
registry and key files written by sessions, sockets bound by whoever has a PID,
and PIDs that are used again. Nothing is locked across processes. Most
properties here are therefore about what can happen between two steps of one
call.

## 1. Inventory

| Component | Code | State | Operations | Module |
|---|---|---|---|---|
| Session registry and lookup | `session.go` | none of its own; the registry files `<pid>.json` | `ListSessions`, `FindByPID`, `FindByPIDForSession`, `FindByPIDForProcess`, `FindBySessionID`, `FindByName`, `pickOne` | `Delivery`, refining `Lookup` |
| Client: sends and renames | `client.go:64-174` | a `Client` is configuration only | `Send`, `SendToPID`, `SendToSessionID`, `SendToName`, `SendToSocket`, `SendToAddress`, `Rename`, `RenameSession` | `Delivery` |
| Client: wire exchange | `client.go:176-277` | one connection, its deadline, the context | `writeFrame`, `Probe` | `WireExchange` (byte offsets), `InboxServe` (against many handlers), `Delivery` (against a machine that changes) |
| Auth tokens | `auth.go`, `procstart_*.go`, `client.go:247-263` | none; key files of live and dead owners | `LookupToken`, `readKeyFile`, `rankKeyOwner`, `resolveToken` | `KeyLookup` |
| Inbox: bind and close | `inbox.go:79-167`, `platform_unix.go` | the socket path, the listener, `closed`, the process umask, `umaskMu` | `Listen`, `Close`, `withTightUmask` | `InboxBind` |
| Inbox: accept loop and handlers | `inbox.go:169-238` | `closed`, `retryDelay`, a scanner and a deadline per connection | `serve`, `handle`, `Close` | `InboxServe`, refining `Mailbox` |
| `cc-send send` | `cmd/cc-send/main.go` | the receipts channel, the deadline, the exit code | `sendCmd` | `CcSend` |
| `cc-send list`, `rename`, `self` | `cmd/cc-send/main.go` | none | probe and print, `RenameSession` or `Rename`, print | `Delivery`, `self` not modelled |
| Messages and envelopes | `message.go` | none | `frame`, `validAddress`, `wrapEnvelope`, `sanitizeName`, `escapeBody` | `Envelope`, checked in `Rendering` |
| Addresses | `addr.go` | none | `Address`, `ParseAddress`, `percentDecode` | `Addresses`, checked in `Rendering` |
| Paths and socket directory | `paths.go` | none | `SocketsDir`, `DefaultSocketPath`, `canonicalSocketPath`, `ensureSocketDir` | `Paths`, checked in `Rendering`; `ensureSocketDir` not modelled |
| Windows and macOS back ends | `platform_windows.go`, `procstart_*.go` | none | pure I/O | not modelled |

How they interact:

* A lookup reads registry files, which sessions rewrite (`/clear`), remove (exit)
  or leave behind (crash). The send that follows dials the socket path the entry
  names, and puts the entry's session ID on the frame: the stamp. The session at
  the other end compares it with its own ID and drops a frame that is not for it.
* `writeFrame` asks `resolveToken`, which may ask `LookupToken`, for the token
  that goes on the auth line in front of the frame. It writes, shuts its
  side, and takes the close of the other side as the sign of receipt.
* An Inbox binds `<pid>.sock` in the directory of the session sockets, which is
  the path a session with that PID would bind. Its accept loop starts a handler
  goroutine per connection; the handlers call `OnReceipt` and `OnMessage`
  concurrently.
* `cc-send send --wait-receipt` opens an Inbox, sends with its address as the
  reply address, and waits on a channel its `OnReceipt` feeds.

What is hard, and what makes each component correct:

* **Lookup and send**: entries go stale between any two steps. Correct means that
  no session acts on a frame meant for another, that a session which stays put is
  found and acts on what is sent to it, and that two candidates are never
  silently chosen between. A list shows every session that was there all along.
* **One exchange on the wire**: the socket takes a few bytes at a time, the reader's
  buffer doubles and moves, the deadline, a cancelled context and the receiver's end
  come anywhere. Correct means that the limits of the two ends agree to the byte, and
  that a send ends.
* **Token lookup**: key files outlive their owners, PIDs are recycled between the
  reading of a key, the liveness check and the start token. Correct means the
  token of the session that listens is the one sent, as far as its key can be told
  from that of a PID merely in use.
* **Bind and close**: the umask is process-wide, the path is shared by all Inboxes
  of a PID, a crash leaves the file. Correct means the umask comes back, the file
  is never open to others, nothing leaks, and an open Inbox can be reached as long as
  nobody has taken its path for abandoned.
* **Serving**: peers are slow, silent, cut off or dead; descriptors run out; Close
  and crash come at any time. Correct means callbacks run in order, once, and for
  whole lines only; a nil error to the sender tells as much as its system lets it;
  nobody pins a handler; the loop neither ends early nor stays behind.
* **Waiting for a receipt**: receipts come on connections of their own, during
  `Send`, late, out of order, or for somebody else. Correct means the exit code
  tells what happened to the message, and the wait ends.
* **Conversions**: strings from an environment, a command line or a caller. Correct
  means that an address leads back to its path, that no text closes the envelope it is
  in, that a name reaches the receiver whole or cut where it must be, and that a path
  an Inbox binds is the one its key file is looked up by.

`PROJECT.json` lists each hazard at its line with the properties that cover it.

## 2. Modules

**Delivery** follows one call from its start to its return, one step per file
read, probe, dial, read and close, while sessions start, `/clear`, exit or crash,
and PIDs go to other processes. `proc` and `reg` are the machine; `op`,
`unread`, `listing`, `unprobed`, `live` and `target` are the locals of the lookup
(`ListSessions`, then `pickOne`); `conn`, `taken` and `got` are the connection and
what became of the frame. `Begin`, `ReadEntry`, `PickOne`, `ProbeOne` and `PickLive`
are the lookup; `Fits` is the condition each Find function selects entries by;
`Dial`, `Take` and `Return` are `Send` or `RenameSession` with `writeFrame`.
`StampOf` is the choice of stamp. A call that is given a path or an address
(`SendToSocket`, `SendToAddress`, `Rename`) has its target at once and no stamp but the
caller's. A `cc-send list` matches every entry (`PickAll`), probes each and returns
those that answer. A PID stands for its registry file and for its
socket path; a start token is the number of the process among those that have had
the PID. `steady` and `same` are history variables the properties need. The
lookups differ only in `Fits`; the one-entry lookups never reach the probing,
which is what the code does too. The registry fields no lookup reads, the sort
order of the listing and its timestamps are left out. `listCmd` probes its entries
concurrently, which the model takes one at a time in any order: a probe changes nothing.

**Lookup** is the abstract specification of what a lookup or a list promises although
nothing is locked. It knows no files, IDs or processes, only what each entry is to the
question asked (no match, a match without a socket, one with a socket) and whether something
listens; both may change at any step. Each entry is seen once, at some instant after the
question; when all are seen, each match may be probed once, at some later instant; and the
answer is `Choice` of what was seen and heard. It is no snapshot: entries are seen at
different instants, so a session that resumes under another PID during a lookup may be
missed in both places. What it excludes is an answer that rests on something that
never was: an entry that did not match, a session taken for live that did not listen
after its entry was read, a choice between two that both answered. `View` and `Told` are
the refinement mapping: what `Delivery`'s locals amount to for each PID, and the answer.

**InboxBind** models `Listen` and `Close` one system call at a time:
`Listen`, `ProbePath`, `RemoveStale`, `LockUmask`, `Tighten`, `Bind`,
`StartListening`, `Restore`, `Unlock`, `Chmod`, then `Close`, `Unlink`, `CloseListener`,
`Sweep`. bind and listen are two steps because a probe between them finds the file
but is refused. `ProbePath` finds a listener or does not: `Probe` answers false for any
error of its dial, be it that no descriptor was left, that the accept queue was full or
that the 250 ms were over, and `Listen` then clears the path of a live socket. `misled`
records that this has happened. Closing a Go Unix listener unlinks its path before it closes
the descriptor; `Close` of the Inbox then removes the path once more. `Crash` frees
everything but the file. `overlapped` records whether a call began during another
one in the life of the process. `PathFreeAtBind` holds only while none has,
`ReachableWhenOpen` only while none has and no probe has been misled.

**Mailbox** is the abstract specification of a serving Inbox: lines put on each
connection, and callbacks that run for the next one due. **InboxServe** is
the code: `serve` (`Accept`, `AcceptFails`, `CheckClosed`, `WakeUp`), `handle`
(`ScanLine`, `ReadPiece`, `EndOfStream`, `IdleTimeout`), `Close` (`CloseMarks`,
`CloseListener`), `Crash`, and the peer, which is `writeFrame` (`Connect`,
`WritePiece`, `HalfClose`, `SeesClose`, `GiveUp`). A line is three pieces: after the
first its JSON is incomplete, after the second it is whole, the third is
the newline. That is what it takes to tell a truncated line from one that lacks
only its newline, which `bufio.Scanner` yields at the end of the stream. `goos` is the system:
when a receiver closes with bytes unread, Linux ends the sender's read with an error and
macOS with EOF (`SeesClose`). The
refinement maps a line to "sent" when its second piece has been written.

**KeyLookup** models `resolveToken`, `LookupToken` and `rankKeyOwner`, with the reading
of a key file, `processAlive` and `processStartToken` as steps of their own, and the
owners dying and being replaced in between. A key names its start token or not;
one that does not is also what a platform without start tokens amounts to. The start
token of a live owner may fail to be read (`ps` has a second on macOS, and
either system wants a descriptor), and the owner then ranks as one whose key names none;
`unsure` records the PIDs this has happened to.

**WireExchange** is one exchange byte by byte: `writeFrame` (`Dial`, `Write`, `Pause`,
`CloseWrite`, `AwaitClose`), and the `bufio.Scanner` of `handle` (`Read`, `ScanLine`,
`TooLong`, `Ends`). The stream is an auth line or none, and the line of the frame; only
offsets into it are kept. `cap`, `off` and `pos` follow the scanner's buffer as the
library has it: lines that begin late in the buffer move to its front, a buffer full
of one line doubles up to `maxFrameBytes`. The kernel holds up to `SockBuf` bytes.
When `checked` is FALSE the writer is some other program, which knows no limit. The
context of the caller is looked at before the dial and, on macOS only, in the pause
before the half-close.

**CcSend** models runs of `cc-send send`: which of the arguments are flags (those after
the first word of the text are text), the errors that come of a missing text or target
and of a bad `--from`, the Inbox of `--wait-receipt`, `Send` with receipts coming before
it returns, the select loop, the exit codes, a signal, the receiving session, and
receipts in flight, which reach whatever Inbox is bound to the path of the sender's PID
when they arrive. PIDs are reused once their run is gone.

**Addresses**, **Envelope** and **Paths** are the conversions, as operators on sequences:
of bytes for addresses and paths, of code points for the fields of a message.
`Tag` is one character that stands for `cross-session-message`, and "/c" stands for
"/cc-socks". `Clean`, `Abs` and `JoinOf` are what `path/filepath` does. `Cwds` are the
working directories, `NoPath` standing for one `os.Getwd` cannot name, where `filepath.Abs`
fails on a relative path. `DefaultPath` takes Termux's `$PREFIX` as a string like
another: the fallback is joined to it and is neither made absolute nor measured.
`Unseen` are the characters besides control characters and spaces that `%q` spells as
escapes. **Rendering** lets a string
of some kind grow a character at a time and states, for every string reached, what the
conversions owe each other: `Address` and `ParseAddress`; `frame`'s validation and the
quoting after it; `sanitizeName` and the cut a receiver makes, which counts UTF-16
units, of the name it finds between the quotes of the attribute (`ValueOf`), where %q has
written it; `escapeBody` and a reader that looks for the closing tag; the path an Inbox binds
and the path keys are named for.

Modules named `MC...` give the constants their values for TLC; modules named
`...Proofs` hold the proofs, and **Recursion** the lemmas about recursive definitions
that those of `Rendering` rest on. Operators called a *mutant* in their comment are
variants of a definition with a plausible bug. No specification uses them: each one
is there to show, substituted for the definition, that some property notices.

## 3. Runs

| Run | Bounds | Shows |
|---|---|---|
| `delivery` | 2 PIDs, each used by 2 processes; 2 session IDs; any preset ID | `NoMisdelivery`, `NoMisrename`: no session but the one meant acts on a message or rename. `SteadyWins`, `SteadyListed`, `SteadyAccepts`: a session that stays put is found (or the lookup is ambiguous), is in every list, and acts on the frame. `TokenSurvivesClear`: a remembered start token still finds the session after `/clear`. `ImplementsLookup`: the answer of a lookup is right for some instants of the call. |
| `stranger_acts` | 1 PID used twice | violation of `NoStrangerActs` (finding 1) |
| `recycled_token` | 1 PID used twice | violation of `TokenBarsRecycled` (finding 2) |
| `bind` | 3 calls of Listen | `UmaskRestored`, `NeverLoose`, `NothingLeft` for overlapping calls; `PathFreeAtBind` while none have overlapped, and `ReachableWhenOpen` while, besides, no probe has failed at a listener; `CallsReturn`: every call returns, so the mutex is always released |
| `bind_race` | 3 calls | violation of `ClearsOnlyDead` (finding 3) |
| `serve` | 2 connections, 3 scripts of lines, 2 descriptors, pause capped at 3, Linux and macOS | `NilMeansDispatched`: what nil from `writeFrame` tells (on macOS, of a frame that was read); `ImplementsMailbox` |
| `serve_live` | 2 connections, 1 descriptor, Linux | `HandlersEnd`, `SentIsDispatched`, `ServeStops` |
| `key_lookup` | 3 PIDs, each used twice; any start token may fail to be read | `SteadyTokenSent`: a listener that stays put is sent its own token if its key names a start token and that could be read. `DeadTokenNotSent` |
| `wire` | limit 5, first buffer 2, 4 bytes in the socket; frames of 1 to 6 bytes; auth lines of 0, 2, 3 and 5 | `FrameFits`: the scanner takes every frame `writeFrame` sends. `RefusedUnreadable`: it would have taken none that `writeFrame` refuses. `SendReturns`: a send that has dialed ends |
| `wait_receipt` | 2 runs, 2 PIDs, 6 command lines, 16 slots in the channel | `ExitBacked`: exit codes 0 and 2 tell the truth, of a message of this PID. `NoDecisionMissed`: no verdict is lost while `Send` is in progress. `WaitEnds` |
| `foreign_receipt` | 2 runs with one PID | violation of `ExitTells` (finding 4) |
| `rendering` | 9 kinds of byte up to length 5, all bytes up to 2, 12 kinds of character up to 5, 5 up to 7, 3 up to 7, with and without a working directory, 4 values of `$PREFIX` | `RoundTrip`, `ValidAgrees`, `FromQuotedPlain`: addresses. `NameKept`, `AttributionSurvives`: names. `OneClosingTag`: bodies. `CanonicalKeeps`, `DefaultUsable`: paths |

Deadlock is not checked anywhere: calls return, peers need not connect, and
processes need not start, so every system here may rightly stop. That nothing
stops half-way is what the liveness properties are for.

Why the bounds are enough to be interesting. Two PIDs make the smallest ambiguous
lookup; two processes per PID make a stale entry with another process behind it;
two session IDs let a session `/clear` to another, two sessions share one (a resume), and
the caller mean either. Three calls of Listen are one that
has left a file, one that clears it and one that interferes; all file and umask
states occur with two. Two connections and one descriptor make one wait for the
other while Accept fails; a pause capped at 3 is reached by doubling past it
(1, 2, 3). The liveness run has Linux only: the system makes no difference but to `res`,
which none of its properties is about. Three key files are the listener's, a dead owner's and a recycled
one's. A limit of 5 over a first buffer of 2 makes the buffer double to less than the
limit, then to the limit instead of twice as much; frames end one byte below, at and one
above it; an auth line of the buffer's length or longer puts the frame where the buffer
must move it. 16 slots are those of the code, and two runs send at most four receipts to
them; a channel fills only once more than eight runs have had one PID, as is proved
(`LostOnlyByReuse`). The alphabets of `rendering` have one character of each
class the code tells apart, and the lengths fit an escape with something on both sides,
a closing tag with another that overlaps it, a name whose cut falls inside a
character of each width, and a path that is one byte too long only before it is cleaned
or only after it has been made absolute; all 256 bytes are tried for the codec itself.

Fairness. `InboxBind`: weak fairness of each call in progress; it makes system calls that
return. That `umaskMu` needs no strong fairness here is because each holder releases
it and the calls are finitely many. `InboxServe`: weak fairness of the accept loop,
of the second half of Close, and of each handler, whose wait for the peer ends at
`inboxIdleTimeout` at the latest; peers may do nothing for ever, and Close need
not be called. One assumption about time is built in: lines that lie complete in
the socket when the handler starts are read before the 30 seconds are over. Scripts are
finite: a peer that never stops sending lines, each within 30 seconds, keeps its handler
for as long as it likes, in the code as well.
`WireExchange`: weak fairness of each step of the writer after the dial, and of the
deadline; nothing is assumed of the receiver, nor that the kernel ever takes a byte.
`CcSend`: weak fairness of the select loop, whose timer fires. `Delivery`, `KeyLookup`
and `Rendering` state none: nothing there is promised to happen.

## 4. Proofs

Each `...Proofs` module about a component states an inductive invariant `IInv`, shows
`Init => IInv`, that every action preserves it, and that it implies the properties.

* **DeliveryProofs**: `TypeCorrect`, `MisdeliveryImpossible`, `MisrenameImpossible`,
  `SteadySessionWins`, `SteadySessionListed`, `SteadySessionAccepts`,
  `TokenFindsProcess`, and `DeliveryLooksUp`, that Delivery implements Lookup: every
  property of its passing run. The safety of a send does not
  follow from the state of the machine at any time, since everything in it may have
  changed: the invariant (`LookupOK`) says instead that the frame carries the ID
  the call fixed when it dialed, that the target is among the matches read, and that a
  session which acted had that ID. `SteadyOK` follows a session that stays put through the
  lookup: to be read, read as it is, among the matches to probe or answering, then
  the target, or the lookup ambiguous. Steps of other processes all go through one lemma
  (`WorldStep`): they leave the call alone and take the PIDs they touch out of
  `steady`. For `TokenFindsProcess`, `TokenOK` says that a running session has an entry
  with its start token, whatever it has cleared, and that the one sought is still to be
  read or read as such. The refinement needs `RoundOK`: nothing is known before
  the call, what is probed has been read, and pickOne probes only several matches.
* **InboxBindProofs**: `TypeCorrect`, and `UmaskAlwaysRestored`, `SocketNeverLoose`,
  `NothingIsLeft` for any number of overlapping calls. `UmaskOK` ties the holder of the mutex to the calls
  between Lock and Unlock, and the tight umask to one of them, whose saved value is
  the user's; `OwnerOK` says at which steps a call can own a listener or the file.
  `OpenIsReachable` and `PathAlwaysFreeAtBind` rest on a second invariant,
  `SerialOK`, about processes in which no calls have overlapped: at most one is in
  progress, and from its Remove on the path is free or its own; if no probe has been
  misled either, an open Inbox has its path and its listener, and no other is open.
* **InboxServeProofs**: `TypeCorrect`, `NilIsDispatched`, and
  `InboxIsMailbox`, that InboxServe implements Mailbox. The invariant
  `StreamOK` says that a running handler stands at the start of a line, has skipped no line that has a callback, and is never ahead of what was written. The
  refinement needs that to show that a callback is `Act` for the next line due, and that its
  line was sent whole. `CountOK` adds how many callbacks have run, and that the scanner
  never reads beyond the line it is at nor any of one too long for it unless the
  handler gives up: so a stream read to its end has been dispatched to its end, and on
  Linux nil means it was read to its end.
* **KeyLookupProofs**: `TypeCorrect`, `SteadyTokenIsSent`, `DeadTokenIsNotSent`.
  `KeysOK`: a key whose publisher still runs is the listener's. `LookupOK`: a steady listener's key is still to be read,
  is the one being ranked, or has set the best rank; only it can rank 2, and only a PID in
  use can rank 1. It does rank 2 unless its start token could not be read.
* **WireExchangeProofs**: `WireTypes`, `SentFrameFits`, `RefusedIsUnreadable`, for any
  limit, buffers and lengths. The invariant relates the offsets (`BufferOK`): the scanner is
  at the start of a line and what it has read of it lies in its buffer, so it is stuck
  only with as many bytes as the limit of one line and no newline among them; and nothing
  is written of a frame that is refused (`CheckedOK`).
* **CcSendProofs**: `VerdictIsBacked`, for any number of runs, PIDs, command lines and
  channel size. `ReceiptsTell` says that a receipt in flight or in a channel tells the
  verdict the session has come to, and that those in a channel are about messages sent
  under the PID of the run; `Lasting` lists what no step undoes, so that what is told
  stays true. For the verdicts that come in time, `KInv` adds that no receipt comes twice
  (`SeenOK`) and that the channel has every verdict seen unless more receipts have come than
  it holds (`VerdictsKept`); counting them (`AtMostTwo`: each run of the PID is told of
  twice at most) gives `LostOnlyByReuse`, and from it `DecisionKept`: with two places for
  each run, `NoDecisionMissed`.
* **Recursion** has no component: it is the lemmas that proofs about strings need.
  Induction is over sets, so that the provers can use it (`SetInduction` for numbers,
  `SeqInduction` for sequences, from the well-foundedness of finite subsets, which the
  library states without an operator as a parameter). `FixedPoint` says that a function
  defined by recursion exists, which a `CHOOSE` of one does not give for free. From it follow what
  `FlattenSeq` puts where (`FlattenPieces`, `FlattenAppend`, `MappedAppend`) and that
  `FoldLeft` takes its step once per element (`FoldChain`, `ChainAppend`).
* **RenderingProofs**: `AddressesReadBack`, `ValidIsDecodable`, `AddressesPrinted`,
  `NamesKept`, `AttributionsSurvive`, `EnvelopesClosedOnce`, `CanonicalKeepsSegments`,
  `DefaultsUsable`: every property of its run, for strings of any length over any characters
  and any limits. The invariant is only that the string is one of its kind's alphabet
  (`TextOK`); the rest is about the operators. Addresses: a decoder that is at the start of
  an escape returns its byte and goes on behind it, and each sign of a valid address starts
  one escape. Names: a prefix within the limit is within it in UTF-16 units, trimming is
  idempotent, and what `%q` leaves alone is between the first two quotes of its
  attribute (`AttributeValue`). Envelopes: the pieces before and behind the body have no `<` but their
  own, and in the escaped body the one that starts a closing tag is followed by
  a backslash, so no tag can arise from two pieces. Paths: `Split` of
  two paths with a slash between them is their segments, one after the other
  (`SplitConcat`); where none leads up, `Clean` keeps the ones that lead elsewhere
  (`CleanReal`); what `PathOf` makes of clean segments has those segments (`PathOfSplit`),
  so that what `Abs` returns is clean already (`CleanPath`).

The assumptions are those on the constants stated in each module (`None` and `NoCall` are
no PID, numbers are numbers, the auth line is within the limit, kinds of line and
argument are those named); none restricts sizes, and sets may be infinite. `DecisionKept`
also assumes that the runs are finitely many and that two receipts of each fit in the channel.
Of the environment, `PathsAssumption` asks that a working directory, when there is one, is
absolute and has no `..` (a shell keeps it out of `$PWD`, and the kernel never returns one),
and that `/tmp/cc-socks-<uid>` is absolute and clean; `RenderingAssumption`, that a
socket's file name is one segment for which that directory leaves room. Of `$PREFIX`
nothing is asked. `DefaultUsable` is worded accordingly: the path is canonical unless
`$PREFIX` is relative, and within the limit unless there is a `$PREFIX` to fall back to.

Model-checked only: every liveness property (`CallsReturn`, `HandlersEnd`,
`SentIsDispatched`, `ServeStops`, `SendReturns`, `WaitEnds`; fairness and leads-to are
beyond the prover). Every safety invariant of a passing run is proved.

## 5. Findings

1. `stranger_acts`. The README (113-116) and `client.go:66-68` say a stale registry
   entry cannot misdeliver a message to whatever now listens on its path. The
   stamp is checked by sessions; `Inbox.handle` does not look at it, so a Go
   program with an Inbox, on a recycled PID, gets the message, and `Send` returns nil.
2. `recycled_token`. `session.go:293-295` says `FindByPIDForProcess` returns a session
   only when the PID has not been recycled. It compares the remembered token with the
   registry entry; after a crash the entry is still that of the dead session.
3. `bind_race`. `inbox.go:111-112` says the path is cleared only when nothing is
   listening. Probe and Remove are two steps under no lock: of two overlapping
   Listen calls one can remove the socket the other has just bound, which leaves an
   open Inbox nobody can reach. The property is about probes that tell the truth; one that
   fails at a live listener clears its path without any overlap (see below).
4. `foreign_receipt`. README:220 says what exit code 2 of `cc-send send
   --wait-receipt` means for the message sent. The loop takes any receipt, whatever
   its `OrigMsgID`: a late one for an earlier run with the same PID decides the exit code.

Met while modelling, and of no consequence to a property stated here:

* `main.go:268`: with the deadline past and a verdict in the channel, `select` takes
  either, so exit code 3 (`main.go:96`) may be given for a message that has been decided.
* `main.go:7` puts `--wait-receipt` after the text in its example; `flag` stops at
  the first word of the text, and it is sent as part of it.
* `DefaultSocketPath` changes directory at 103 bytes, so processes of one user whose
  PIDs differ in length may bind in different directories.
* `%q` doubles the backslashes that `validAddress` allows, and spells what strconv does not
  print as an escape (`message.go:145-152`). So it does in names: the receiver reads
  the escape, which is not the name, and which may be longer than the 200 units it cuts at,
  where `message.go:208-219` counts on the cut name being within them.
* `inbox.go:113`: `Probe` answers false for whatever stops its dial, so a live listener with a
  full accept queue, or a process out of descriptors, has its path cleared; an
  Inbox there stays open and can no longer be reached.
* `client.go:125-128` says a nil error means the receiver has read the frame. On macOS a receiver that
  closes with the frame unread gives EOF as well, and `writeFrame` returns nil
  (`client.go:241-244`).
* `auth.go:132`: a listener whose start token cannot be read ranks with a recycled PID whose key names
  none, and which of the two tokens is sent depends on the order of the files.
* `paths.go:61-65`: under Termux the fallback may be relative, when `$PREFIX` is, or longer
  than the limit.
* `main.go:276`: a receipt with a status the library does not know ends the wait with exit code 0. The
  runs have the four documented ones.
* `client.go:228`: on macOS a context cancelled in the pause gives an error for a frame
  the receiver reads all the same.
* `writeFrame` checks the size of the frame, not that of the auth line of a `Client.Token`.

## 6. Not modelled, and the plan

Abstracted throughout: JSON decoding, field validation and file-size limits (a file that
does not parse is a file that is not there), the checks of `ensureSocketDir` (it
may refuse, an outcome of `Listen`), error texts, the priority of a message, and the random
IDs of `newUUID`. External, modelled from how the code
depends on them: sessions, other processes, the kernel's sockets, `bufio.Scanner`, the
unlink of a Unix listener, what a receiving session makes of an envelope.
A registry file is written in one step, as the code that writes it is not in this
repository. That other goroutines create files under the tight umask is an effect on
programs, of which nothing is modelled.
`SendToAddress`, `SendToSocket` and `Rename` go to a path with no stamp and make no
promise about who listens there. `cc-send self` prints environment variables. Windows and
macOS back ends are pure I/O: one without start tokens is, in `KeyLookup`, one whose
keys name none. `doc.go` has no code.

A Close that removes the socket of a Listen it overlaps (`inbox.go:165`) is a behaviour of
`InboxBind` that no property denies: no comment of the code promises otherwise, and
`ReachableWhenOpen` excludes overlapping calls as a whole.

What is left to do is narrow: a bound on the stretch of time in which an overlap
does harm, so that `ReachableWhenOpen` would exclude less than all overlaps, and the
receiver's side of the envelope, once its source is at hand.
