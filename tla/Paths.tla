------------------------------- MODULE Paths -------------------------------
(***************************************************************************)
(* Socket paths: DefaultSocketPath and canonicalSocketPath of paths.go,    *)
(* with what path/filepath does to a path.  A string is the sequence of    *)
(* its bytes.                                                              *)
(***************************************************************************)
EXTENDS Naturals, Sequences, SequencesExt

CONSTANTS
  MaxPath,   \* maxSocketPathBytes
  TempDir,   \* the base when the environment names none
  Fallback,  \* /tmp/cc-socks-<uid>
  Cwds       \* what os.Getwd may return, NoPath for its error

Rooted(s) == s # <<>> /\ Head(s) = 47

\* strings.Split at "/", one byte at a time.
AddByte(segs, c) ==
  IF c = 47 THEN Append(segs, <<>>) ELSE [segs EXCEPT ![Len(segs)] = Append(@, c)]
Split(s) == FoldLeft(AddByte, << <<>> >>, s)

Dot == <<46>>
DotDot == <<46, 46>>

\* filepath.Clean of a rooted path, as its segments, one at a time, and put
\* together again.
AddSegment(segs, g) ==
  IF g \in {<<>>, Dot} THEN segs
  ELSE IF g # DotDot THEN Append(segs, g)
  ELSE IF segs = <<>> THEN segs ELSE Front(segs)
Clean(s) == FoldLeft(AddSegment, <<>>, Split(s))
PathOf(segs) ==
  IF segs = <<>> THEN <<47>> ELSE FlattenSeq([i \in DOMAIN segs |-> <<47>> \o segs[i]])

\* filepath.Join: filepath.Clean of a path that leads somewhere, rooted or not.
AddRelative(segs, g) ==
  IF g \in {<<>>, Dot} THEN segs
  ELSE IF g # DotDot \/ segs = <<>> \/ Last(segs) = DotDot THEN Append(segs, g)
  ELSE Front(segs)
JoinOf(s) ==
  IF Rooted(s) THEN PathOf(Clean(s)) ELSE Tail(PathOf(FoldLeft(AddRelative, <<>>, Split(s))))

NoPath == <<>>

\* filepath.Abs in the working directory cwd; NoPath is its error.
Abs(cwd, s) ==
  IF ~Rooted(s) /\ cwd = NoPath THEN NoPath
  ELSE PathOf(Clean(IF Rooted(s) THEN s ELSE cwd \o <<47>> \o s))

\* Mutant of Canonical: ".." is cleaned away like the rest.
CanonicalCleans(cwd, s) == IF s = <<>> THEN NoPath ELSE Abs(cwd, s)

\* canonicalSocketPath; NoPath is its error.
Canonical(cwd, s) ==
  IF s = <<>> \/ \E i \in DOMAIN Split(s) : Split(s)[i] = DotDot THEN NoPath ELSE Abs(cwd, s)

\* A working directory is absolute, without ".." (a shell keeps it out of $PWD);
\* /tmp/cc-socks-<uid> is absolute and clean.
ASSUME PathsAssumption ==
  /\ MaxPath \in Nat
  /\ TempDir \in Seq(0..255) \ {<<>>}
  /\ \A cwd \in Cwds \ {NoPath} :
       cwd \in Seq(0..255) /\ Rooted(cwd) /\ Canonical(cwd, cwd) # NoPath
  /\ Fallback \in Seq(0..255) \ {<<>>, <<47>>} /\ Canonical(NoPath, Fallback) = Fallback

\* SocketsDir ("/c" stands for "/cc-socks") for a base from the environment.
SocketsDir(base) == (IF base = <<>> THEN TempDir ELSE base) \o <<47, 99>>

\* Mutant of DefaultPath: the limit is compared with the path as it was given.
DefaultUnresolved(cwd, base, prefix, file) ==
  LET s == SocketsDir(base) \o <<47>> \o file
      p == Abs(cwd, s) IN
    IF p # NoPath /\ Len(s) <= MaxPath THEN p ELSE JoinOf(prefix \o Fallback \o <<47>> \o file)

\* DefaultSocketPath, for the file name of a PID.  A prefix is Termux's $PREFIX, whose
\* tmp stands in for /tmp as it is: filepath.Join makes it neither absolute nor shorter.
DefaultPath(cwd, base, prefix, file) ==
  LET p == Abs(cwd, SocketsDir(base) \o <<47>> \o file) IN
    IF p # NoPath /\ Len(p) <= MaxPath THEN p ELSE JoinOf(prefix \o Fallback \o <<47>> \o file)
=============================================================================
