---------------------------------- MODULE Avi ----------------------------------
(***************************************************************************)
(* A recording as a file: the AVI writer of the stand-in recorder             *)
(* (backend/internal/avi/avi.go), the reader of what is on the disk           *)
(* (avi/reader.go) and the replay of it at its own pace (httpapi/replay.go).   *)
(*                                                                         *)
(* A file is the chunk headers it holds, each at its offset in bytes; what is *)
(* in a frame is left out.  Times are in microseconds, of which Milli make a   *)
(* millisecond and Milli * Kilo a second.                                    *)
(***************************************************************************)
EXTENDS Integers, Sequences, FiniteSets, TLC

CONSTANTS Lengths, Gaps,      \* bytes of a frame, microseconds between two
          Speeds, Froms,      \* what a viewer may ask: half speeds, and the first frame
          Lates,              \* by how much a timer may be late
          Marks,              \* how far the header may be written when the service stops
          Missing,            \* how many bytes the end of a file may lack
          Junk,               \* sizes that bytes may say which are no chunk header
          MaxFrames,          \* what one file may hold
          MinFrames,          \* what is worth keeping
          MaxOffered,         \* bound: frames that arrive
          Milli, Kilo,        \* 1000 each
          Default,            \* microseconds a frame, where none can be measured
          Wrap                \* 2^32: what the sizes in a file wrap at

HeaderBytes == 224

ASSUME AviAssumption ==
  /\ Lengths \subseteq Nat /\ Gaps \subseteq Nat /\ Speeds \subseteq Nat /\ Froms \subseteq Nat
  /\ Lates \subseteq Nat /\ Marks \subseteq 0..HeaderBytes - 1 /\ Junk \subseteq Nat
  /\ Missing \subseteq Nat
  /\ {MaxFrames, MinFrames, MaxOffered, Milli, Kilo, Default} \subseteq Nat \ {0}
  /\ Wrap \in Nat /\ Wrap > HeaderBytes
  /\ \A gap \in Gaps : gap <= 10 * Milli * Kilo     \* standInIdle

VARIABLES
  rec,                \* the recording: "open", "closing", "done", "crashed", "lost"
  made,               \* the frames written: where, how long, when
  offered, now,
  file, cut,          \* what is on the disk, and whether its end is missing
  viewer, from, speed, started, \* who watches, from which frame, how fast, since when
  shown               \* the frames the viewer has been sent

aviVars == <<rec, made, offered, now, file, cut, viewer, from, speed, started, shown>>
replay == <<viewer, from, speed, started, shown>>

Least(a, b) == IF a < b THEN a ELSE b
Chunk(at, id, size, kind) == [at |-> at, id |-> id, size |-> size, kind |-> kind]

Ids    == {"RIFF", "LIST", "avih", "strh", "strf", "00dc", "idx1"}
Kinds  == {"AVI ", "hdrl", "strl", "movi", "vids", ""}
Chunks == [at : Nat, id : Ids, size : Nat, kind : Kinds]
Heads  == [chunks : SUBSET Chunks, us : Int, scale : Int, rate : Int]
Files  == [len : Nat, upto : 0..HeaderBytes, chunks : SUBSET Chunks, head : Heads, junk : Nat,
           entries : Seq([off : Nat, len : Nat])]
Zeroes == [chunks |-> {}, us |-> 0, scale |-> 0, rate |-> 0]

WriterTypeOK ==
  /\ rec \in {"open", "closing", "done", "crashed", "lost"} /\ cut \in BOOLEAN
  /\ made \in Seq([off : Nat, len : Nat, at : Nat])
  /\ file \in Files /\ file.upto <= file.len

AviTypeOK ==
  /\ WriterTypeOK /\ Len(made) <= Least(MaxFrames, offered) /\ offered \in 0..MaxOffered
  /\ viewer \in {"none", "watching", "over", "refused", "gone"}
  /\ shown \subseteq DOMAIN made /\ {from, speed, started, now} \subseteq Nat /\ started <= now

(* NewWriter: the header is reserved. *)
AviInit ==
  /\ rec = "open" /\ made = <<>> /\ offered = 0 /\ now = 0
  /\ \E junk \in Junk : file = [len |-> HeaderBytes, upto |-> 0, chunks |-> {}, entries |-> <<>>,
                                head |-> Zeroes, junk |-> junk]
  /\ cut = FALSE /\ viewer = "none" /\ from = 1 /\ speed = 0 /\ started = 0 /\ shown = {}
-----------------------------------------------------------------------------
(* The writer.                                                              *)

Padded(n) == 8 + n + (n % 2)

Bytes(frames) == IF frames = <<>> THEN 0
                 ELSE LET ends(f) == f.off + f.len + (f.len % 2)
                      IN ends(frames[Len(frames)]) - HeaderBytes

Arrives == rec = "open" /\ offered < MaxOffered /\ offered' = offered + 1
           /\ \E gap \in Gaps : now' = now + gap

(* An empty frame is none. *)
WriteNothing == Arrives /\ 0 \in Lengths /\ UNCHANGED <<rec, made, file, cut, replay>>

WriteFrame(n) ==
  /\ Arrives /\ n > 0 /\ Len(made) < MaxFrames
  /\ made' = Append(made, [off |-> file.len + 8, len |-> n, at |-> now'])
  /\ file' = [file EXCEPT !.chunks = @ \cup {Chunk(file.len, "00dc", n, "")},
                          !.len = @ + 8 + n + (n % 2)]
  /\ UNCHANGED <<rec, cut, replay>>

(* A frame too many, or a write that fails: the recording is thrown away. *)
Abort == rec \in {"open", "closing"} /\ rec' = "lost" /\ UNCHANGED <<made, offered, now, file, cut, replay>>

(* Mutant: the mean of as many gaps as there are frames. *)
UsPerFrameStretched ==
  IF Len(made) < 2 THEN Default ELSE (made[Len(made)].at - made[1].at) \div Len(made)

(* The mean gap, measured. *)
UsPerFrame ==
  LET span == made[Len(made)].at - made[1].at
      us == span \div (Len(made) - 1)
  IN IF Len(made) < 2 THEN Default
     ELSE IF span = 0 THEN Default
     ELSE IF us = 0 THEN 1 ELSE us

(* The index says where each frame's chunk is, from the tag of the movie list. *)
Entry(i) ==
  LET off[j \in 1..i] == IF j = 1 THEN 4 ELSE (off[j - 1] + Padded(made[j - 1].len)) % Wrap
  IN [off |-> off[i], len |-> made[i].len]

(* What writeHeader fills in, and where. *)
Header ==
  LET frames == Len(made)
      durMs == (frames * UsPerFrame) \div Milli
      movieBytes == Bytes(made) % Wrap
      movieList == (4 + movieBytes) % Wrap
  IN [chunks |-> {Chunk(0, "RIFF", (4 + 200 + 8 + movieList + 8 + 16 * frames) % Wrap, "AVI "),
                  Chunk(12, "LIST", 192, "hdrl"), Chunk(24, "avih", 56, ""),
                  Chunk(88, "LIST", 116, "strl"), Chunk(100, "strh", 56, "vids"),
                  Chunk(164, "strf", 40, ""), Chunk(212, "LIST", movieList, "movi")},
      us |-> UsPerFrame, scale |-> IF durMs = 0 THEN 1 ELSE durMs, rate |-> frames * Kilo]

Headed(n) == file' = [file EXCEPT !.head = Header, !.upto = n]

(* Mutant: the header first, then the index. *)
CloseIndexHeaded ==
  /\ rec = "open" /\ Len(made) >= MinFrames /\ rec' = "closing" /\ Headed(HeaderBytes)
  /\ UNCHANGED <<made, offered, now, cut, replay>>

CloseIndex ==
  /\ rec = "open" /\ Len(made) >= MinFrames /\ rec' = "closing"
  /\ file' = [file EXCEPT !.chunks = @ \cup {Chunk(file.len, "idx1", 16 * Len(made), "")},
                          !.entries = [i \in DOMAIN made |-> Entry(i)],
                          !.len = @ + 8 + 16 * Len(made)]
  /\ UNCHANGED <<made, offered, now, cut, replay>>

CloseHeader ==
  rec = "closing" /\ rec' = "done" /\ Headed(HeaderBytes) /\ UNCHANGED <<made, offered, now, cut, replay>>

(* The service stops: what was written of the header is written. *)
Crash ==
  /\ rec' = "crashed" /\ UNCHANGED <<made, offered, now, cut, replay>>
  /\ \/ rec = "open" /\ UNCHANGED file
     \/ rec = "closing" /\ \E n \in Marks : Headed(n)
-----------------------------------------------------------------------------
(* The reader.  It finds in eight bytes a chunk header, zeroes, or anything.   *)

Look(f, at) ==
  LET there == {c \in f.chunks : c.at = at}
               \cup (IF f.upto < at + 8 THEN {} ELSE {c \in f.head.chunks : c.at = at})
  IN IF there # {} THEN CHOOSE c \in there : TRUE
     ELSE Chunk(at, "", IF f.upto <= at /\ at + 8 <= HeaderBytes THEN 0 ELSE f.junk, "")

Kind(f, c) == IF c.at < HeaderBytes /\ f.upto < c.at + 12 THEN "" ELSE c.kind

NotFound == [movi |-> 0, moviEnd |-> 0, idx |-> 0, idxBytes |-> 0, us |-> 0, scale |-> 0, rate |-> 0]

(* A chunk that runs past its parent ends with it. *)
Within(size, body, end) == IF body + size > end THEN end - body ELSE size

(* What a chunk has to say. *)
Found(f, c, size, got) ==
  LET body == c.at + 8 IN
  CASE c.id = "LIST" /\ Kind(f, c) = "movi" -> [got EXCEPT !.movi = body, !.moviEnd = body + size]
    [] c.id = "idx1" -> [got EXCEPT !.idx = body, !.idxBytes = size]
    [] c.id = "avih" /\ size >= 40 -> [got EXCEPT !.us = f.head.us]
    [] c.id = "strh" /\ size >= 32 -> [got EXCEPT !.scale = f.head.scale, !.rate = f.head.rate]
    [] OTHER -> got

Level(at, end) == <<[at |-> at, end |-> end]>>
Descended(f, c) == c.id = "LIST" /\ Kind(f, c) \in {"hdrl", "strl"}

(* One chunk of the innermost list, or the end of that list. *)
Turn(f, s) ==
  LET at == Head(s.lists).at
      end == Head(s.lists).end
      c == Look(f, at)
      last == Least(end, f.len)
      size == Within(c.size, at + 8, end)
  IN IF s.lists = <<>> THEN s
     ELSE IF Len(s.lists) > 9 \/ at + 8 > last \/ (c.id = "LIST" /\ at + 12 > last)
     THEN [s EXCEPT !.lists = Tail(@)]
     ELSE [lists |-> (IF Descended(f, c) THEN Level(at + 12, at + 8 + size) ELSE <<>>)
                     \o Level(at + 8 + size + (size % 2), end) \o Tail(s.lists),
           got |-> Found(f, c, size, s.got)]

(* The index measures from the movie list or from the file: it is tried. *)
ChunkAt(f, at, size) == at + 8 <= size /\ Look(f, at).id = "00dc"

(* An entry without a length is passed over. *)
Nonempty(entries) ==
  LET kept[i \in 0..Len(entries)] ==
        IF i = 0 THEN <<>>
        ELSE IF entries[i].len = 0 THEN kept[i - 1] ELSE Append(kept[i - 1], entries[i])
  IN kept[Len(entries)]

FromIndex(f, got, size) ==
  LET n == Least(got.idxBytes, 16 * MaxFrames) \div 16
      entries == Nonempty(SubSeq(f.entries, 1, n))
      bases == {base \in {got.movi, 0} : ChunkAt(f, base + entries[1].off, size)}
      base == IF got.movi \in bases THEN got.movi ELSE 0
      frames == [i \in DOMAIN entries |-> [off |-> base + entries[i].off + 8, len |-> entries[i].len]]
  IN IF got.idx = 0 THEN <<>>
     ELSE IF entries = <<>> THEN <<>>
     ELSE IF bases = {} \/ \E i \in DOMAIN frames : frames[i].off + frames[i].len > size THEN <<>>
     ELSE frames

(* Mutant: the pad byte is forgotten. *)
StrideUnpadded(size) == 8 + size
Stride(size) == 8 + size + (size % 2)

NextChunk(f, end, s) ==
  LET c == Look(f, s.at) IN
  IF s.at + 8 > end \/ Len(s.frames) = MaxFrames \/ s.at + 8 + c.size > end THEN s
  ELSE [at |-> s.at + Stride(c.size),
        frames |-> IF c.id = "00dc" /\ c.size > 0
                   THEN Append(s.frames, [off |-> s.at + 8, len |-> c.size]) ELSE s.frames]

(* No chunk has fewer than eight bytes. *)
MovieWalk(f, at, end) ==
  LET list[n \in Nat] == IF n = 0 THEN [at |-> at, frames |-> <<>>] ELSE NextChunk(f, end, list[n - 1])
  IN list

FromMovie(f, at, end) == MovieWalk(f, at, end)[f.len \div 8].frames

(* The file's length: what it states, or what is on the disk. *)
SizeOf(f) == Least(Look(f, 0).size + 8, f.len)

(* Every turn is a chunk of eight bytes or more, or the end of a list that one opened. *)
Walk(f) ==
  LET walk[n \in Nat] == IF n = 0 THEN [lists |-> Level(12, SizeOf(f)), got |-> NotFound]
                         ELSE Turn(f, walk[n - 1])
  IN walk

Sought(f) == Walk(f)[2 * (f.len \div 8)].got

Frames(f) ==
  LET got == Sought(f)
      indexed == FromIndex(f, got, SizeOf(f))
  IN IF f.len < 12 \/ f.upto < 12 THEN <<>>
     ELSE IF got.movi = 0 THEN <<>>
     ELSE IF indexed # <<>> THEN indexed
     ELSE FromMovie(f, got.movi + 4, Least(got.moviEnd, SizeOf(f)))

Cut(f, n) == [f EXCEPT !.len = n, !.upto = Least(@, n)]

(* ReadIndex refuses a file in which it finds no frame. *)
Refused(f) == Frames(f) = <<>>

TooLong == 10 * Milli * Kilo

UsPerFrameExact(f) ==
  LET got == Sought(f)
      us == IF got.rate = 0 THEN 0 ELSE (got.scale * Milli * Kilo) \div got.rate
  IN IF us > 0 /\ us <= TooLong THEN us
     ELSE IF got.us > 0 /\ got.us <= TooLong THEN got.us ELSE Default

AtMs(f, i) == ((i - 1) * UsPerFrameExact(f)) \div Milli
-----------------------------------------------------------------------------
(* The replay.                                                              *)

StartAt(n) == Least(n + 1, Len(Frames(file)))

Open(n, s) ==
  /\ rec = "done" /\ viewer = "none"
  /\ IF Refused(file) THEN viewer' = "refused" /\ UNCHANGED <<from, speed, started>>
     ELSE viewer' = "watching" /\ from' = StartAt(n) /\ speed' = s /\ started' = now
  /\ UNCHANGED <<rec, made, offered, now, file, cut, shown>>

NextFrame == from + Cardinality(shown)

(* A camera's own recording may lack its end. *)
Shorten(n) ==
  /\ rec = "done" /\ viewer = "none" /\ n < file.len /\ file' = Cut(file, file.len - n)
  /\ cut' = TRUE /\ ~ cut /\ UNCHANGED <<rec, made, offered, now, replay>>

(* Mutant: the speed is not looked at. *)
DueUnpaced == IF speed = 0 THEN 0 ELSE started + (AtMs(file, NextFrame) - AtMs(file, from)) * Milli

Due == IF speed = 0 THEN 0
       ELSE started + ((AtMs(file, NextFrame) - AtMs(file, from)) * Milli * 2) \div speed

(* The next frame is sent when it is due, or as late as the timer is. *)
Send ==
  /\ viewer = "watching" /\ NextFrame <= Len(Frames(file)) /\ shown' = shown \cup {NextFrame}
  /\ \E late \in Lates : now' = (IF Due > now THEN Due ELSE now) + late
  /\ UNCHANGED <<rec, made, offered, file, cut, viewer, from, speed, started>>

Over == /\ viewer = "watching" /\ NextFrame > Len(Frames(file)) /\ viewer' = "over"
        /\ UNCHANGED <<rec, made, offered, now, file, cut, from, speed, started, shown>>

(* The viewer goes away, while it waits or while a frame is sent. *)
Gone == /\ viewer = "watching" /\ viewer' = "gone"
        /\ UNCHANGED <<rec, made, offered, now, file, cut, from, speed, started, shown>>

AviNext == \/ WriteNothing \/ \E n \in Lengths : WriteFrame(n)
           \/ Abort \/ CloseIndex \/ CloseHeader \/ Crash
           \/ \E n \in Froms, s \in Speeds : Open(n, s)
           \/ \E n \in Missing : Shorten(n)
           \/ Send \/ Over \/ Gone

AviSpec == AviInit /\ [][AviNext]_aviVars
-----------------------------------------------------------------------------
(* Properties.                                                              *)

Written == [i \in DOMAIN made |-> [off |-> made[i].off, len |-> made[i].len]]

(* What a finished file is read back as is what was written: every frame, in   *)
(* order and at its place, through the padding of both sides (CutIsKept at     *)
(* its full length).                                                        *)
ReadsBack == rec = "done" /\ ~ cut => Frames(file) = Written

(* A finished file is read back as it was written, through the padding of both *)
(* sides.  However much of its end it lacks, what is read of it are the first  *)
(* of the frames written, whole and at their places; and without any of the    *)
(* index they are all that are whole.                                       *)
CutIsKept ==
  rec = "done" /\ viewer = "none" /\ ~ cut /\ file.len <= Wrap => \A n \in 0..file.len :
    LET read == Frames(Cut(file, n))
        whole == {i \in DOMAIN made : made[i].off + made[i].len <= n}
    IN /\ Len(read) <= Cardinality(whole) /\ read = SubSeq(Written, 1, Len(read))
       /\ n = file.len \/ n < file.len - 16 * (Len(made) - 1) => Len(read) = Cardinality(whole)

(* A file whose Close did not run through is refused, however much of its      *)
(* header was written.                                                      *)
UnfinishedRefused == rec # "done" => Refused(file)

(* A frame is due where it would be had the frames come evenly, to two         *)
(* milliseconds and two microseconds a frame: a slow recording is a slow       *)
(* replay.  A mean gap that is longer than the reader believes is no rate.     *)
Span == made[Len(made)].at - made[1].at
Believed == Len(made) > 1 /\ Span > 0 /\ Span <= TooLong * (Len(made) - 1)
Slack(i) == 2 * Milli + 2 * i
TimesTrue ==
  rec = "done" /\ ~ Refused(file) /\ Believed => \A i \in DOMAIN made :
    LET gaps == Len(made) - 1
        off == AtMs(file, i) * Milli * gaps - (i - 1) * Span
    IN off <= Slack(i) * gaps /\ - off <= Slack(i) * gaps

(* No frame is sent before its time, at the speed asked for, counted from the  *)
(* first that was sent, but for the microsecond that a division loses.        *)
NotRushed ==
  [][\A i \in shown' \ shown : speed > 0 /\ Believed =>
       ((now' - started + 1) * speed + 2 * Slack(i)) * (Len(made) - 1) >= 2 * (i - from) * Span]_aviVars

(* reader.go:345: the stream header's fraction survives the division that the  *)
(* movie header's microseconds have lost.  Refuted: the fraction was made from *)
(* the microseconds, to the millisecond below.                              *)
FractionIsFiner ==
  rec = "done" /\ ~ cut /\ Len(made) > 1 /\ Span > 0 =>
    LET gaps == Len(made) - 1
        off(us) == IF us * gaps > Span THEN us * gaps - Span ELSE Span - us * gaps
    IN off(UsPerFrameExact(file)) <= off(file.head.us)

(* reader_test.go:71: a recording whose index did not survive is still        *)
(* footage.  Refuted: where a part of the index did, what it lacks is not.     *)
WholeFramesRead ==
  rec = "done" /\ viewer = "none" /\ ~ cut => \A n \in 224..file.len :
    \A i \in DOMAIN made : made[i].off + made[i].len <= n => i <= Len(Frames(Cut(file, n)))
=============================================================================
