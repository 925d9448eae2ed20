--------------------------- MODULE FileFetchProofs ---------------------------
(***************************************************************************)
(* Proofs about FileFetch: its type invariant and what a file counted as   *)
(* held may be, for every instance; that a file survives and the fetch     *)
(* implements LibraryFile, for a sermon of one version; that every source  *)
(* is asked, and that a fetch comes to an end.                             *)
(***************************************************************************)
EXTENDS FileFetch, TLAPS, FiniteSetTheorems, SequenceTheorems

----------------------------------------------------------------------------
(* Sequences and sets.                                                     *)

\* A function on 1..n is a sequence of length n.
LEMMA BlocksAreASequence ==
    ASSUME NEW S, NEW n \in Nat, NEW f \in [1..n -> S]
    PROVE  f \in Seq(S) /\ Len(f) = n
  OBVIOUS

\* What the beginning of a sequence is.
LEMMA Prefixes ==
    ASSUME NEW S, NEW s \in Seq(S), NEW n \in 0..Len(s)
    PROVE  /\ SubSeq(s, 1, n) \in Seq(S) /\ Len(SubSeq(s, 1, n)) = n
           /\ \A i \in 1..n : SubSeq(s, 1, n)[i] = s[i]
  <1>1. SubSeq(s, 1, n) = [i \in 1..n |-> s[i]]
    OBVIOUS
  <1>2. [i \in 1..n |-> s[i]] \in [1..n -> S]
    OBVIOUS
  <1> QED BY <1>1, <1>2, BlocksAreASequence

\* The holes of a file can be counted.
LEMMA HolesFinite ==
    ASSUME NEW f \in Seq(Tags)
    PROVE  IsFiniteSet(Holes(f)) /\ Cardinality(Holes(f)) \in Nat
  <1>1. Len(f) \in Nat /\ IsFiniteSet(1..Len(f))
    BY FS_Interval
  <1>2. IsFiniteSet(Holes(f))
    BY <1>1, FS_Subset DEF Holes
  <1> QED BY <1>2, FS_CardinalityType

\* Losing blocks never makes a file fuller.
LEMMA FewerBlocks ==
    ASSUME NEW f \in Seq(Tags), NEW g \in Seq(Tags), Holes(f) \subseteq Holes(g)
    PROVE  Cardinality(Holes(f)) <= Cardinality(Holes(g))
  BY HolesFinite, FS_Subset

----------------------------------------------------------------------------
(* The type invariant.                                                     *)

LEMMA Bounds == MaxAttempts \in Nat \ {0}
  BY SizesAssumption DEF MaxAttempts

LEMMA UrlTyped == TypeOK => Url \in Urls
  BY SizesAssumption DEF TypeOK, LoopOK, Url, Urls

\* The locals of the loop after a reset.
LEMMA ResetTyped == LoopReset => LoopOK'
  <1> SUFFICES ASSUME LoopReset PROVE LoopOK'
    OBVIOUS
  <1>1. attempt' \in 0..(MaxAttempts - 1)
    BY Bounds DEF LoopReset
  <1>2. /\ dead' \in SUBSET Urls /\ slow' \in SUBSET Urls
        /\ second' \in BOOLEAN /\ asked' \in SUBSET Urls
    BY DEF LoopReset
  <1> QED BY <1>1, <1>2 DEF LoopOK

LEMMA LoopStutter == LoopOK /\ UNCHANGED loop => LoopOK'
  <1> SUFFICES ASSUME LoopOK, UNCHANGED loop PROVE LoopOK'
    OBVIOUS
  <1>1. attempt' \in 0..(MaxAttempts - 1)
    BY DEF LoopOK, loop
  <1> QED BY <1>1, Zenon DEF LoopOK, loop

\* What the control operators do to pc, the outcome and the loop.
LEMMA FinishTyped ==
    ASSUME NEW o \in Outcomes, Finish(o)
    PROVE  LoopOK' /\ pc' = "idle" /\ outcome' \in Outcomes
  BY ResetTyped DEF Finish

LEMMA AfterSwarmTyped ==
    ASSUME TypeOK, AfterSwarm
    PROVE  LoopOK' /\ pc' \in {"idle", "http"} /\ outcome' \in Outcomes
  <1>1. CASE pc' = "http" /\ UNCHANGED <<loop, outcome>>
    BY <1>1, LoopStutter DEF TypeOK, ControlOK
  <1>2. CASE Finish("Failed") \/ Finish("Continue")
    BY <1>2, FinishTyped DEF Outcomes
  <1> QED BY <1>1, <1>2 DEF AfterSwarm

LEMMA HttpFailedTyped ==
    ASSUME TypeOK, HttpFailed
    PROVE  LoopOK' /\ pc' \in {"idle", "lastswarm"} /\ outcome' \in Outcomes
  <1>1. CASE pc' = "lastswarm" /\ LoopReset /\ UNCHANGED outcome
    BY <1>1, ResetTyped DEF TypeOK, ControlOK
  <1>2. CASE Finish("Failed")
    BY <1>2, FinishTyped DEF Outcomes
  <1> QED BY <1>1, <1>2 DEF HttpFailed

LEMMA AttemptOverTyped ==
    ASSUME TypeOK, NEW d \in SUBSET Urls, NEW s \in SUBSET Urls, AttemptOver(d, s)
    PROVE  LoopOK' /\ pc' \in {"idle", "lastswarm", "send"} /\ outcome' \in Outcomes
  <1>1. CASE HttpFailed
    BY <1>1, HttpFailedTyped
  <1>2. CASE /\ attempt + 1 # MaxAttempts
             /\ pc' = "send" /\ attempt' = attempt + 1 /\ dead' = d
             /\ slow' \in {{}, s} /\ second' \in BOOLEAN
             /\ asked' = asked \cup {Url} /\ UNCHANGED outcome
    <2>1. attempt' \in 0..(MaxAttempts - 1)
      BY <1>2, Bounds DEF TypeOK, LoopOK
    <2>2. /\ dead' \in SUBSET Urls /\ slow' \in SUBSET Urls /\ asked' \in SUBSET Urls
      BY <1>2, UrlTyped DEF TypeOK, LoopOK
    <2> QED BY <1>2, <2>1, <2>2, Zenon DEF TypeOK, LoopOK, ControlOK
  <1>3. /\ HttpFailed \/ ~HttpFailed
        /\ AttemptOver(d, s) /\ ~HttpFailed =>
             /\ attempt + 1 # MaxAttempts
             /\ pc' = "send" /\ attempt' = attempt + 1 /\ dead' = d
             /\ slow' \in {{}, s} /\ asked' = asked \cup {Url} /\ UNCHANGED outcome
    BY DEF AttemptOver
  <1>4. AttemptOver(d, s) /\ ~HttpFailed => second' \in BOOLEAN
    BY Zenon DEF AttemptOver
  <1> QED BY <1>1, <1>2, <1>3, <1>4

\* A block of a version is never a hole.
LEMMA BlockTyped ==
    ASSUME NEW v \in Versions, NEW n \in Nat \ {0}
    PROVE  <<v, n>> \in Tags /\ <<v, n>> # Hole
  BY TagsAssumption DEF Tags

\* The steps that write to the drive, or say where a body stands; all the others
\* leave the files alone.
FileStep ==
    \/ SwarmAdd \/ (\E i \in 1..Expected : SwarmPiece(i))
    \/ (\E b \in BOOLEAN : SwarmGiveUp(b))
    \/ StartFresh \/ Chunk \/ Mismatch \/ (\E b \in BOOLEAN : Settle(b)) \/ Rename
    \/ Resume \/ Crash \/ PowerCut \/ FileVanishes

LEMMA OnlyFileSteps == Next => FileStep \/ UNCHANGED <<dest, destDurable, part, durable, offset>>
  BY DEF Next, NodeStep, MirrorAnswers, MagnetResolves, NetworkData, Environment, FileStep,
         Begin, SwarmAlreadyManaged, SwarmError, SwarmDone, HttpBegin, SkipSource, SendFails,
         SendRefused, DriveFull, StreamBreaks, TooSlow, BodyComplete, RenameFails,
         SeedFile, ListChanges, MirrorChanges, files

LEMMA ExpectedTyped == WorldOK => Expected \in Nat \ {0}
  BY SizesAssumption DEF WorldOK, Expected

LEMMA LengthTyped ==
    ASSUME NEW f \in Seq(Tags) \cup {NoFile}
    PROVE  Length(f) \in Nat /\ (f \in Seq(Tags) => Length(f) = Len(f))
  BY TagsAssumption DEF Length, Tags

\* What is left of a file after a power cut is a file.
LEMMA SurvivorsTyped ==
    ASSUME NEW f \in Seq(Tags) \cup {NoFile}, NEW d \in 0..Length(f), NEW g \in Survivors(f, d)
    PROVE  /\ g \in Seq(Tags) \cup {NoFile}
           /\ f = NoFile => g = NoFile
           /\ f # NoFile =>
                /\ g \in Seq(Tags) /\ Len(g) \in d..Len(f)
                /\ \A i \in 1..Len(g) : g[i] = f[i] \/ (Len(g) = Len(f) /\ i > d /\ g[i] = Hole)
  <1>1. CASE f = NoFile
    BY <1>1 DEF Survivors
  <1>2. CASE f # NoFile
    <2>1. f \in Seq(Tags) /\ Len(f) \in Nat /\ d \in 0..Len(f) /\ f \in [1..Len(f) -> Tags]
      BY <1>2, LengthTyped
    <2>2. CASE \E n \in d..Len(f) : g = SubSeq(f, 1, n)
      <3>1. PICK n \in d..Len(f) : g = SubSeq(f, 1, n)
        BY <2>2
      <3>2. n \in 0..Len(f)
        BY <2>1
      <3>3. g \in Seq(Tags) /\ Len(g) = n /\ \A i \in 1..n : g[i] = f[i]
        BY <2>1, <3>1, <3>2, Prefixes
      <3> QED BY <1>2, <3>3
    <2>3. CASE \E lost \in SUBSET ((d + 1)..Len(f)) :
                 g = [i \in 1..Len(f) |-> IF i \in lost THEN Hole ELSE f[i]]
      <3>1. PICK lost \in SUBSET ((d + 1)..Len(f)) :
                 g = [i \in 1..Len(f) |-> IF i \in lost THEN Hole ELSE f[i]]
        BY <2>3
      <3>2. g \in [1..Len(f) -> Tags]
        BY <2>1, <3>1 DEF Tags
      <3>3. g \in Seq(Tags) /\ Len(g) = Len(f)
        BY <2>1, <3>2, BlocksAreASequence
      <3>4. \A i \in 1..Len(f) : g[i] = f[i] \/ (i > d /\ g[i] = Hole)
        BY <2>1, <3>1
      <3> QED BY <1>2, <2>1, <3>3, <3>4
    <2> QED BY <1>2, <2>2, <2>3 DEF Survivors
  <1> QED BY <1>1, <1>2

\* TypeOK needs this much to be inductive: only the swarm stage fetches, into a
\* file of full length, and a body is written into a .part that exists.
Shape ==
    /\ sess = "fetching" => InSwarm /\ dest # NoFile /\ Len(dest) = Expected
    /\ pc \in {"body", "settle", "rename"} => part # NoFile

LEMMA FilesTyped == TypeOK /\ Shape /\ Next => FilesOK'
  <1> SUFFICES ASSUME TypeOK, Shape, Next PROVE FilesOK'
    OBVIOUS
  <1> USE DEF TypeOK
  <1>0. Expected \in Nat \ {0} /\ <<>> \in Seq(Tags) /\ Length(<<>>) = 0 /\ Length(NoFile) = 0
    BY ExpectedTyped, TagsAssumption DEF Length, Tags
  <1>1. CASE UNCHANGED <<dest, destDurable, part, durable, offset>>
    BY <1>1 DEF FilesOK
  <1>2. CASE SwarmAdd
    <2>1. \A i \in 1..Expected : i <= Length(dest) => dest[i] \in Tags
      BY LengthTyped DEF FilesOK, Length
    <2>2. dest' \in [1..Expected -> Tags]
      BY <1>2, <2>1 DEF SwarmAdd, Tags
    <2>3. dest' \in Seq(Tags)
      BY <1>0, <2>2, BlocksAreASequence
    <2> QED BY <1>2, <2>3 DEF SwarmAdd, FilesOK
  <1>3. ASSUME NEW i \in 1..Expected, SwarmPiece(i) PROVE FilesOK'
    <2>1. Right(i) \in Tags
      BY <1>0, BlockTyped DEF WorldOK, Right
    <2>2. dest \in Seq(Tags) /\ i \in 1..Len(dest) /\ dest' = [dest EXCEPT ![i] = Right(i)]
      BY <1>3 DEF SwarmPiece, FilesOK, Shape
    <2>3. dest' \in Seq(Tags)
      BY <2>1, <2>2, ExceptSeq
    <2> QED BY <1>3, <2>3 DEF SwarmPiece, FilesOK
  <1>4. ASSUME NEW b \in BOOLEAN, SwarmGiveUp(b) PROVE FilesOK'
    BY <1>4 DEF SwarmGiveUp, FilesOK
  <1>5. CASE StartFresh
    BY <1>0, <1>5 DEF StartFresh, FilesOK
  <1>6. CASE Chunk
    <2> DEFINE block == <<serves[Url], offset + 1>>
    <2>0. serves[Url] \in Versions /\ offset + 1 \in Nat \ {0}
      BY UrlTyped DEF FilesOK, WorldOK
    <2>1. part \in Seq(Tags) /\ block \in Tags /\ part' = Append(part, block)
      BY <1>6, <2>0, BlockTyped DEF Chunk, FilesOK, Shape
    <2>2. part' \in Seq(Tags) /\ Len(part') = Len(part) + 1 /\ Len(part) \in Nat
      BY <2>1, AppendProperties, LenProperties
    <2>3. Length(part') = Length(part) + 1
      BY <2>1, <2>2, LengthTyped
    <2> QED BY <1>6, <2>0, <2>1, <2>2, <2>3, LengthTyped DEF Chunk, FilesOK
  <1>7. CASE Mismatch
    BY <1>0, <1>7 DEF Mismatch, FilesOK
  <1>8. ASSUME NEW b \in BOOLEAN, Settle(b) PROVE FilesOK'
    BY <1>8, LengthTyped DEF Settle, FilesOK
  <1>9. CASE Rename
    BY <1>0, <1>9 DEF Rename, FilesOK
  <1>10. CASE PowerCut
    <2>1. dest' \in Seq(Tags) \cup {NoFile}
      BY <1>10, SurvivorsTyped, LengthTyped DEF PowerCut, FilesOK
    <2>2. part' \in Seq(Tags) \cup {NoFile}
      BY <1>10, SurvivorsTyped DEF PowerCut, FilesOK
    <2> QED BY <1>10, <2>1, <2>2, LengthTyped DEF PowerCut, ProcessGone, FilesOK
  <1>11. CASE FileVanishes
    BY <1>11 DEF FileVanishes, FilesOK
  <1>12. CASE Resume \/ Crash
    BY <1>12, LengthTyped DEF Resume, Crash, ProcessGone, files, FilesOK
  <1> QED BY <1>1, <1>2, <1>3, <1>4, <1>5, <1>6, <1>7, <1>8, <1>9, <1>10, <1>11, <1>12, OnlyFileSteps
          DEF FileStep

LEMMA WorldTyped == TypeOK /\ Next => WorldOK'
  <1> SUFFICES ASSUME TypeOK, Next PROVE WorldOK'
    OBVIOUS
  <1>1. CASE UNCHANGED <<want, serves>>
    BY <1>1 DEF TypeOK, WorldOK
  <1>2. ASSUME NEW v \in Versions, ListChanges(v) PROVE WorldOK'
    BY <1>2 DEF TypeOK, WorldOK, ListChanges
  <1>3. ASSUME NEW v \in Versions, NEW u \in Urls, MirrorChanges(u, v) PROVE WorldOK'
    BY <1>3 DEF TypeOK, WorldOK, MirrorChanges
  <1> QED BY <1>1, <1>2, <1>3
          DEF Next, NodeStep, MirrorAnswers, MagnetResolves, NetworkData, Environment,
              Begin, SwarmAlreadyManaged, SwarmError, SwarmAdd, SwarmPiece, SwarmDone,
              SwarmGiveUp, HttpBegin, SkipSource, SendFails, SendRefused, Resume, StartFresh,
              Chunk, DriveFull, StreamBreaks, TooSlow, Mismatch, BodyComplete, Settle, Rename,
              RenameFails, SeedFile, Crash, PowerCut, FileVanishes, ProcessGone, world

\* The steps after which the loop over the sources has moved on or ended.
LEMMA LoopStep ==
    ASSUME TypeOK, Next
    PROVE  \/ UNCHANGED loop
           \/ LoopReset
           \/ \E d, s \in SUBSET Urls : AttemptOver(d, s)
  <1>1. Url \in Urls /\ dead \in SUBSET Urls /\ slow \in SUBSET Urls
    BY UrlTyped DEF TypeOK, LoopOK
  <1>2. /\ SkipSource \/ SendFails \/ StreamBreaks \/ Mismatch \/ RenameFails
              => AttemptOver(dead, slow)
        /\ SendRefused => AttemptOver(dead \cup {Url}, slow)
        /\ TooSlow => AttemptOver(dead, slow \cup {Url})
    BY DEF SkipSource, SendFails, StreamBreaks, Mismatch, RenameFails, SendRefused, TooSlow
  <1>3. /\ dead \cup {Url} \in SUBSET Urls
        /\ slow \cup {Url} \in SUBSET Urls
    BY <1>1
  <1>4. CASE SkipSource \/ SendFails \/ StreamBreaks \/ Mismatch \/ RenameFails
             \/ SendRefused \/ TooSlow
    BY <1>1, <1>2, <1>3, <1>4
  <1>5. CASE /\ ~SkipSource /\ ~SendFails /\ ~StreamBreaks /\ ~Mismatch /\ ~RenameFails
             /\ ~SendRefused /\ ~TooSlow
    <2>1. UNCHANGED loop \/ LoopReset
      BY <1>5
         DEF Next, NodeStep, MirrorAnswers, MagnetResolves, NetworkData, Environment,
             Begin, SwarmAlreadyManaged, SwarmError, SwarmAdd, SwarmPiece, SwarmDone,
             SwarmGiveUp, HttpBegin, Resume, StartFresh, Chunk, DriveFull, BodyComplete, Settle,
             Rename, SeedFile, Crash, PowerCut, FileVanishes, ListChanges, MirrorChanges,
             ProcessGone, AfterSwarm, Finish, loop
    <2> QED BY <2>1
  <1> QED BY <1>4, <1>5

LEMMA LoopTyped == TypeOK /\ Next => LoopOK'
  <1> SUFFICES ASSUME TypeOK, Next PROVE LoopOK'
    OBVIOUS
  <1>1. CASE UNCHANGED loop
    BY <1>1, LoopStutter DEF TypeOK
  <1>2. CASE LoopReset
    BY <1>2, ResetTyped
  <1>3. CASE \E d, s \in SUBSET Urls : AttemptOver(d, s)
    BY <1>3, AttemptOverTyped
  <1> QED BY <1>1, <1>2, <1>3, LoopStep

LEMMA ControlTyped == TypeOK /\ Next => ControlOK'
  <1> SUFFICES ASSUME TypeOK, Next PROVE ControlOK'
    OBVIOUS
  <1>1. /\ sess' \in {"none", "fetching", "live"}
        /\ placed' \in {"none", "http", "swarm"}
    BY DEF TypeOK, ControlOK, past,
             Next, NodeStep, MirrorAnswers, MagnetResolves, NetworkData, Environment,
             Begin, SwarmAlreadyManaged, SwarmError, SwarmAdd, SwarmPiece, SwarmDone,
             SwarmGiveUp, HttpBegin, SkipSource, SendFails, SendRefused, Resume, StartFresh,
             Chunk, DriveFull, StreamBreaks, TooSlow, Mismatch, BodyComplete, Settle, Rename,
             RenameFails, SeedFile, Crash, PowerCut, FileVanishes, ListChanges, MirrorChanges,
             ProcessGone
  <1>2. job' \in [caller : Callers, mode : Modes]
    BY DEF TypeOK, ControlOK,
             Next, NodeStep, MirrorAnswers, MagnetResolves, NetworkData, Environment,
             Begin, SwarmAlreadyManaged, SwarmError, SwarmAdd, SwarmPiece, SwarmDone,
             SwarmGiveUp, HttpBegin, SkipSource, SendFails, SendRefused, Resume, StartFresh,
             Chunk, DriveFull, StreamBreaks, TooSlow, Mismatch, BodyComplete, Settle, Rename,
             RenameFails, SeedFile, Crash, PowerCut, FileVanishes, ListChanges, MirrorChanges,
             ProcessGone
  <1>3. faults' \in 0..MaxFaults
    <2>1. faults' = faults \/ (faults < MaxFaults /\ faults' = faults + 1)
      BY DEF May,
             Next, NodeStep, MirrorAnswers, MagnetResolves, NetworkData, Environment,
             Begin, SwarmAlreadyManaged, SwarmError, SwarmAdd, SwarmPiece, SwarmDone,
             SwarmGiveUp, HttpBegin, SkipSource, SendFails, SendRefused, Resume, StartFresh,
             Chunk, DriveFull, StreamBreaks, TooSlow, Mismatch, BodyComplete, Settle, Rename,
             RenameFails, SeedFile, Crash, PowerCut, FileVanishes, ListChanges, MirrorChanges,
             ProcessGone
    <2> QED BY <2>1, SizesAssumption DEF TypeOK, ControlOK
  <1>4. pc' \in Stages /\ outcome' \in Outcomes
    <2>1. CASE AfterSwarm
      BY <2>1, AfterSwarmTyped DEF Stages
    <2>2. CASE \E d, s \in SUBSET Urls : AttemptOver(d, s)
      BY <2>2, AttemptOverTyped DEF Stages
    <2>3. CASE \E o \in Outcomes : Finish(o)
      BY <2>3, FinishTyped DEF Stages
    <2>4. CASE /\ pc' \in Stages /\ outcome' \in Outcomes
      BY <2>4
    <2>5. Url \in Urls /\ dead \in SUBSET Urls /\ slow \in SUBSET Urls
      BY UrlTyped DEF TypeOK, LoopOK
    <2>6. /\ dead \cup {Url} \in SUBSET Urls
          /\ slow \cup {Url} \in SUBSET Urls
      BY <2>5
    <2>7. CASE SkipSource \/ SendFails \/ StreamBreaks \/ Mismatch \/ RenameFails
               \/ SendRefused \/ TooSlow
      BY <2>2, <2>5, <2>6, <2>7
         DEF SkipSource, SendFails, StreamBreaks, Mismatch, RenameFails, SendRefused, TooSlow
    <2>8. CASE \/ SwarmAlreadyManaged \/ SwarmError \/ SwarmDone
               \/ \E b \in BOOLEAN : SwarmGiveUp(b)
      BY <2>1, <2>3, <2>8
         DEF SwarmAlreadyManaged, SwarmError, SwarmDone, SwarmGiveUp, Outcomes
    <2>9. CASE \/ \E c \in Callers, m \in Modes, fits \in BOOLEAN : Begin(c, m, fits)
               \/ \E b \in BOOLEAN : HttpBegin(b)
               \/ DriveFull \/ Rename
      BY <2>3, <2>9 DEF Begin, HttpBegin, DriveFull, Rename, Outcomes, Stages, TypeOK, ControlOK
    <2>10. CASE \/ SwarmAdd \/ \E i \in 1..Expected : SwarmPiece(i)
                \/ Resume \/ StartFresh \/ Chunk \/ BodyComplete
                \/ \E b \in BOOLEAN : Settle(b)
                \/ SeedFile \/ Environment
      BY <2>10
         DEF SwarmAdd, SwarmPiece, Resume, StartFresh, Chunk, BodyComplete, Settle, SeedFile,
             Environment, Crash, PowerCut, FileVanishes, ListChanges, MirrorChanges, ProcessGone,
             TypeOK, ControlOK, Stages, Outcomes
    <2> QED BY <2>7, <2>8, <2>9, <2>10
            DEF Next, NodeStep, MirrorAnswers, MagnetResolves, NetworkData
  <1>5. mixed' \in BOOLEAN
    BY Zenon DEF TypeOK, ControlOK, past,
             Next, NodeStep, MirrorAnswers, MagnetResolves, NetworkData, Environment,
             Begin, SwarmAlreadyManaged, SwarmError, SwarmAdd, SwarmPiece, SwarmDone,
             SwarmGiveUp, HttpBegin, SkipSource, SendFails, SendRefused, Resume, StartFresh,
             Chunk, DriveFull, StreamBreaks, TooSlow, Mismatch, BodyComplete, Settle, Rename,
             RenameFails, SeedFile, Crash, PowerCut, FileVanishes, ListChanges, MirrorChanges
  <1>6. doubt' \in {"none", "gaps", "mixed"}
    BY DEF TypeOK, ControlOK, past,
             Next, NodeStep, MirrorAnswers, MagnetResolves, NetworkData, Environment,
             Begin, SwarmAlreadyManaged, SwarmError, SwarmAdd, SwarmPiece, SwarmDone,
             SwarmGiveUp, HttpBegin, SkipSource, SendFails, SendRefused, Resume, StartFresh,
             Chunk, DriveFull, StreamBreaks, TooSlow, Mismatch, BodyComplete, Settle, Rename,
             RenameFails, SeedFile, Crash, PowerCut, FileVanishes, ListChanges, MirrorChanges
  <1> QED BY <1>1, <1>2, <1>3, <1>4, <1>5, <1>6 DEF ControlOK

\* The steps that leave sess alone while it is "fetching" do not end the stage.
LEMMA ShapeStep == TypeOK /\ Shape /\ Next => Shape'
  <1> SUFFICES ASSUME TypeOK, Shape, Next PROVE Shape'
    OBVIOUS
  <1>0. Url \in Urls /\ dead \cup {Url} \in SUBSET Urls /\ slow \cup {Url} \in SUBSET Urls
        /\ dead \in SUBSET Urls /\ slow \in SUBSET Urls
    BY UrlTyped DEF TypeOK, LoopOK
  <1>1. CASE SkipSource \/ SendFails \/ StreamBreaks \/ Mismatch \/ RenameFails
             \/ SendRefused \/ TooSlow
    <2>1. pc \notin {"swarm", "lastswarm"} /\ UNCHANGED sess
      BY <1>1 DEF SkipSource, Asks, SendFails, StreamBreaks, Mismatch, RenameFails,
                  SendRefused, TooSlow
    <2>2. sess' # "fetching"
      BY <2>1 DEF Shape, InSwarm
    <2>3. \E d, s \in SUBSET Urls : AttemptOver(d, s)
      BY <1>0, <1>1
         DEF SkipSource, SendFails, StreamBreaks, Mismatch, RenameFails, SendRefused, TooSlow
    <2>4. pc' \in {"idle", "lastswarm", "send"}
      BY <2>3, AttemptOverTyped
    <2> QED BY <2>2, <2>4 DEF Shape, InSwarm
  <1>2. CASE \/ SwarmAlreadyManaged \/ SwarmError \/ SwarmDone
             \/ \E b \in BOOLEAN : SwarmGiveUp(b)
    <2>1. sess' # "fetching"
      BY <1>2 DEF SwarmAlreadyManaged, SwarmError, SwarmDone, SwarmGiveUp
    <2>2. pc' \in {"idle", "http"}
      BY <1>2, AfterSwarmTyped
         DEF SwarmAlreadyManaged, SwarmError, SwarmDone, SwarmGiveUp, Finish
    <2> QED BY <2>1, <2>2 DEF Shape
  <1>3. CASE SwarmAdd
    <2>1. Expected \in Nat /\ Expected' = Expected
      BY <1>3, ExpectedTyped DEF SwarmAdd, world, TypeOK, Expected
    <2>2. \A i \in 1..Expected : i <= Length(dest) => dest[i] \in Tags
      BY LengthTyped DEF TypeOK, FilesOK, Length
    <2>3. dest' \in [1..Expected -> Tags]
      BY <1>3, <2>2 DEF SwarmAdd, Tags
    <2>4. dest' \in Seq(Tags) /\ Len(dest') = Expected
      BY <2>1, <2>3, BlocksAreASequence
    <2>5. dest' # NoFile
      BY <2>4, TagsAssumption DEF Tags
    <2> QED BY <1>3, <2>1, <2>4, <2>5 DEF SwarmAdd, Shape, InSwarm
  <1>4. ASSUME NEW i \in 1..Expected, SwarmPiece(i) PROVE Shape'
    <2>0. Expected \in Nat
      BY ExpectedTyped DEF TypeOK
    <2>1. Right(i) \in Tags /\ dest \in Seq(Tags) /\ i \in 1..Len(dest)
      BY <1>4, <2>0, BlockTyped DEF SwarmPiece, TypeOK, FilesOK, WorldOK, Right, Shape
    <2>2. dest' \in Seq(Tags) /\ Len(dest') = Len(dest)
      BY <1>4, <2>1, ExceptSeq DEF SwarmPiece
    <2>3. dest' # NoFile
      BY <2>2, TagsAssumption DEF Tags
    <2> QED BY <1>4, <2>2, <2>3 DEF SwarmPiece, Shape, InSwarm, Expected, world
  <1>5. CASE StartFresh \/ Chunk
    <2>1. ASSUME StartFresh PROVE part' # NoFile
      <3>1. part' \in Seq(Tags)
        BY <2>1 DEF StartFresh
      <3> QED BY <3>1, TagsAssumption DEF Tags
    <2>3. ASSUME Chunk PROVE part' # NoFile
      <3>0. serves[Url] \in Versions /\ offset + 1 \in Nat \ {0}
        BY <1>0 DEF TypeOK, FilesOK, WorldOK
      <3>1. /\ part \in Seq(Tags) /\ <<serves[Url], offset + 1>> \in Tags
            /\ part' = Append(part, <<serves[Url], offset + 1>>)
        BY <2>3, <3>0, BlockTyped DEF Chunk, TypeOK, FilesOK, Shape
      <3>2. part' \in Seq(Tags)
        BY <3>1, AppendProperties
      <3> QED BY <3>2, TagsAssumption DEF Tags
    <2>2. part' # NoFile
      BY <1>5, <2>1, <2>3
    <2> QED BY <1>5, <2>2 DEF StartFresh, Asks, Chunk, Shape, InSwarm
  <1>6. CASE Resume
    BY <1>6 DEF Resume, Asks, Length, files, Shape, InSwarm
  <1>7. CASE BodyComplete \/ \E b \in BOOLEAN : Settle(b)
    BY <1>7 DEF BodyComplete, Settle, files, Shape, InSwarm
  <1>8. CASE \/ \E c \in Callers, m \in Modes, fits \in BOOLEAN : Begin(c, m, fits)
             \/ \E b \in BOOLEAN : HttpBegin(b)
             \/ DriveFull \/ Rename
    BY <1>8 DEF Begin, HttpBegin, DriveFull, Rename, Finish, Shape, InSwarm
  <1>9. CASE SeedFile
    BY <1>9 DEF SeedFile, Shape, InSwarm
  <1>10. CASE Environment
    BY <1>10 DEF Environment, Crash, PowerCut, FileVanishes, ListChanges, MirrorChanges,
                 ProcessGone, Shape, InSwarm, files, Expected
  <1> QED BY <1>1, <1>2, <1>3, <1>4, <1>5, <1>6, <1>7, <1>8, <1>9, <1>10
          DEF Next, NodeStep, MirrorAnswers, MagnetResolves, NetworkData

----------------------------------------------------------------------------
(* A sermon of one version: what is held survives.                         *)

\* Every source has the same sermon, and the list never names another.
OneSermon == \A v, w \in Versions : v = w

\* No operator deletes the file, and the drive syncs what it says it syncs.
NoMishap == "vanish" \notin Faults /\ "syncerror" \notin Faults

LEMMA WholeLooksComplete ==
    ASSUME TypeOK, Whole(dest)
    PROVE  LooksComplete(dest)
  <1>1. dest \in Seq(Tags) /\ Len(dest) = Expected /\ Expected \in Nat
    BY ExpectedTyped DEF TypeOK, FilesOK, Whole
  <1>2. \A i \in 1..Expected : dest[i] # Hole
    <2> SUFFICES ASSUME NEW i \in 1..Expected PROVE dest[i] # Hole
      OBVIOUS
    <2>1. i \in Nat \ {0} /\ want \in Versions
      BY <1>1 DEF TypeOK, WorldOK
    <2>2. <<want, i>> # Hole
      BY <2>1, BlockTyped
    <2> QED BY <2>2 DEF Whole, Right
  <1>3. Holes(dest) = {}
    BY <1>1, <1>2 DEF Holes
  <1>4. Cardinality(Holes(dest)) = 0
    BY <1>3, FS_EmptySet
  <1> QED BY <1>1, <1>4, SizesAssumption DEF LooksComplete, Whole, TypeOK, WorldOK

\* A file that looks complete is left alone, except by the swarm stage that is
\* completing it, or that left it to the HTTP stage to look at; what HTTP renames
\* into place is of full length and synced.
Guarded ==
    /\ sess = "fetching" => ~destDurable
    /\ LooksComplete(dest) /\ pc # "idle" => sess = "fetching" \/ pc = "http"
    /\ Length(dest) <= Expected
    /\ pc \in {"settle", "rename"} => Length(part) = Expected
    /\ pc = "rename" => durable = Length(part)
    /\ placed = "http" => destDurable

\* The list names the same sermon for ever.
LEMMA SameSermon ==
    ASSUME OneSermon, TypeOK, Next
    PROVE  want' = want /\ Expected' = Expected
  <1>1. \A v \in Versions : v = want
    BY DEF OneSermon, TypeOK, WorldOK
  <1>2. UNCHANGED want
    BY <1>1
       DEF Next, NodeStep, MirrorAnswers, MagnetResolves, NetworkData, Environment,
           Begin, SwarmAlreadyManaged, SwarmError, SwarmAdd, SwarmPiece, SwarmDone,
           SwarmGiveUp, HttpBegin, SkipSource, SendFails, SendRefused, Resume, StartFresh,
           Chunk, DriveFull, StreamBreaks, TooSlow, Mismatch, BodyComplete, Settle, Rename,
           RenameFails, SeedFile, Crash, PowerCut, FileVanishes, ListChanges, MirrorChanges,
           ProcessGone, world
  <1> QED BY <1>2 DEF Expected

\* What a power cut does to dest: a synced file is as it was, and a file that
\* did not look complete does not look complete afterwards.
LEMMA PowerCutSpares ==
    ASSUME OneSermon, TypeOK, Guarded, PowerCut
    PROVE  /\ destDurable => dest' = dest
           /\ ~LooksComplete(dest) => ~LooksComplete(dest')
           /\ Length(dest') <= Expected
  <1> DEFINE d == IF destDurable THEN Length(dest) ELSE 0
  <1>1. /\ dest \in Seq(Tags) \cup {NoFile} /\ d \in 0..Length(dest)
        /\ dest' \in Survivors(dest, d)
    BY LengthTyped DEF TypeOK, FilesOK, PowerCut
  <1>2. CASE dest = NoFile
    BY <1>1, <1>2, SurvivorsTyped DEF LooksComplete, Length, Guarded
  <1>3. CASE dest # NoFile
    <2>1. /\ dest' \in Seq(Tags) /\ dest \in Seq(Tags)
          /\ Length(dest) = Len(dest) /\ Len(dest) \in Nat /\ Len(dest') \in d..Len(dest)
          /\ \A i \in 1..Len(dest') :
                dest'[i] = dest[i] \/ (Len(dest') = Len(dest) /\ i > d /\ dest'[i] = Hole)
      BY <1>1, <1>3, SurvivorsTyped, LengthTyped
    <2>2. ASSUME destDurable PROVE dest' = dest
      <3>1. Len(dest') = Len(dest) /\ \A i \in 1..Len(dest) : dest'[i] = dest[i]
        BY <2>1, <2>2
      <3> QED BY <2>1, <3>1, SeqEqual
    <2>3. Length(dest') = Len(dest') /\ Length(dest') <= Expected
      BY <2>1, LengthTyped, ExpectedTyped DEF Guarded, TypeOK
    <2>4. ASSUME ~LooksComplete(dest), LooksComplete(dest') PROVE FALSE
      <3>1. Len(dest') = Expected /\ Len(dest) = Expected
        BY <2>1, <2>4, ExpectedTyped DEF LooksComplete, Guarded, TypeOK
      <3>2. Holes(dest) \subseteq Holes(dest')
        BY <2>1, <3>1 DEF Holes
      <3>3. Cardinality(Holes(dest)) <= Cardinality(Holes(dest'))
        BY <2>1, <3>2, FewerBlocks
      <3>4. Cardinality(Holes(dest')) \in Nat /\ Cardinality(Holes(dest)) \in Nat
        BY <2>1, HolesFinite
      <3>5. SlackOf[want] \in Nat
        BY SizesAssumption DEF TypeOK, WorldOK
      <3> QED BY <1>3, <2>4, <3>1, <3>3, <3>4, <3>5 DEF LooksComplete
    <2> QED BY <2>2, <2>3, <2>4
  <1> QED BY <1>2, <1>3

\* The step facts the two theorems below rest on.
LEMMA GuardedStep ==
    ASSUME OneSermon, NoMishap, TypeOK, Shape, Guarded, Next
    PROVE  /\ Guarded' /\ (Library!Next \/ Copy' = Copy)
           /\ LooksComplete(dest) /\ destDurable => dest' = dest
  <1>0. want' = want /\ Expected' = Expected /\ Expected \in Nat \ {0}
    BY SameSermon, ExpectedTyped DEF TypeOK
  <1>2. Url \in Urls /\ dead \cup {Url} \in SUBSET Urls /\ slow \cup {Url} \in SUBSET Urls
        /\ dead \in SUBSET Urls /\ slow \in SUBSET Urls
    BY UrlTyped DEF TypeOK, LoopOK
  <1> DEFINE Same == UNCHANGED <<dest, destDurable>>
  <1>3. ASSUME Same PROVE Copy' = Copy /\ (LooksComplete(dest)' = LooksComplete(dest))
                          /\ (Length(dest)' = Length(dest))
    BY <1>0, <1>3 DEF Copy, LooksComplete, Length
  <1>4. CASE SkipSource \/ SendFails \/ StreamBreaks \/ Mismatch \/ RenameFails
             \/ SendRefused \/ TooSlow
    <2>1. Same /\ UNCHANGED <<sess, placed>> /\ pc \notin {"idle", "http"}
      BY <1>4 DEF SkipSource, Asks, SendFails, StreamBreaks, Mismatch, RenameFails,
                  SendRefused, TooSlow, files, past
    <2>2. \E d, s \in SUBSET Urls : AttemptOver(d, s)
      BY <1>2, <1>4
         DEF SkipSource, SendFails, StreamBreaks, Mismatch, RenameFails, SendRefused, TooSlow
    <2>3. pc' \in {"idle", "lastswarm", "send"}
      BY <2>2, AttemptOverTyped
    <2> QED BY <1>0, <1>3, <2>1, <2>3 DEF Guarded
  <1>5. CASE \/ SwarmAlreadyManaged \/ SwarmError \/ SwarmDone
             \/ \E b \in BOOLEAN : SwarmGiveUp(b)
    <2>1. pc' \in {"idle", "http"}
      BY <1>5, AfterSwarmTyped
         DEF SwarmAlreadyManaged, SwarmError, SwarmDone, SwarmGiveUp, Finish
    <2>2. CASE SwarmAlreadyManaged \/ SwarmError
      <3>1. Same /\ UNCHANGED <<sess, placed>> /\ sess # "fetching" /\ pc # "idle"
        BY <2>2 DEF SwarmAlreadyManaged, SwarmError, files, past, InSwarm
      <3> QED BY <1>0, <1>3, <2>1, <3>1 DEF Guarded
    <2>3. CASE SwarmDone
      <3>1. Same /\ UNCHANGED placed /\ sess' = "live"
        BY <2>3 DEF SwarmDone, files
      <3>2. LooksComplete(dest) => pc' = "idle"
        BY <2>3 DEF SwarmDone, Finish
      <3> QED BY <1>0, <1>3, <2>1, <3>1, <3>2 DEF Guarded
    <2>4. CASE \E b \in BOOLEAN : SwarmGiveUp(b)
      <3>1. /\ ~destDurable /\ sess' = "none" /\ UNCHANGED <<destDurable, placed>>
            /\ dest' \in {NoFile, dest}
        BY <2>4 DEF SwarmGiveUp, Guarded
      <3>2. Length(dest') <= Expected /\ Length(dest)' = Length(dest')
        BY <1>0, <3>1 DEF Length, Guarded
      <3>3. LooksComplete(dest)' => LooksComplete(dest)
        BY <1>0, <3>1 DEF LooksComplete
      <3> QED BY <1>0, <2>1, <3>1, <3>2, <3>3
              DEF Guarded, Copy, Library!Next, Library!SettlesOrIsLost
    <2> QED BY <1>5, <2>2, <2>3, <2>4
  <1>6. CASE SwarmAdd
    <2>1. /\ ~LooksComplete(dest) /\ sess' = "fetching" /\ ~destDurable' /\ placed' = "swarm"
          /\ UNCHANGED <<pc, part, durable>>
      BY <1>6 DEF SwarmAdd, InSwarm, Guarded
    <2>2. Len(dest)' = Expected /\ pc \in {"swarm", "lastswarm"}
      BY <1>0, <1>6, ShapeStep, <2>1 DEF Shape, InSwarm
    <2>3. Length(dest)' <= Expected
      BY <1>0, <2>2 DEF Length
    <2> QED BY <1>0, <2>1, <2>2, <2>3 DEF Guarded, Copy, Library!Next, Library!Arrives
  <1>7. ASSUME NEW i \in 1..Expected, SwarmPiece(i)
        PROVE  /\ Guarded' /\ (Library!Next \/ Copy' = Copy)
               /\ LooksComplete(dest) /\ destDurable => dest' = dest
    <2>1. /\ sess = "fetching" /\ ~destDurable
          /\ UNCHANGED <<pc, part, durable, sess, placed, destDurable>>
          /\ pc \in {"swarm", "lastswarm"}
      BY <1>7 DEF SwarmPiece, InSwarm, Guarded, past
    <2>2. Length(dest)' <= Expected
      BY <1>0, <2>1, ShapeStep DEF Shape, Length
    <2> QED BY <1>0, <2>1, <2>2
            DEF Guarded, Copy, Library!Next, Library!Arrives, Library!SettlesOrIsLost
  <1>8. CASE StartFresh \/ Chunk \/ Resume
    <2>1. Same /\ UNCHANGED <<sess, placed>> /\ pc \notin {"idle", "http"} /\ pc' = "body"
      BY <1>8 DEF StartFresh, Chunk, Resume, Asks, files, past
    <2> QED BY <1>0, <1>3, <2>1 DEF Guarded
  <1>9. CASE BodyComplete \/ \E b \in BOOLEAN : Settle(b)
    <2>1. /\ Same /\ UNCHANGED <<sess, placed, part>> /\ pc \notin {"idle", "http"}
          /\ Length(part) = Expected
          /\ pc' = "settle" \/ (pc' = "rename" /\ durable' = Length(part))
      BY <1>9 DEF BodyComplete, Settle, files, past, Guarded, NoMishap
    <2>2. Length(part)' = Length(part)
      BY <2>1 DEF Length
    <2> QED BY <1>0, <1>3, <2>1, <2>2 DEF Guarded
  <1>10. CASE Rename
    <2>1. /\ ~LooksComplete(dest) /\ destDurable' /\ pc' = "idle" /\ UNCHANGED sess
          /\ sess # "fetching" /\ dest' = part /\ Length(part) = Expected
      BY <1>10 DEF Rename, Finish, Guarded, Shape, InSwarm
    <2>2. Length(dest)' = Expected
      BY <2>1 DEF Length
    <2> QED BY <1>0, <2>1, <2>2 DEF Guarded, Copy, Library!Next, Library!Arrives
  <1>11. CASE \/ \E c \in Callers, m \in Modes, fits \in BOOLEAN : Begin(c, m, fits)
              \/ \E b \in BOOLEAN : HttpBegin(b)
              \/ DriveFull
    <2>1. /\ Same /\ UNCHANGED <<sess, placed>> /\ sess # "fetching"
          /\ LooksComplete(dest) => pc' = "idle"
          /\ pc' \notin {"settle", "rename"}
      BY <1>11 DEF Begin, HttpBegin, DriveFull, Finish, files, past, Guarded, Shape, InSwarm
    <2> QED BY <1>0, <1>3, <2>1 DEF Guarded
  <1>12. CASE \/ SeedFile \/ Crash
              \/ \E v \in Versions : ListChanges(v) \/ \E u \in Urls : MirrorChanges(u, v)
    <2>1. /\ Same /\ UNCHANGED <<placed, part, durable>>
          /\ sess' = "fetching" => sess = "fetching" /\ pc' = pc
          /\ pc' \in {"idle", pc}
          /\ sess' # sess => pc' = "idle"
      BY <1>12 DEF SeedFile, Crash, ListChanges, MirrorChanges, ProcessGone, files, past
    <2>2. Length(part)' = Length(part)
      BY <2>1 DEF Length
    <2> QED BY <1>0, <1>3, <2>1, <2>2 DEF Guarded
  <1>13. CASE PowerCut
    <2>1. sess' = "none" /\ pc' = "idle" /\ destDurable'
      BY <1>13 DEF PowerCut, ProcessGone
    <2>2. /\ destDurable => dest' = dest
          /\ ~LooksComplete(dest) => ~LooksComplete(dest')
          /\ Length(dest') <= Expected
      BY <1>13, PowerCutSpares
    <2>3. /\ LooksComplete(dest)' <=> LooksComplete(dest')
          /\ Length(dest)' = Length(dest')
      BY <1>0 DEF LooksComplete, Length
    <2> QED BY <1>0, <2>1, <2>2, <2>3
            DEF Guarded, Copy, Library!Next, Library!SettlesOrIsLost
  <1>14. ~FileVanishes
    BY DEF FileVanishes, May, NoMishap
  <1> QED BY <1>4, <1>5, <1>6, <1>7, <1>8, <1>9, <1>10, <1>11, <1>12, <1>13, <1>14
          DEF Next, NodeStep, MirrorAnswers, MagnetResolves, NetworkData, Environment

LEMMA InitGuarded == Init => TypeOK /\ Shape /\ Guarded
  <1> SUFFICES ASSUME Init PROVE TypeOK /\ Shape /\ Guarded
    OBVIOUS
  <1>0. mixed \in BOOLEAN
    BY Zenon DEF Init
  <1>1. WorldOK /\ ControlOK /\ Shape
    <2>1. WorldOK /\ Shape /\ job \in [caller : Callers, mode : Modes] /\ faults \in 0..MaxFaults
      BY SizesAssumption DEF Init, WorldOK, Shape, InSwarm, Callers, Modes
    <2>2. /\ sess = "none" /\ pc = "idle" /\ placed = "none" /\ doubt = "none" /\ outcome = "none"
          /\ "idle" \in Stages /\ "none" \in Outcomes
      BY DEF Init, Stages, Outcomes
    <2> QED BY <1>0, <2>1, <2>2, Zenon DEF ControlOK
  <1>2. FilesOK /\ Guarded
    BY <1>1, ExpectedTyped DEF Init, FilesOK, Length, Guarded, LooksComplete
  <1>3. attempt \in 0..(MaxAttempts - 1)
    BY Bounds DEF Init
  <1>4. LoopOK
    BY <1>3, Zenon DEF Init, LoopOK
  <1> QED BY <1>1, <1>2, <1>4 DEF TypeOK

LEMMA Stutter ==
    ASSUME TypeOK, Shape, UNCHANGED vars
    PROVE  TypeOK' /\ Shape' /\ (Guarded => Guarded') /\ Copy' = Copy
  <1>1. LoopOK'
    BY LoopStutter DEF vars, TypeOK
  <1> QED BY <1>1 DEF vars, world, files, past, TypeOK, WorldOK, FilesOK, ControlOK,
                      Shape, InSwarm, Expected, Length, Guarded, Copy, LooksComplete

LEMMA TypeStep == TypeOK /\ Shape /\ Next => TypeOK' /\ Shape'
  BY FilesTyped, WorldTyped, LoopTyped, ControlTyped, ShapeStep DEF TypeOK

\* Every variable keeps its type in every instance: any number of mirrors, any
\* versions and sizes, any faults.
THEOREM Typing == Spec => []TypeOK
  <1>1. TypeOK /\ Shape /\ [Next]_vars => (TypeOK /\ Shape)'
    BY TypeStep, Stutter
  <1> QED BY <1>1, InitGuarded, PTL DEF Spec

\* The fetch keeps what LibraryFile promises: once a file is held and on the
\* platter, no crash, power cut, later fetch or give-up takes it back.
THEOREM FetchKeepsItsPromise ==
    ASSUME OneSermon, NoMishap
    PROVE  Spec => KeepsItsPromise
  <1>1. Init => Library!Init
    BY DEF Init, Library!Init, Copy, LooksComplete
  <1>2. TypeOK /\ Shape /\ Guarded /\ [Next]_vars
          => (TypeOK /\ Shape /\ Guarded)' /\ [Library!Next]_Copy
    BY TypeStep, Stutter, GuardedStep
  <1> QED BY <1>1, <1>2, InitGuarded, PTL DEF Spec, KeepsItsPromise, Library!Spec

\* A whole file that HTTP put in place stays whole, through the same events.
THEOREM HttpFilesLast ==
    ASSUME OneSermon, NoMishap
    PROVE  Spec => HttpFilesSurvive
  <1>1. ASSUME TypeOK, Shape, Guarded, [Next]_vars
        PROVE  /\ TypeOK' /\ Shape' /\ Guarded'
               /\ placed = "http" /\ Whole(dest) /\ want' = want => Whole(dest')
    <2>1. /\ TypeOK' /\ Shape' /\ Guarded'
          /\ LooksComplete(dest) /\ destDurable => dest' = dest
      BY <1>1, TypeStep, Stutter, GuardedStep DEF vars, files
    <2>2. ASSUME placed = "http", Whole(dest), want' = want
          PROVE  Whole(dest')
      BY <1>1, <2>1, <2>2, WholeLooksComplete DEF Guarded
    <2> QED BY <2>1, <2>2
  <1>2. TypeOK /\ Shape /\ Guarded /\ [Next]_vars
          => (TypeOK /\ Shape /\ Guarded)'
             /\ [placed = "http" /\ Whole(dest) /\ want' = want => Whole(dest')]_<<dest, want>>
    BY <1>1
  <1> QED BY <1>2, InitGuarded, PTL DEF Spec, HttpFilesSurvive

----------------------------------------------------------------------------
(* The loop over the sources.                                              *)

InHttp == pc \in {"send", "body", "settle", "rename"}

\* The sources are asked in order, and only an asked source is set aside.
InOrder ==
    /\ pc # "idle" => outcome = "none"
    /\ InHttp => /\ dead \subseteq asked /\ slow \subseteq asked
                 /\ \A u \in Urls : u <= attempt => u \in asked

LEMMA NextInOrder ==
    ASSUME TypeOK, NEW u \in Urls, u <= attempt + 1, u > attempt
    PROVE  u = Url
  <1>1. NUrls \in Nat \ {0} /\ attempt \in Nat /\ u = attempt + 1 /\ attempt < NUrls
    BY SizesAssumption, Bounds DEF TypeOK, LoopOK, Urls
  <1>2. attempt % NUrls = attempt
    BY <1>1
  <1> QED BY <1>1, <1>2 DEF Url

\* When an attempt ends the loop, every source was asked.
LEMMA AttemptAsksAll ==
    ASSUME NUrls <= 12, TypeOK, InOrder, InHttp,
           NEW d \in SUBSET (asked \cup {Url}), NEW s \in SUBSET (asked \cup {Url}),
           AttemptOver(d, s)
    PROVE  /\ InOrder'
           /\ pc' # "send" => asked \cup {Url} = Urls
           /\ pc' \in {"idle", "lastswarm", "send"}
           /\ pc' = "send" => outcome' = "none"
  <1>1. NUrls \in Nat \ {0} /\ attempt \in Nat /\ Url \in Urls /\ asked \subseteq Urls
    BY SizesAssumption, Bounds, UrlTyped DEF TypeOK, LoopOK
  <1>2. /\ MaxAttempts >= NUrls
        /\ pc # "idle"
    BY <1>1 DEF MaxAttempts, InHttp
  <1>3. CASE HttpFailed
    <2>1. d \cup s = Urls \/ attempt + 1 = MaxAttempts \/ pc' = "send"
      BY DEF AttemptOver
    <2>2. pc' \in {"idle", "lastswarm"} /\ (pc' = "idle" \/ outcome' = outcome)
      BY <1>3 DEF HttpFailed, Finish
    <2>3. ASSUME attempt + 1 = MaxAttempts, NEW u \in Urls PROVE u \in asked \cup {Url}
      <3>1. u \in 1..NUrls /\ u <= attempt + 1
        BY <1>1, <1>2, <2>3 DEF Urls
      <3>2. CASE u <= attempt
        BY <3>2 DEF InOrder, InHttp
      <3>3. CASE u > attempt
        BY <3>1, <3>3, NextInOrder
      <3> QED BY <1>1, <3>1, <3>2, <3>3
    <2> QED BY <1>1, <1>2, <2>1, <2>2, <2>3 DEF InOrder, InHttp
  <1>4. CASE /\ pc' = "send" /\ attempt' = attempt + 1 /\ dead' = d /\ slow' \in {{}, s}
             /\ asked' = asked \cup {Url} /\ outcome' = outcome
    <2>1. ASSUME NEW u \in Urls, u <= attempt + 1 PROVE u \in asked \cup {Url}
      <3>1. CASE u <= attempt
        BY <3>1 DEF InOrder
      <3>2. CASE u > attempt
        BY <2>1, <3>2, NextInOrder
      <3> QED BY <1>1, <3>1, <3>2 DEF Urls
    <2>2. Urls' = Urls
      BY DEF Urls
    <2> QED BY <1>2, <1>4, <2>1, <2>2 DEF InOrder, InHttp
  <1> QED BY <1>3, <1>4 DEF AttemptOver

LEMMA InOrderStep ==
    ASSUME NUrls <= 12, TypeOK, InOrder, Next
    PROVE  /\ InOrder'
           /\ pc \in {"send", "body", "rename"} /\ (pc' = "lastswarm" \/ outcome' = "Failed")
                => asked \cup {Url} = Urls
  <1>1. CASE SkipSource \/ SendFails \/ StreamBreaks \/ Mismatch \/ RenameFails
             \/ SendRefused \/ TooSlow
    <2>1. InHttp
      BY <1>1 DEF SkipSource, Asks, SendFails, StreamBreaks, Mismatch, RenameFails,
                  SendRefused, TooSlow, InHttp
    <2>2. /\ dead \in SUBSET (asked \cup {Url}) /\ slow \in SUBSET (asked \cup {Url})
          /\ dead \cup {Url} \in SUBSET (asked \cup {Url})
          /\ slow \cup {Url} \in SUBSET (asked \cup {Url})
      BY <2>1 DEF InOrder
    <2>3. \E d, s \in SUBSET (asked \cup {Url}) : AttemptOver(d, s)
      BY <1>1, <2>2
         DEF SkipSource, SendFails, StreamBreaks, Mismatch, RenameFails, SendRefused, TooSlow
    <2> QED BY <2>1, <2>3, AttemptAsksAll
  <1>2. CASE /\ UNCHANGED <<dead, slow, asked, attempt, outcome>>
             /\ pc # "idle" \/ pc' = "idle"
             /\ pc' \in {"send", "body", "settle", "rename"} => InHttp
             /\ pc' # "lastswarm" \/ pc \in {"swarm", "lastswarm"}
    <2>1. Urls' = Urls
      BY DEF Urls
    <2> QED BY <1>2, <2>1 DEF InOrder, InHttp
  <1>3. CASE \/ SwarmAlreadyManaged \/ SwarmError \/ SwarmDone
             \/ \E b \in BOOLEAN : SwarmGiveUp(b)
    <2>1. pc \in {"swarm", "lastswarm"}
          /\ (pc' = "idle" \/ (pc' = "http" /\ UNCHANGED outcome))
      BY <1>3 DEF SwarmAlreadyManaged, SwarmError, SwarmDone, SwarmGiveUp, Finish, AfterSwarm,
                  InSwarm
    <2> QED BY <2>1 DEF InOrder, InHttp
  <1>4. CASE \E c \in Callers, m \in Modes, fits \in BOOLEAN : Begin(c, m, fits)
    <2>1. pc = "idle" /\ (pc' = "idle" \/ (pc' \in {"http", "swarm"} /\ outcome' = "none"))
      BY <1>4 DEF Begin, Finish
    <2> QED BY <2>1 DEF InOrder, InHttp
  <1>5. CASE \E b \in BOOLEAN : HttpBegin(b)
    <2>1. /\ pc = "http"
          /\ pc' = "idle" \/ (pc' = "send" /\ LoopReset /\ UNCHANGED outcome)
      BY <1>5 DEF HttpBegin, Finish
    <2>2. LoopReset => \A u \in Urls : ~(u <= attempt')
      BY SizesAssumption DEF LoopReset, Urls
    <2>3. Urls' = Urls
      BY DEF Urls
    <2> QED BY <2>1, <2>2, <2>3 DEF InOrder, InHttp, LoopReset
  <1>6. CASE DriveFull \/ Rename
    BY <1>6 DEF DriveFull, Rename, Finish, InOrder, InHttp
  <1>7. CASE Crash \/ PowerCut
    BY <1>7 DEF Crash, PowerCut, ProcessGone, InOrder, InHttp
  <1>8. CASE \/ SwarmAdd \/ \E i \in 1..Expected : SwarmPiece(i)
             \/ Resume \/ StartFresh \/ Chunk \/ BodyComplete
             \/ \E b \in BOOLEAN : Settle(b)
             \/ SeedFile \/ FileVanishes
             \/ \E v \in Versions : ListChanges(v) \/ \E u \in Urls : MirrorChanges(u, v)
    BY <1>2, <1>8
       DEF SwarmAdd, SwarmPiece, Resume, StartFresh, Asks, Chunk, BodyComplete, Settle, SeedFile,
           FileVanishes, ListChanges, MirrorChanges, loop, InHttp, InSwarm
  <1> QED BY <1>1, <1>3, <1>4, <1>5, <1>6, <1>7, <1>8
          DEF Next, NodeStep, MirrorAnswers, MagnetResolves, NetworkData, Environment

\* HTTP gives up on a file only after it asked every source, provided there are
\* no more than the twelve attempts the code makes.
THEOREM EverySourceIsAsked ==
    ASSUME NUrls <= 12
    PROVE  Spec => GivesUpAfterAskingAll
  <1>1. Init => InOrder
    BY DEF Init, InOrder, InHttp
  <1>2. TypeOK /\ InOrder /\ [Next]_vars
          => InOrder' /\ [ /\ pc \in {"send", "body", "rename"}
                           /\ pc' = "lastswarm" \/ outcome' = "Failed"
                           => asked \cup {Url} = Urls ]_<<pc, outcome>>
    <2> SUFFICES ASSUME TypeOK, InOrder, [Next]_vars
                 PROVE  InOrder' /\ [ /\ pc \in {"send", "body", "rename"}
                                      /\ pc' = "lastswarm" \/ outcome' = "Failed"
                                      => asked \cup {Url} = Urls ]_<<pc, outcome>>
      OBVIOUS
    <2>1. CASE Next
      BY <2>1, InOrderStep
    <2>2. CASE UNCHANGED vars
      BY <2>2 DEF vars, loop, InOrder, InHttp, Urls
    <2> QED BY <2>1, <2>2
  <1> QED BY <1>1, <1>2, Typing, PTL DEF Spec, GivesUpAfterAskingAll

----------------------------------------------------------------------------
(* What a held file is.                                                    *)

\* No history, no fault: every block is at its place, but for the holes of a
\* swarm fetch that was left or of a torn cut; a body goes on where .part ends.
Sound ==
    /\ dest # NoFile /\ doubt = "none" => \A i \in 1..Len(dest) : dest[i] = Right(i)
    /\ dest # NoFile /\ doubt = "gaps" => \A i \in 1..Len(dest) : dest[i] \in {Right(i), Hole}
    /\ part # NoFile /\ ~mixed => \A i \in 1..Len(part) : part[i] = Right(i)
    /\ pc = "body" => offset = Length(part)

LEMMA SoundStep ==
    ASSUME TypeOK, Shape, Sound, Next
    PROVE  Sound'
  <1>0. /\ Expected \in Nat /\ Length(NoFile) = 0
        /\ dest # NoFile => dest \in Seq(Tags) /\ Length(dest) = Len(dest)
        /\ part # NoFile => part \in Seq(Tags) /\ Length(part) = Len(part)
        /\ Url \in Urls /\ dead \cup {Url} \in SUBSET Urls /\ slow \cup {Url} \in SUBSET Urls
        /\ dead \in SUBSET Urls /\ slow \in SUBSET Urls
    BY ExpectedTyped, UrlTyped DEF TypeOK, FilesOK, LoopOK, Length
  <1>1. CASE /\ UNCHANGED <<want, dest, part, mixed, doubt>>
             /\ pc' # "body" \/ (pc = "body" /\ UNCHANGED offset)
    BY <1>1 DEF Sound, Right, Length
  <1>2. CASE SkipSource \/ SendFails \/ StreamBreaks \/ RenameFails \/ SendRefused \/ TooSlow
             \/ Mismatch
    <2>1. \E d, s \in SUBSET Urls : AttemptOver(d, s)
      BY <1>0, <1>2
         DEF SkipSource, SendFails, StreamBreaks, Mismatch, RenameFails, SendRefused, TooSlow
    <2>2. pc' # "body"
      BY <2>1, AttemptOverTyped
    <2>3. /\ UNCHANGED <<want, dest, doubt>>
          /\ part' = NoFile \/ UNCHANGED <<part, mixed>>
      BY <1>2 DEF SkipSource, SendFails, StreamBreaks, Mismatch, RenameFails, SendRefused,
                  TooSlow, world, files, past
    <2> QED BY <2>2, <2>3 DEF Sound, Right
  <1>3. CASE SwarmAdd
    <2>1. /\ UNCHANGED <<want, part, mixed>> /\ pc' # "body" /\ doubt' # "none"
          /\ doubt' = "gaps" => doubt # "mixed"
      BY <1>3 DEF SwarmAdd, InSwarm, world, TypeOK, ControlOK
    <2>2. dest' = [i \in 1..Expected |-> IF i <= Length(dest) THEN dest[i] ELSE Hole]
      BY <1>3 DEF SwarmAdd
    <2>3. Len(dest') = Expected
      BY <1>0, <2>2
    <2>4. ASSUME doubt' = "gaps", NEW i \in 1..Expected PROVE dest'[i] \in {Right(i), Hole}
      <3>1. CASE i <= Length(dest)
        <4>1. dest # NoFile /\ i \in 1..Len(dest)
          BY <1>0, <3>1
        <4> QED BY <2>1, <2>2, <2>4, <3>1, <4>1 DEF Sound, TypeOK, ControlOK
      <3>2. CASE ~(i <= Length(dest))
        BY <2>2, <3>2
      <3> QED BY <3>1, <3>2
    <2> QED BY <2>1, <2>3, <2>4 DEF Sound, Right
  <1>4. ASSUME NEW k \in 1..Expected, SwarmPiece(k) PROVE Sound'
    <2>1. /\ UNCHANGED <<want, part, mixed, doubt>> /\ pc' # "body"
          /\ dest # NoFile /\ k \in 1..Len(dest) /\ dest' = [dest EXCEPT ![k] = Right(k)]
      BY <1>4 DEF SwarmPiece, InSwarm, Shape, world, past
    <2>2. /\ Len(dest') = Len(dest)
          /\ \A i \in 1..Len(dest) : dest'[i] = IF i = k THEN Right(k) ELSE dest[i]
      BY <1>0, <2>1
    <2> QED BY <2>1, <2>2 DEF Sound, Right
  <1>5. CASE SwarmDone
    <2>1. /\ UNCHANGED <<want, dest, part, mixed>> /\ doubt' = "none"
          /\ pc' # "body" /\ Len(dest) = Expected
          /\ \A i \in 1..Expected : dest[i] = Right(i)
      BY <1>5, AfterSwarmTyped
         DEF SwarmDone, SwarmFinished, Finish, Shape, world, files
    <2> QED BY <2>1 DEF Sound, Right
  <1>6. ASSUME NEW b \in BOOLEAN, SwarmGiveUp(b) PROVE Sound'
    <2>1. /\ UNCHANGED <<want, part, mixed>> /\ pc' # "body"
          /\ dest' = NoFile \/ UNCHANGED <<dest, doubt>>
      BY <1>6, AfterSwarmTyped DEF SwarmGiveUp, world
    <2> QED BY <2>1 DEF Sound, Right
  <1>7. CASE Resume
    BY <1>7 DEF Resume, world, files, past, Sound, Right, Length
  <1>8. CASE StartFresh
    <2>1. <<>> \in Seq(Tags) /\ Len(<<>>) = 0
      OBVIOUS
    <2>2. part' = <<>> /\ Length(part') = 0 /\ offset' = 0 /\ UNCHANGED <<want, dest, doubt>>
      BY <1>8, <2>1, LengthTyped DEF StartFresh, world
    <2> QED BY <2>1, <2>2 DEF Sound, Right, Length
  <1>9. CASE Chunk
    <2>1. /\ part # NoFile /\ offset = Len(part) /\ offset' = offset + 1
          /\ serves[Url] \in Versions /\ offset + 1 \in Nat \ {0}
          /\ part' = Append(part, <<serves[Url], offset + 1>>)
          /\ UNCHANGED <<want, dest, doubt>>
      BY <1>0, <1>9 DEF Chunk, Shape, Sound, TypeOK, WorldOK, FilesOK, world
    <2>6. ~mixed' => ~mixed /\ serves[Url] = want
      BY <1>9, Zenon DEF Chunk
    <2>2. <<serves[Url], offset + 1>> \in Tags
      BY <2>1, BlockTyped
    <2>3. /\ part' \in Seq(Tags) /\ Len(part') = Len(part) + 1
          /\ \A i \in 1..Len(part) : part'[i] = part[i]
          /\ part'[Len(part) + 1] = <<serves[Url], offset + 1>>
      BY <1>0, <2>1, <2>2, AppendProperties
    <2>4. Length(part') = offset'
      BY <2>1, <2>3, LengthTyped
    <2>5. ~mixed' => \A i \in 1..Len(part') : part'[i] = Right(i)
      BY <1>0, <2>1, <2>3, <2>6 DEF Sound, Right
    <2> QED BY <2>1, <2>4, <2>5 DEF Sound, Right, Length
  <1>10. CASE Rename
    BY <1>10 DEF Rename, Finish, Sound, Right, world
  <1>11. CASE PowerCut
    <2>1. /\ dest' \in Survivors(dest, IF destDurable THEN Length(dest) ELSE 0)
          /\ part' \in Survivors(part, durable)
          /\ (IF destDurable THEN Length(dest) ELSE 0) \in 0..Length(dest)
          /\ durable \in 0..Length(part) /\ pc' = "idle" /\ UNCHANGED want
      BY <1>11, LengthTyped DEF PowerCut, ProcessGone, TypeOK, FilesOK, world
    <2>2. ASSUME dest' # NoFile
          PROVE  /\ dest # NoFile /\ Length(dest') = Len(dest') /\ Len(dest') <= Len(dest)
                 /\ \A i \in 1..Len(dest') : dest'[i] = dest[i] \/ dest'[i] = Hole
      BY <2>1, <2>2, SurvivorsTyped, LengthTyped DEF TypeOK, FilesOK
    <2>3. ASSUME part' # NoFile
          PROVE  part # NoFile /\ Length(part') = Len(part') /\ Len(part') <= Len(part)
      BY <2>1, <2>3, SurvivorsTyped, LengthTyped DEF TypeOK, FilesOK
    <2>4. ASSUME dest' # NoFile, doubt' = "none", NEW i \in 1..Len(dest')
          PROVE  dest'[i] = Right(i)
      <3>1. doubt = "none" /\ ~Torn(dest, dest')
        BY <1>11, <2>4 DEF PowerCut
      <3> QED BY <1>0, <2>2, <2>4, <3>1 DEF Torn, Sound
    <2>5. ASSUME dest' # NoFile, doubt' = "gaps", NEW i \in 1..Len(dest')
          PROVE  dest'[i] \in {Right(i), Hole}
      <3>1. doubt \in {"none", "gaps"}
        BY <1>11, <2>5 DEF PowerCut
      <3>2. i \in 1..Len(dest)
        BY <1>0, <2>2, <2>5
      <3> QED BY <2>2, <2>5, <3>1, <3>2 DEF Sound
    <2>6. ASSUME part' # NoFile, ~mixed', NEW i \in 1..Len(part')
          PROVE  part'[i] = Right(i)
      <3>1. ~mixed /\ ~Torn(part, part')
        BY <1>11, <2>6 DEF PowerCut, TypeOK, ControlOK
      <3> QED BY <1>0, <2>3, <2>6, <3>1 DEF Torn, Sound
    <2> QED BY <2>1, <2>4, <2>5, <2>6 DEF Sound, Right
  <1>12. ASSUME NEW v \in Versions, ListChanges(v) PROVE Sound'
    BY <1>12 DEF ListChanges, files, Sound
  <1>13. CASE FileVanishes
    BY <1>13 DEF FileVanishes, world, Sound, Right
  <1>14. CASE \/ SwarmAlreadyManaged \/ SwarmError
    BY <1>1, <1>14, AfterSwarmTyped
       DEF SwarmAlreadyManaged, SwarmError, Finish, world, files, past
  <1>15. CASE \/ \E c \in Callers, m \in Modes, fits \in BOOLEAN : Begin(c, m, fits)
              \/ (\E b \in BOOLEAN : HttpBegin(b) \/ Settle(b))
              \/ DriveFull \/ BodyComplete \/ SeedFile \/ Crash
              \/ \E v \in Versions, u \in Urls : MirrorChanges(u, v)
    <2>1. UNCHANGED <<want, dest, part, mixed, doubt>> /\ pc' # "body"
      BY <1>15 DEF Begin, HttpBegin, Settle, DriveFull, BodyComplete, SeedFile, Crash,
                   ProcessGone, MirrorChanges, Finish, world, files, past
    <2> QED BY <1>1, <2>1
  <1> QED BY <1>2, <1>3, <1>4, <1>5, <1>6, <1>7, <1>8, <1>9, <1>10, <1>11, <1>12, <1>13,
             <1>14, <1>15
          DEF Next, NodeStep, MirrorAnswers, MagnetResolves, NetworkData, Environment

\* Of a held file with gaps, the wrong blocks are the holes looks_complete allows.
LEMMA SoundIsHeld == TypeOK /\ Sound => HeldIsWhole
  <1> SUFFICES ASSUME TypeOK, Sound, LooksComplete(dest)
               PROVE  LET wrong == {i \in 1..Expected : dest[i] # Right(i)}
                      IN  \/ wrong = {}
                          \/ doubt = "gaps" /\ Cardinality(wrong) <= SlackOf[want]
                          \/ doubt = "mixed"
    BY DEF HeldIsWhole
  <1> DEFINE wrong == {i \in 1..Expected : dest[i] # Right(i)}
  <1>1. dest # NoFile /\ dest \in Seq(Tags) /\ Len(dest) = Expected /\ Expected \in Nat
    BY ExpectedTyped DEF LooksComplete, TypeOK, FilesOK
  <1>2. CASE doubt = "none"
    BY <1>1, <1>2 DEF Sound
  <1>3. CASE doubt = "gaps"
    <2>1. wrong \subseteq Holes(dest)
      BY <1>1, <1>3 DEF Sound, Holes
    <2>2. /\ IsFiniteSet(Holes(dest)) /\ Cardinality(Holes(dest)) \in Nat
          /\ Cardinality(Holes(dest)) <= SlackOf[want] /\ SlackOf[want] \in Nat
      BY <1>1, HolesFinite, SizesAssumption DEF LooksComplete, TypeOK, WorldOK
    <2>3. IsFiniteSet(wrong) /\ Cardinality(wrong) <= Cardinality(Holes(dest))
      BY <2>1, <2>2, FS_Subset
    <2>4. Cardinality(wrong) \in Nat
      BY <2>3, FS_CardinalityType
    <2> QED BY <1>3, <2>2, <2>3, <2>4
  <1> QED BY <1>2, <1>3 DEF TypeOK, ControlOK

\* A file the node counts as held is the sermon, every block at its place, for any
\* number of mirrors, any versions and sizes and whatever crashes, power cuts, failed
\* syncs, list changes, deletions, breaks and give-ups happen, but for the holes
\* looks_complete overlooks in a file a swarm fetch or a torn cut left, and
\* for files in which a version change or a torn .part had a hand.
THEOREM HeldFilesAreWhole == Spec => []HeldIsWhole
  <1>1. Init => Sound
    BY DEF Init, Sound
  <1>2. TypeOK /\ Shape /\ Sound /\ [Next]_vars => (TypeOK /\ Shape /\ Sound)'
    <2>1. Sound /\ UNCHANGED vars => Sound'
      BY DEF vars, world, files, past, Sound, Right, Length
    <2> QED BY <2>1, SoundStep, TypeStep, Stutter
  <1> QED BY <1>1, <1>2, InitGuarded, SoundIsHeld, PTL DEF Spec

\* A cut that tears nothing leaves a prefix.
LEMMA PrefixNotTorn ==
    ASSUME "torn" \notin Faults, NEW f \in Seq(Tags) \cup {NoFile}, NEW d \in 0..Length(f),
           NEW g \in Survivors(f, d)
    PROVE  ~Torn(f, g)
  <1>1. CASE f = NoFile
    BY <1>1 DEF Survivors, Torn, Length
  <1>2. CASE f # NoFile
    <2>1. f \in Seq(Tags) /\ Len(f) \in Nat /\ d \in 0..Len(f)
      BY <1>2, LengthTyped
    <2>2. PICK n \in d..Len(f) : g = SubSeq(f, 1, n)
      BY <1>2 DEF Survivors
    <2>3. n \in 0..Len(f)
      BY <2>1
    <2>4. g \in Seq(Tags) /\ Len(g) = n /\ \A i \in 1..n : g[i] = f[i]
      BY <2>1, <2>2, <2>3, Prefixes
    <2>5. Length(g) = n
      BY <2>4, LengthTyped
    <2> QED BY <2>4, <2>5 DEF Torn
  <1> QED BY <1>1, <1>2

\* The second exception of HeldIsWhole needs what its name says: a sermon of one
\* version on a drive whose cuts do not tear never gets a mixed file, so all
\* that a held file may lack then is what an unfinished swarm fetch left out.
THEOREM NothingMixes ==
    ASSUME OneSermon, "torn" \notin Faults
    PROVE  Spec => [](doubt # "mixed")
  <1>1. Init => mixed = FALSE /\ doubt # "mixed"
    BY DEF Init
  <1>2. ASSUME TypeOK, mixed = FALSE, doubt # "mixed", Next
        PROVE  mixed' = FALSE /\ doubt' # "mixed"
    <2>1. CASE UNCHANGED <<mixed, doubt>>
      BY <1>2, <2>1
    <2>2. CASE Chunk
      <3>1. serves[Url] = want
        BY <1>2, UrlTyped DEF OneSermon, TypeOK, WorldOK
      <3> QED BY <1>2, <2>2, <3>1 DEF Chunk
    <2>3. CASE PowerCut
      <3>1. ~Torn(part, part')
        BY <1>2, <2>3, PrefixNotTorn DEF PowerCut, TypeOK, FilesOK
      <3> QED BY <1>2, <2>3, <3>1 DEF PowerCut
    <2>4. \A v \in Versions : ~ListChanges(v)
      BY <1>2 DEF OneSermon, TypeOK, WorldOK, ListChanges
    <2>5. CASE \/ SwarmAdd \/ SwarmDone \/ (\E b \in BOOLEAN : SwarmGiveUp(b))
               \/ StartFresh \/ Mismatch \/ Rename \/ FileVanishes
      BY <1>2, <2>5 DEF SwarmAdd, SwarmDone, SwarmGiveUp, StartFresh, Mismatch, Rename, FileVanishes
    <2>6. CASE \/ \E c \in Callers, m \in Modes, fits \in BOOLEAN : Begin(c, m, fits)
               \/ (\E b \in BOOLEAN : HttpBegin(b) \/ Settle(b))
               \/ (\E i \in 1..Expected : SwarmPiece(i))
               \/ SwarmAlreadyManaged \/ SwarmError \/ SkipSource \/ SendFails \/ SendRefused
               \/ Resume \/ DriveFull \/ StreamBreaks \/ TooSlow \/ BodyComplete \/ RenameFails
               \/ SeedFile \/ Crash
               \/ \E v \in Versions, u \in Urls : MirrorChanges(u, v)
      <3>1. UNCHANGED <<mixed, doubt>>
        BY <2>6
           DEF Begin, HttpBegin, Settle, SwarmPiece, SwarmAlreadyManaged, SwarmError, SkipSource,
               SendFails, SendRefused, Resume, DriveFull, StreamBreaks, TooSlow, BodyComplete,
               RenameFails, SeedFile, Crash, MirrorChanges, past
      <3> QED BY <2>1, <3>1
    <2> QED BY <1>2, <2>2, <2>3, <2>4, <2>5, <2>6
            DEF Next, NodeStep, MirrorAnswers, MagnetResolves, NetworkData, Environment
  <1>3. TypeOK /\ mixed = FALSE /\ doubt # "mixed" /\ [Next]_vars
          => (mixed = FALSE /\ doubt # "mixed")'
    BY <1>2 DEF vars, past
  <1> QED BY <1>1, <1>3, Typing, PTL DEF Spec

----------------------------------------------------------------------------
(* The end of a fetch.                                                     *)

\* How many steps of its own a fetch has left at most, at stage p of attempt a
\* with the torrent at t: four for each attempt, and what comes before and after.
StepsOf(p, a, t) ==
    LET add   == IF t = "none" THEN 1 ELSE 0
        later == 2 + 4 * (MaxAttempts - 1 - a)
    IN  CASE p = "idle"      -> 0
          [] p = "lastswarm" -> 1 + add
          [] p = "rename"    -> later + 1
          [] p = "settle"    -> later + 2
          [] p = "body"      -> later + 3
          [] p = "send"      -> later + 4
          [] p = "http"      -> 3 + 4 * MaxAttempts
          [] p = "swarm"     -> 4 + 4 * MaxAttempts + add

StepsLeft == StepsOf(pc, attempt, sess)

Missing == {i \in 1..Expected : dest[i] # Right(i)}

\* Data comes in: a chunk of what the source has, or a piece that was missing.
DataComes ==
    /\ UNCHANGED <<world, destDurable, durable, sess, pc, job, loop, placed, outcome, faults>>
    /\ \/ /\ pc = "body" /\ UNCHANGED dest
          /\ Length(part') = Length(part) + 1
          /\ offset' = offset + 1 /\ offset' <= SizeOf[serves[Url]]
       \/ /\ InSwarm /\ sess = "fetching" /\ UNCHANGED part
          /\ Missing' \subseteq Missing /\ Missing' # Missing

\* Nothing happens but that a mirror changes what it serves.
OnlyAMirror == UNCHANGED <<want, files, sess, pc, job, loop, placed, outcome>>

\* A fetch does not go round in circles: every step of it brings it nearer its
\* end, or brings data that was still to come (seed.rs fetch_file, download.rs
\* ensure_file_with).  No fetch takes more than 53 steps besides its data,
\* whatever the mirrors serve and however they fail; this is what FetchReturns
\* rests on.
FetchAdvances ==
    [][pc # "idle" => \/ StepsLeft' < StepsLeft
                      \/ StepsLeft' = StepsLeft /\ (DataComes \/ OnlyAMirror)]_vars

LEMMA StepsAre ==
    ASSUME NEW a \in 0..(MaxAttempts - 1), NEW t
    PROVE  /\ StepsOf("idle", a, t) = 0
           /\ StepsOf("lastswarm", a, t) \in 1..2
           /\ t # "none" => StepsOf("lastswarm", a, t) = 1
           /\ t = "none" => StepsOf("lastswarm", a, t) = 2
           /\ StepsOf("rename", a, t) = 4 * (MaxAttempts - a) - 1
           /\ StepsOf("settle", a, t) = 4 * (MaxAttempts - a)
           /\ StepsOf("body", a, t) = 4 * (MaxAttempts - a) + 1
           /\ StepsOf("send", a, t) = 4 * (MaxAttempts - a) + 2
           /\ StepsOf("http", a, t) = 4 * MaxAttempts + 3
           /\ StepsOf("swarm", a, t) \in (4 * MaxAttempts + 4)..(4 * MaxAttempts + 5)
           /\ t # "none" => StepsOf("swarm", a, t) = 4 * MaxAttempts + 4
           /\ t = "none" => StepsOf("swarm", a, t) = 4 * MaxAttempts + 5
  <1> DEFINE m == MaxAttempts
  <1>1. m \in Nat \ {0} /\ a \in 0..(m - 1)
    BY Bounds
  <1> HIDE DEF m
  <1>2. 2 + 4 * (m - 1 - a) = 4 * (m - a) - 2
    BY <1>1
  <1> QED BY <1>1, <1>2 DEF StepsOf, m

\* There are at most four steps for each of twelve attempts, and five more.
LEMMA StepsBounded ==
    ASSUME TypeOK
    PROVE  /\ StepsLeft \in 0..53
           /\ pc # "idle" => StepsLeft > 0
  <1> DEFINE m == MaxAttempts
  <1>1. m \in 1..12 /\ attempt \in 0..(m - 1) /\ pc \in Stages
    BY SizesAssumption DEF MaxAttempts, TypeOK, LoopOK, ControlOK
  <1>2. 4 * (m - attempt) \in 4..48 /\ 4 * m \in 4..48
    BY <1>1
  <1> HIDE DEF m
  <1> QED BY <1>1, <1>2, StepsAre DEF StepsLeft, Stages, m

LEMMA FourEach ==
    ASSUME NEW m \in Nat, NEW a \in 0..(m - 1)
    PROVE  /\ 4 * (m - a) \in Nat /\ 4 <= 4 * (m - a) /\ 4 * (m - a) <= 4 * m
           /\ 4 * (m - (a + 1)) = 4 * (m - a) - 4
  OBVIOUS

\* A step to another stage, or to the next attempt, is a step on.
LEMMA StepsOn ==
    ASSUME TypeOK, TypeOK', pc # "idle",
           \/ pc' = "idle"
           \/ pc = "swarm" /\ pc' = "http"
           \/ pc = "http" /\ pc' = "send"
           \/ InHttp /\ pc' = "lastswarm"
           \/ InHttp /\ pc' = "send" /\ attempt' = attempt + 1
           \/ attempt' = attempt /\ <<pc, pc'>> \in {<<"send", "body">>, <<"body", "settle">>, <<"settle", "rename">>}
           \/ pc' = pc /\ InSwarm /\ sess = "none" /\ sess' # "none"
    PROVE  StepsLeft' < StepsLeft
  <1> DEFINE m == MaxAttempts  now == 4 * (m - attempt)  next == 4 * (m - attempt')
  <1>1. /\ m \in Nat \ {0} /\ attempt \in 0..(m - 1) /\ attempt' \in 0..(m - 1)
        /\ pc \in Stages /\ pc' \in Stages
    BY Bounds DEF TypeOK, LoopOK, ControlOK, Stages
  <1>2. /\ now \in Nat /\ next \in Nat /\ 4 <= now /\ next <= 4 * m
        /\ attempt' = attempt => next = now
        /\ attempt' = attempt + 1 => next = now - 4
    BY <1>1, FourEach
  <1>3. StepsLeft = StepsOf(pc, attempt, sess) /\ StepsLeft' = StepsOf(pc', attempt', sess')
    BY DEF StepsLeft
  <1> HIDE DEF m, now, next
  <1>4. CASE pc' = "idle"
    <2>1. StepsLeft > 0 /\ StepsLeft \in Int
      BY StepsBounded
    <2> QED BY <1>1, <1>3, <1>4, <2>1, StepsAre DEF m
  <1>5. CASE pc = "swarm" /\ pc' = "http"
    BY <1>1, <1>3, <1>5, StepsAre DEF m
  <1>6. CASE pc = "http" /\ pc' = "send"
    <2>1. StepsLeft = 4 * m + 3 /\ StepsLeft' = next + 2
      BY <1>1, <1>3, <1>6, StepsAre DEF m, next
    <2> QED BY <1>1, <1>2, <2>1
  <1>7. CASE InHttp /\ (pc' = "lastswarm" \/ (pc' = "send" /\ attempt' = attempt + 1))
    <2>1. StepsLeft \in (now - 1)..(now + 2)
      <3>1. StepsLeft \in {now - 1, now, now + 1, now + 2}
        BY <1>1, <1>3, <1>7, StepsAre DEF m, now, InHttp
      <3> QED BY <1>2, <3>1
    <2>2. pc' = "lastswarm" => StepsLeft' \in 1..2
      BY <1>1, <1>3, StepsAre DEF m
    <2>3. pc' = "send" => StepsLeft' = next + 2
      BY <1>1, <1>3, StepsAre DEF m, next
    <2> QED BY <1>2, <1>7, <2>1, <2>2, <2>3
  <1>8. CASE attempt' = attempt /\ <<pc, pc'>> \in {<<"send", "body">>, <<"body", "settle">>, <<"settle", "rename">>}
    <2>1. \/ StepsLeft = now + 2 /\ StepsLeft' = now + 1
          \/ StepsLeft = now + 1 /\ StepsLeft' = now
          \/ StepsLeft = now /\ StepsLeft' = now - 1
      BY <1>1, <1>3, <1>8, StepsAre DEF m, now
    <2> QED BY <1>2, <2>1
  <1>9. CASE pc' = pc /\ InSwarm /\ sess = "none" /\ sess' # "none"
    <2> DEFINE top == 4 * m
    <2>1. \/ StepsLeft = 2 /\ StepsLeft' = 1
          \/ StepsLeft = top + 5 /\ StepsLeft' = top + 4
      BY <1>1, <1>3, <1>9, StepsAre DEF m, InSwarm
    <2> QED BY <1>1, <2>1
  <1> QED BY <1>4, <1>5, <1>6, <1>7, <1>8, <1>9

LEMMA StepAdvances ==
    ASSUME TypeOK, Shape, TypeOK', Next, pc # "idle"
    PROVE  \/ StepsLeft' < StepsLeft
           \/ StepsLeft' = StepsLeft /\ (DataComes \/ OnlyAMirror)
  <1>1. CASE \/ SkipSource \/ SendFails \/ SendRefused \/ StreamBreaks \/ TooSlow \/ Mismatch \/ RenameFails
    <2>1. InHttp
      BY <1>1 DEF SkipSource, Asks, SendFails, SendRefused, StreamBreaks, TooSlow, Mismatch, RenameFails, InHttp
    <2>2. \E d, s : AttemptOver(d, s)
      BY <1>1 DEF SkipSource, SendFails, SendRefused, StreamBreaks, TooSlow, Mismatch, RenameFails
    <2>3. pc' = "idle" \/ pc' = "lastswarm" \/ (pc' = "send" /\ attempt' = attempt + 1)
      BY <2>2 DEF AttemptOver, HttpFailed, Finish
    <2> QED BY <2>1, <2>3, StepsOn
  <1>2. CASE SwarmAlreadyManaged \/ SwarmError \/ SwarmDone \/ \E b \in BOOLEAN : SwarmGiveUp(b)
    <2>1. pc' = "idle" \/ (pc = "swarm" /\ pc' = "http")
      BY <1>2 DEF SwarmAlreadyManaged, SwarmError, SwarmDone, SwarmGiveUp, AfterSwarm, Finish
    <2> QED BY <2>1, StepsOn
  <1>3. CASE \E b \in BOOLEAN : HttpBegin(b)
    <2>1. pc' = "idle" \/ (pc = "http" /\ pc' = "send")
      BY <1>3 DEF HttpBegin, Finish
    <2> QED BY <2>1, StepsOn
  <1>4. CASE Resume \/ StartFresh \/ BodyComplete \/ \E b \in BOOLEAN : Settle(b)
    <2>1. /\ attempt' = attempt
          /\ <<pc, pc'>> \in {<<"send", "body">>, <<"body", "settle">>, <<"settle", "rename">>}
      BY <1>4 DEF Resume, StartFresh, BodyComplete, Settle, Asks, loop
    <2> QED BY <2>1, StepsOn
  <1>5. CASE DriveFull \/ Rename \/ Crash \/ PowerCut
    <2>1. pc' = "idle"
      BY <1>5 DEF DriveFull, Rename, Crash, PowerCut, ProcessGone, Finish
    <2> QED BY <2>1, StepsOn
  <1>6. CASE SwarmAdd
    BY <1>6, StepsOn DEF SwarmAdd
  <1>7. CASE Chunk
    <2>1. StepsLeft' = StepsLeft
      BY <1>7 DEF Chunk, loop, StepsLeft
    <2>2. /\ part \in Seq(Tags) /\ serves[Url] \in Versions /\ offset + 1 \in Nat \ {0}
          /\ part' = Append(part, <<serves[Url], offset + 1>>)
          /\ offset' = offset + 1 /\ offset < SizeOf[serves[Url]]
      BY <1>7, UrlTyped DEF Chunk, Shape, TypeOK, WorldOK, FilesOK
    <2>3. <<serves[Url], offset + 1>> \in Tags
      BY <2>2, BlockTyped
    <2>4. /\ Length(part') = Length(part) + 1
          /\ offset' <= SizeOf[serves[Url]]
      <3>1. part' \in Seq(Tags) /\ Len(part') = Len(part) + 1 /\ Len(part) \in Nat
        BY <2>2, <2>3, AppendProperties, LenProperties
      <3>2. Length(part') = Len(part') /\ Length(part) = Len(part)
        BY <2>2, <3>1, LengthTyped
      <3> QED BY <2>2, <3>1, <3>2, SizesAssumption DEF TypeOK, FilesOK
    <2>5. DataComes
      BY <1>7, <2>2, <2>4 DEF Chunk, DataComes
    <2> QED BY <2>1, <2>5
  <1>8. ASSUME NEW i \in 1..Expected, SwarmPiece(i)
        PROVE  StepsLeft' = StepsLeft /\ DataComes
    <2>1. StepsLeft' = StepsLeft
      BY <1>8 DEF SwarmPiece, loop, StepsLeft
    <2>2. /\ dest \in Seq(Tags) /\ Len(dest) = Expected /\ dest' = [dest EXCEPT ![i] = Right(i)]
          /\ i \in 1..Len(dest) /\ dest[i] # Right(i) /\ want' = want
      BY <1>8 DEF SwarmPiece, Shape, TypeOK, FilesOK, world
    <2>3. dest'[i] = Right(i) /\ \A j \in 1..Expected : j # i => dest'[j] = dest[j]
      BY <2>2
    <2>4. Missing' = Missing \ {i} /\ i \in Missing
      BY <2>2, <2>3 DEF Missing, Expected, Right
    <2>5. Missing' \subseteq Missing /\ Missing' # Missing
      BY <2>4
    <2>6. DataComes
      BY <1>8, <2>5 DEF SwarmPiece, past, DataComes
    <2> QED BY <2>1, <2>6
  <1>9. CASE \E u \in Urls, v \in Versions : MirrorChanges(u, v)
    <2>1. OnlyAMirror
      BY <1>9 DEF MirrorChanges, past, OnlyAMirror
    <2>2. StepsLeft' = StepsLeft
      BY <2>1 DEF OnlyAMirror, loop, StepsLeft
    <2> QED BY <2>1, <2>2
  <1>10. ~SeedFile /\ ~FileVanishes /\ (\A v \in Versions : ~ListChanges(v))
         /\ \A c \in Callers, m \in Modes, fits \in BOOLEAN : ~Begin(c, m, fits)
    BY DEF SeedFile, FileVanishes, ListChanges, Begin
  <1> QED BY <1>1, <1>2, <1>3, <1>4, <1>5, <1>6, <1>7, <1>8, <1>9, <1>10
          DEF Next, NodeStep, MirrorAnswers, MagnetResolves, NetworkData, Environment

\* Every step of a fetch but the arrival of data still to come uses up one of at
\* most 53: no choice of failing, slow or changing sources keeps it going.
THEOREM FetchIsBounded == Spec => FetchAdvances /\ [](StepsLeft \in 0..53)
  <1>1. TypeOK /\ Shape /\ TypeOK' /\ [Next]_vars =>
            [pc # "idle" => \/ StepsLeft' < StepsLeft
                            \/ StepsLeft' = StepsLeft /\ (DataComes \/ OnlyAMirror)]_vars
    BY StepAdvances
  <1>2. TypeOK => StepsLeft \in 0..53
    BY StepsBounded
  <1>3. TypeOK /\ Shape /\ [Next]_vars => (TypeOK /\ Shape)'
    BY TypeStep, Stutter
  <1> QED BY <1>1, <1>2, <1>3, InitGuarded, PTL DEF Spec, FetchAdvances
=============================================================================
