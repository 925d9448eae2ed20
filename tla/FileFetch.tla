------------------------------ MODULE FileFetch ------------------------------
(***************************************************************************)
(* How one sermon file reaches the library: the swarm attempt of seed.rs,  *)
(* the HTTP attempts of download.rs over every mirror, and the file system *)
(* under both, through crashes of the process and cuts of the power.       *)
(*                                                                         *)
(* A file's content is a sequence of blocks.  A block is the version of    *)
(* the sermon it was cut from with its position there, or Hole: a block of *)
(* the file that was never written, which a sparse file and a power cut    *)
(* both produce.                                                           *)
(***************************************************************************)
EXTENDS Integers, Sequences, FiniteSets

CONSTANTS
    NUrls,         \* how many HTTP sources the entry lists
    Versions,      \* versions of the sermon that were ever published
    SizeOf,        \* [Versions -> size in blocks]
    Hole,          \* the block that was never written
    NoFile,        \* what a path holds when there is no file
    SlackOf,       \* [Versions -> blocks a file of it may lack and not look hollow]
    Faults,        \* which of AllFaults this instance may suffer
    MaxFaults      \* bound: how many of them in a run

\* SlackOf stands for the rule that a file is hollow when less than 95% of it
\* is allocated: a twentieth of the blocks, or all of them for a file under
\* 1 MB and on a file system that does not report allocation.
\*
\* crash: the process dies.  powercut: the machine does.  torn: a power cut
\* may keep a file's length and lose bytes never synced.  syncerror: fsync
\* fails.  list: the list names another version.  mirror: a mirror changes
\* what it serves.  vanish: someone deletes the file.
AllFaults == {"crash", "powercut", "torn", "syncerror", "list", "mirror", "vanish"}

ASSUME SizesAssumption ==
    /\ NUrls \in Nat \ {0}
    /\ Versions # {}
    /\ SizeOf \in [Versions -> Nat \ {0}]
    /\ SlackOf \in [Versions -> Nat]
    /\ Faults \subseteq AllFaults
    /\ MaxFaults \in Nat

Tags == (Versions \X (Nat \ {0})) \cup {Hole}

ASSUME TagsAssumption ==
    /\ Hole \notin Versions \X (Nat \ {0})
    /\ NoFile \notin Seq(Tags)

VARIABLES
    want,        \* the version the node's verified list names
    serves,      \* [1..NUrls -> version each mirror serves at the moment]
    dest,        \* the file at its place in the library
    destDurable, \* would dest survive a power cut as it is?
    part,        \* the .part file beside it
    durable,     \* how many leading blocks of part are on the platter
    offset,      \* where in the sermon the body being received stands
    sess,        \* the file's torrent in the session: "none", "fetching", "live"
    pc,          \* where the worker or the sweep is with this file
    job,         \* who fetches, and under which source mode
    attempt,     \* index of the attempt in ensure_file_with
    dead, slow,  \* sources set aside for this file
    second,      \* was the second chance for slow sources used?
    asked,       \* history: the sources asked in this call
    placed,      \* history: who put dest there, "none", "http", "swarm"
    mixed,       \* history: part may hold what is not the sermon's at its place
    doubt,       \* history: the same of dest, "mixed", or that it has "gaps"
    outcome,     \* what the last fetch reported to its caller
    faults       \* crashes, cuts and list changes so far (bound)

world == <<want, serves>>
files == <<dest, destDurable, part, durable>>
loop  == <<attempt, dead, slow, second, asked>>
past  == <<placed, mixed, doubt>>
vars  == <<world, files, offset, sess, pc, job, loop, past, outcome, faults>>

Urls    == 1..NUrls
Callers == {"worker", "sweep"}
Modes   == {"http", "hybrid", "p2p"}
Outcomes == {"none", "NoSpace", "Skipped", "Downloaded", "Failed", "Continue"}

Expected == SizeOf[want]
Length(f) == IF f = NoFile THEN 0 ELSE Len(f)

\* The blocks that take up no space on the drive.
Holes(f) == {i \in 1..Len(f) : f[i] = Hole}

\* A file of the right length that is not hollow.
LooksComplete(f) ==
    /\ f # NoFile
    /\ Len(f) = Expected
    /\ Cardinality(Holes(f)) <= SlackOf[want]

\* The sermon's block at position i, and what LooksComplete stands in for.
Right(i) == <<want, i>>
Whole(f) == f # NoFile /\ Len(f) = Expected /\ \A i \in 1..Expected : f[i] = Right(i)

\* Mutant: the rounds counted from the wrong end.
MaxAttemptsShort == IF NUrls = 1 THEN 1 ELSE NUrls - 1

MaxAttempts == IF 5 * NUrls < 12 THEN 5 * NUrls ELSE 12

Stages == {"idle", "swarm", "lastswarm", "http", "send", "body", "settle", "rename"}

WorldOK ==
    /\ want \in Versions
    /\ serves \in [Urls -> Versions]

FilesOK ==
    /\ dest \in Seq(Tags) \cup {NoFile}
    /\ destDurable \in BOOLEAN
    /\ part \in Seq(Tags) \cup {NoFile}
    /\ durable \in 0..Length(part)
    /\ offset \in Nat

LoopOK ==
    /\ attempt \in 0..(MaxAttempts - 1)
    /\ dead \in SUBSET Urls
    /\ slow \in SUBSET Urls
    /\ second \in BOOLEAN
    /\ asked \in SUBSET Urls

ControlOK ==
    /\ sess \in {"none", "fetching", "live"}
    /\ pc \in Stages
    /\ job \in [caller : Callers, mode : Modes]
    /\ placed \in {"none", "http", "swarm"}
    /\ mixed \in BOOLEAN /\ doubt \in {"none", "gaps", "mixed"}
    /\ outcome \in Outcomes
    /\ faults \in 0..MaxFaults

TypeOK == WorldOK /\ FilesOK /\ LoopOK /\ ControlOK

Init ==
    /\ want \in Versions
    /\ serves \in [Urls -> Versions]
    /\ dest = NoFile /\ destDurable = TRUE
    /\ part = NoFile /\ durable = 0 /\ offset = 0
    /\ sess = "none"
    /\ pc = "idle"
    /\ job = [caller |-> "worker", mode |-> "http"]
    /\ attempt = 0 /\ dead = {} /\ slow = {} /\ second = FALSE /\ asked = {}
    /\ placed = "none" /\ mixed = FALSE /\ doubt = "none"
    /\ outcome = "none"
    /\ faults = 0

----------------------------------------------------------------------------
(* Control shared by the steps.                                            *)

\* The locals of ensure_file_with are gone once it returns.
LoopReset ==
    /\ attempt' = 0
    /\ dead' = {} /\ slow' = {} /\ asked' = {}
    /\ second' = FALSE

\* The fetch ends and its caller is told o.
Finish(o) == pc' = "idle" /\ outcome' = o /\ LoopReset

\* The swarm did not deliver: HTTP comes next, unless the mode is peers only.
\* A worker reads the mode again here, and the console may have changed it.
\* After the last resort there is nothing left to ask.
AfterSwarm ==
    \/ /\ pc = "lastswarm"
       /\ Finish("Failed")
    \/ /\ pc = "swarm"
       /\ job.mode = "p2p" \/ job.caller = "worker"
       /\ Finish(IF job.caller = "worker" THEN "Continue" ELSE "Failed")
    \/ /\ pc = "swarm"
       /\ job.mode # "p2p" \/ job.caller = "worker"
       /\ pc' = "http"
       /\ UNCHANGED <<loop, outcome>>

\* HTTP gave up: the sweep still asks the swarm once more, a worker does not.
HttpFailed ==
    \/ /\ job.caller = "sweep"
       /\ pc' = "lastswarm"
       /\ LoopReset
       /\ UNCHANGED outcome
    \/ /\ job.caller = "worker"
       /\ Finish("Failed")

\* The source whose turn it is.
Url == (attempt % NUrls) + 1

\* Mutant: the last attempt is one too late.
AttemptOverLate(d, s) ==
    \/ d \cup s = Urls /\ HttpFailed
    \/ /\ d \cup s # Urls
       /\ pc' = "send"
       /\ attempt' = attempt + 1
       /\ dead' = d /\ slow' = s /\ asked' = asked \cup {Url}
       /\ UNCHANGED <<second, outcome>>

\* An attempt is over, with sources d dead and s slow.  When all are set aside
\* the slow ones are revived, once; then, or after the last attempt, give up.
AttemptOver(d, s) ==
    LET aside  == d \cup s = Urls
        revive == aside /\ ~second /\ s # {}
        giveUp == (aside /\ ~revive) \/ attempt + 1 = MaxAttempts
    IN  \/ giveUp /\ HttpFailed
        \/ /\ ~giveUp
           /\ pc' = "send"
           /\ attempt' = attempt + 1
           /\ dead' = d
           /\ slow' = IF revive THEN {} ELSE s
           /\ second' = (second \/ revive)
           /\ asked' = asked \cup {Url}
           /\ UNCHANGED outcome

----------------------------------------------------------------------------
(* The caller: an opening-pass worker or the sweep's fetch_any, on a file   *)
(* that was found missing.                                                 *)

\* Mutant: the file was not looked at first.
BeginUnseen(caller, mode, fits) ==
    /\ pc = "idle" /\ fits
    /\ job' = [caller |-> caller, mode |-> mode]
    /\ pc' = IF mode = "http" THEN "http" ELSE "swarm"
    /\ outcome' = "none"
    /\ UNCHANGED <<loop, world, past, files, offset, sess, faults>>

Begin(caller, mode, fits) ==
    /\ pc = "idle"
    /\ ~LooksComplete(dest)
    /\ job' = [caller |-> caller, mode |-> mode]
    /\ \/ /\ caller = "sweep" /\ ~fits
          /\ Finish("NoSpace")
       \/ /\ caller = "worker" \/ fits
          /\ pc' = IF mode = "http" THEN "http" ELSE "swarm"
          /\ outcome' = "none"
          /\ UNCHANGED loop
    /\ UNCHANGED <<world, past, files, offset, sess, faults>>

----------------------------------------------------------------------------
(* The swarm: seed.rs fetch_file.                                          *)

InSwarm == pc \in {"swarm", "lastswarm"}

\* The session already manages this torrent: report what it is, delete nothing.
SwarmAlreadyManaged ==
    /\ InSwarm /\ sess = "live"
    /\ IF LooksComplete(dest) THEN Finish("Downloaded") ELSE AfterSwarm
    /\ UNCHANGED <<world, past, files, offset, sess, job, faults>>

\* add_torrent failed.
SwarmError ==
    /\ InSwarm /\ sess = "none"
    /\ AfterSwarm
    /\ UNCHANGED <<world, past, files, offset, sess, job, faults>>

\* The engine sizes the file up front, keeping the bytes that are there.
SwarmAdd ==
    /\ InSwarm /\ sess = "none"
    /\ sess' = "fetching"
    /\ dest' = [i \in 1..Expected |-> IF i <= Length(dest) THEN dest[i] ELSE Hole]
    /\ destDurable' = FALSE /\ placed' = "swarm"
    /\ doubt' = IF doubt = "mixed" THEN "mixed" ELSE "gaps"
    /\ UNCHANGED <<world, part, durable, offset, mixed, pc, job, loop, outcome, faults>>

\* A verified piece is written in place.
SwarmPiece(i) ==
    /\ InSwarm /\ sess = "fetching"
    /\ i \in 1..Expected /\ dest[i] # Right(i)
    /\ dest' = [dest EXCEPT ![i] = Right(i)]
    /\ UNCHANGED <<world, past, destDurable, part, durable, offset, sess, pc, job, loop, outcome, faults>>

SwarmFinished == \A i \in 1..Expected : dest[i] = Right(i)

SwarmDone ==
    /\ InSwarm /\ sess = "fetching" /\ SwarmFinished
    /\ sess' = "live" /\ doubt' = "none"
    /\ IF LooksComplete(dest) THEN Finish("Downloaded") ELSE AfterSwarm
    /\ UNCHANGED <<world, placed, mixed, files, offset, job, faults>>

\* Mutant: no timer for the first byte.
SwarmGiveUpOnStall(deleted) ==
    /\ InSwarm /\ sess = "fetching" /\ ~SwarmFinished
    /\ \E i \in 1..Expected : dest[i] = Right(i)
    /\ sess' = "none"
    /\ dest' = IF deleted THEN NoFile ELSE dest
    /\ doubt' = IF deleted THEN "none" ELSE doubt
    /\ AfterSwarm
    /\ UNCHANGED <<world, placed, mixed, destDurable, part, durable, offset, job, faults>>

\* No first byte, a stall, or the cap: delete the torrent and its file.  The
\* result of the delete is ignored, so the file may be left behind.
SwarmGiveUp(deleted) ==
    /\ InSwarm /\ sess = "fetching" /\ ~SwarmFinished
    /\ sess' = "none"
    /\ dest' = IF deleted THEN NoFile ELSE dest
    /\ doubt' = IF deleted THEN "none" ELSE doubt
    /\ AfterSwarm
    /\ UNCHANGED <<world, placed, mixed, destDurable, part, durable, offset, job, faults>>

----------------------------------------------------------------------------
(* HTTP: download.rs ensure_file_with and try_once.                        *)

HttpBegin(fits) ==
    /\ pc = "http"
    /\ \/ LooksComplete(dest) /\ Finish("Skipped")
       \/ ~LooksComplete(dest) /\ ~fits /\ Finish("NoSpace")
       \/ ~LooksComplete(dest) /\ fits /\ pc' = "send" /\ LoopReset /\ UNCHANGED outcome
    /\ UNCHANGED <<world, past, files, offset, sess, job, faults>>

\* A source set aside for this file is passed over.
SkipSource ==
    /\ pc = "send" /\ Url \in dead \cup slow
    /\ AttemptOver(dead, slow)
    /\ UNCHANGED <<world, past, files, offset, sess, job, faults>>

Asks == pc = "send" /\ Url \notin dead \cup slow

\* No connection, or a status that may be different next time.
SendFails ==
    /\ Asks
    /\ AttemptOver(dead, slow)
    /\ UNCHANGED <<world, past, files, offset, sess, job, faults>>

\* 400, 401, 403, 404, 410 or 451: the same answer every time.
SendRefused ==
    /\ Asks
    /\ AttemptOver(dead \cup {Url}, slow)
    /\ UNCHANGED <<world, past, files, offset, sess, job, faults>>

\* 206 to a Range request, which is made when .part is shorter than the file:
\* append to what is there.
Resume ==
    /\ Asks
    /\ Length(part) \in 1..(Expected - 1)
    /\ Length(part) < SizeOf[serves[Url]]
    /\ offset' = Length(part)
    /\ pc' = "body"
    /\ UNCHANGED <<world, past, files, sess, job, loop, outcome, faults>>

\* Mutant: a .part that is there is appended to, whatever the status.
StartAppending ==
    /\ Asks
    /\ IF part = NoFile
       THEN part' = <<>> /\ durable' = 0 /\ mixed' = FALSE
       ELSE UNCHANGED <<part, durable, mixed>>
    /\ offset' = 0
    /\ pc' = "body"
    /\ UNCHANGED <<world, placed, doubt, dest, destDurable, sess, job, loop, outcome, faults>>

\* 200: the whole body comes; start the .part afresh.
StartFresh ==
    /\ Asks
    /\ part' = <<>> /\ durable' = 0 /\ mixed' = FALSE
    /\ offset' = 0
    /\ pc' = "body"
    /\ UNCHANGED <<world, placed, doubt, dest, destDurable, sess, job, loop, outcome, faults>>

Chunk ==
    /\ pc = "body"
    /\ offset < SizeOf[serves[Url]]
    /\ offset' = offset + 1
    /\ part' = Append(part, <<serves[Url], offset + 1>>)
    /\ mixed' = (mixed \/ serves[Url] # want)
    /\ UNCHANGED <<world, placed, doubt, dest, destDurable, durable, sess, pc, job, loop, outcome, faults>>

\* A write finds the drive full: an outcome of its own, no source will help.
DriveFull ==
    /\ pc = "body"
    /\ Finish("NoSpace")
    /\ UNCHANGED <<world, past, files, offset, sess, job, faults>>

\* The connection breaks mid-body.
StreamBreaks ==
    /\ pc = "body"
    /\ AttemptOver(dead, slow)
    /\ UNCHANGED <<world, past, files, offset, sess, job, faults>>

\* The watchdog: silent for too long, or below the floor for too long.
TooSlow ==
    /\ pc = "body"
    /\ AttemptOver(dead, slow \cup {Url})
    /\ UNCHANGED <<world, past, files, offset, sess, job, faults>>

\* The body ended at the wrong size: the .part is discarded.
Mismatch ==
    /\ pc = "body" /\ Length(part) # Expected
    /\ part' = NoFile /\ durable' = 0 /\ mixed' = FALSE
    /\ AttemptOver(dead, slow)
    /\ UNCHANGED <<world, placed, doubt, dest, destDurable, offset, sess, job, faults>>

BodyComplete ==
    /\ pc = "body" /\ Length(part) = Expected
    /\ pc' = "settle"
    /\ UNCHANGED <<world, past, files, offset, sess, job, loop, outcome, faults>>

\* Mutant: the rename is not preceded by fsync.
SettleLater(synced) ==
    /\ pc = "settle" /\ synced
    /\ pc' = "rename"
    /\ UNCHANGED <<world, past, files, offset, sess, job, loop, outcome, faults>>

\* fsync before the rename; an error of fsync is ignored.
Settle(synced) ==
    /\ pc = "settle"
    /\ synced \/ "syncerror" \in Faults
    /\ durable' = IF synced THEN Length(part) ELSE durable
    /\ pc' = "rename"
    /\ UNCHANGED <<world, past, dest, destDurable, part, offset, sess, job, loop, outcome, faults>>

Rename ==
    /\ pc = "rename"
    /\ dest' = part
    /\ destDurable' = (durable = Length(part))
    /\ part' = NoFile /\ durable' = 0
    /\ placed' = "http" /\ mixed' = FALSE
    /\ doubt' = IF mixed THEN "mixed" ELSE "none"
    /\ Finish("Downloaded")
    /\ UNCHANGED <<world, offset, sess, job, faults>>

RenameFails ==
    /\ pc = "rename"
    /\ AttemptOver(dead, slow)
    /\ UNCHANGED <<world, past, files, offset, sess, job, faults>>

----------------------------------------------------------------------------
(* Around the fetch.                                                       *)

\* The caller, or the registration at startup, hands a complete file to the
\* session; when its bytes are the entry's, that is the entry's torrent.
SeedFile ==
    /\ pc = "idle" /\ sess = "none" /\ Whole(dest)
    /\ sess' = "live"
    /\ UNCHANGED <<world, files, offset, pc, job, loop, past, outcome, faults>>

May(f) == f \in Faults /\ faults < MaxFaults /\ faults' = faults + 1

\* The process is gone: its locals, its session.  The kernel keeps the files.
ProcessGone ==
    /\ pc' = "idle" /\ outcome' = "none"
    /\ LoopReset /\ offset' = 0
    /\ sess' = "none"
    /\ UNCHANGED <<world, job, placed>>

Crash == May("crash") /\ ProcessGone /\ UNCHANGED <<files, mixed, doubt>>

\* What a power cut may leave of a file whose first d blocks were synced.
Survivors(f, d) ==
    IF f = NoFile THEN {NoFile}
    ELSE {SubSeq(f, 1, n) : n \in d..Len(f)} \cup
         IF "torn" \notin Faults THEN {}
         ELSE {[i \in 1..Len(f) |-> IF i \in lost THEN Hole ELSE f[i]] :
                  lost \in SUBSET ((d + 1)..Len(f))}

\* g kept the length and lost blocks.
Torn(f, g) == \E i \in 1..Length(g) : g[i] # f[i]

PowerCut ==
    /\ May("powercut")
    /\ ProcessGone
    /\ dest' \in Survivors(dest, IF destDurable THEN Length(dest) ELSE 0)
    /\ destDurable' = TRUE
    /\ part' \in Survivors(part, durable)
    /\ durable' = Length(part')
    /\ mixed' = (mixed \/ Torn(part, part'))
    /\ doubt' = IF doubt = "none" /\ Torn(dest, dest') THEN "gaps" ELSE doubt

\* The list the next sweep fetches names another version of the sermon; its
\* magnet is another torrent.  The files are still there.
ListChanges(v) ==
    /\ pc = "idle" /\ v # want /\ May("list")
    /\ want' = v /\ sess' = "none"
    /\ mixed' = (mixed \/ part # NoFile)
    /\ doubt' = IF dest # NoFile THEN "mixed" ELSE doubt
    /\ UNCHANGED <<serves, files, offset, pc, job, loop, placed, outcome>>

MirrorChanges(u, v) ==
    /\ pc # "body" /\ v # serves[u] /\ May("mirror")
    /\ serves' = [serves EXCEPT ![u] = v]
    /\ UNCHANGED <<want, files, offset, sess, pc, job, loop, past, outcome>>

FileVanishes ==
    /\ pc = "idle" /\ dest # NoFile /\ May("vanish")
    /\ dest' = NoFile /\ placed' = "none" /\ doubt' = "none"
    /\ UNCHANGED <<world, destDurable, part, durable, mixed, offset, sess, pc, job, loop, outcome>>

----------------------------------------------------------------------------

\* Steps the node's own code takes by itself: its timers and its local work.
NodeStep ==
    \/ SwarmDone \/ \E b \in BOOLEAN : SwarmGiveUp(b)
    \/ \E b \in BOOLEAN : HttpBegin(b)
    \/ SkipSource \/ TooSlow
    \/ Mismatch \/ BodyComplete
    \/ \E b \in BOOLEAN : Settle(b)
    \/ Rename \/ RenameFails

\* A mirror, or the way to it, answers the request.
MirrorAnswers == SendFails \/ SendRefused \/ Resume \/ StartFresh

\* A peer hands over the metadata the magnet stands for, or adding it fails.
MagnetResolves == SwarmAlreadyManaged \/ SwarmError \/ SwarmAdd

NetworkData == Chunk \/ StreamBreaks \/ DriveFull \/ \E i \in 1..Expected : SwarmPiece(i)

Environment ==
    \/ Crash \/ PowerCut \/ FileVanishes
    \/ \E v \in Versions : ListChanges(v) \/ \E u \in Urls : MirrorChanges(u, v)

Next ==
    \/ \E c \in Callers, m \in Modes, fits \in BOOLEAN : Begin(c, m, fits)
    \/ NodeStep \/ MirrorAnswers \/ MagnetResolves \/ NetworkData
    \/ SeedFile
    \/ Environment

Spec == Init /\ [][Next]_vars

\* Timers fire and local work is done; nothing is promised of the network.
FairSpec == Spec /\ WF_vars(NodeStep)

\* Besides, every request and every magnet gets some answer, in the end.
AnsweredSpec == FairSpec /\ WF_vars(MirrorAnswers) /\ WF_vars(MagnetResolves)

----------------------------------------------------------------------------
(* Properties.                                                             *)

\* What the node counts as held is the sermon, every block of it at its place,
\* whatever the resumes, rounds, give-ups and crashes were: main.rs counts, seeds
\* and reports a file on looks_complete alone.  The code knows two exceptions.
\* A swarm fetch that was never finished nor cleaned up, or a torn cut, may
\* leave a file that lacks no more than looks_complete overlooks.  And a .part
\* is resumed and a file is kept by length alone, so what another version or
\* a torn .part put there stays there.
HeldIsWhole ==
    pc = "idle" /\ LooksComplete(dest) =>
        LET wrong == {i \in 1..Expected : dest[i] # Right(i)}
        IN  \/ wrong = {}
            \/ doubt = "gaps" /\ Cardinality(wrong) <= SlackOf[want]
            \/ doubt = "mixed"

\* A whole file that HTTP put in place stays whole until the list changes:
\* no crash, power cut, later swarm attempt or give-up may damage it.
HttpFilesSurvive ==
    [][placed = "http" /\ Whole(dest) /\ want' = want => Whole(dest')]_<<dest, want>>

\* HTTP gives up on a file only after every source was asked in this call.
GivesUpAfterAskingAll ==
    [][ /\ pc \in {"send", "body", "rename"}
        /\ pc' = "lastswarm" \/ outcome' = "Failed"
        => asked \cup {Url} = Urls ]_<<pc, outcome>>

\* The library as LibraryFile sees it, and what it promises: a file that is on
\* the platter is never lost, damaged or fetched again.
Copy ==
    IF ~LooksComplete(dest) THEN "missing" ELSE IF destDurable THEN "safe" ELSE "fresh"

Library == INSTANCE LibraryFile WITH copy <- Copy

KeepsItsPromise == Library!Spec

\* No slot is held forever: every fetch comes back to its caller.
FetchReturns == pc # "idle" ~> pc = "idle"
=============================================================================
