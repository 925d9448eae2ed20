------------------------------- MODULE Acquire -------------------------------
(***************************************************************************)
(* How a node fills its library: the opening pass, in which workers steal  *)
(* from one queue, and after it the retry sweep; the drive they share, the *)
(* quiet hours, the refresh request, the weekly check and what is counted  *)
(* and seeded on the way.  One file's fetch is FileFetch; here it is two   *)
(* steps, asking for room and coming back.                                 *)
(*                                                                         *)
(* Files are numbered in the order of the master list, a BTreeMap.         *)
(***************************************************************************)
EXTENDS Integers, FiniteSets

CONSTANTS
    Library,    \* the files of the master list, by number
    Scope,      \* those this node means to download
    Size,       \* [Library -> blocks]
    MaxSize,    \* blocks of the largest
    Workers,    \* the opening pass's workers
    Drive,      \* blocks the drive can have free
    FreeFirst,  \* what may be free when the node is first started
    Reserve,    \* blocks kept free for the computer: keep_free
    Headroom,   \* the 2 GB more that must be free before downloads resume
    UsesSwarm,  \* is the source mode hybrid, or HTTP only?
    Events,     \* what may happen around the node, of AllEvents
    MaxEvents   \* bound: how often

AllEvents == {"quiet", "refresh", "taken", "freed", "removed", "verify", "restart"}

ASSUME AcquireAssumption ==
    /\ Library \subseteq Nat /\ IsFiniteSet(Library)
    /\ Scope \subseteq Library
    /\ MaxSize \in Nat \ {0} /\ Size \in [Library -> 1..MaxSize]
    /\ IsFiniteSet(Workers)
    /\ Drive \in Nat /\ Reserve \in Nat /\ Headroom \in Nat
    /\ FreeFirst \subseteq 0..Drive
    /\ UsesSwarm \in BOOLEAN
    /\ Events \subseteq AllEvents /\ MaxEvents \in Nat

VARIABLES
    onDisk,      \* files that look complete on the drive
    free,        \* blocks free on the drive
    left,        \* files the swarm gave up on in a sweep and could not delete
    queue,       \* files the opening pass has not handed out
    wpc, wfile,  \* each worker: where it is, with which file
    spc,         \* where the sweep is
    missing,     \* files this sweep has still to try
    sfile,       \* the file it is trying
    wanted, got, \* how many it set out for, how many it has
    nextWait,    \* seconds to the next sweep
    idle,        \* rounds since something landed
    diskFull, quiet, refresh, \* shared flags and the refresh-now file
    held,        \* files counted as held
    session,     \* files registered in the torrent session
    register,    \* files found at startup, to be registered
    vpc, vcount, \* the weekly check and what it has counted
    events       \* events so far (bound)

pool  == <<queue, wpc, wfile>>
sweep == <<spc, missing, sfile, wanted, got, nextWait, idle>>
flags == <<diskFull, quiet, refresh>>
store == <<onDisk, free, left>>
check == <<vpc, vcount>>
vars  == <<store, pool, sweep, flags, held, session, register, check, events>>

\* The first of a set of files, in the order of the list.
IsFirst(f, S) == f \in S /\ \A g \in S : f <= g

\* (slip) Room is asked for the reserve and not for the file.
FitsReserve(f) == free >= Reserve

\* room_for: the file and the reserve both fit.  No reserve means no question.
Fits(f) == Reserve = 0 \/ free >= Size[f] + Reserve

WorkerStages == {"top", "pop", "swarm", "http", "get", "landed", "failed", "flag", "done"}
SweepStages  == {"off", "wait", "woken", "list", "next", "get", "landed"}
Waits        == {120, 300, 900, 1800, 3600}
None         == -1

FilesOK ==
    /\ onDisk \subseteq Library /\ left \subseteq Library
    /\ session \subseteq Library /\ register \subseteq Library
    /\ queue \subseteq Scope /\ missing \subseteq Scope
    /\ sfile \in Scope \cup {None}

WorkersOK ==
    /\ wpc \in [Workers -> WorkerStages]
    /\ wfile \in [Workers -> Scope \cup {None}]

NumbersOK ==
    /\ free \in 0..Drive
    /\ wanted \in 0..Cardinality(Scope) /\ got \in 0..wanted
    /\ nextWait \in Waits /\ idle \in 0..4
    /\ held \in Nat /\ vcount \in Nat /\ events \in 0..MaxEvents

StagesOK ==
    /\ spc \in SweepStages /\ vpc \in {"idle", "scanned"}
    /\ diskFull \in BOOLEAN /\ quiet \in BOOLEAN /\ refresh \in BOOLEAN

TypeOK == FilesOK /\ WorkersOK /\ NumbersOK /\ StagesOK

\* The process starts with the drive as it is: it counts and queues what is
\* there and what is not.
StartWith(disk) ==
    /\ queue = Scope \ disk
    /\ wpc = [w \in Workers |-> "top"]
    /\ wfile = [w \in Workers |-> None]
    /\ spc = "off" /\ missing = {} /\ sfile = None
    /\ wanted = 0 /\ got = 0 /\ nextWait = 3600 /\ idle = 0
    /\ diskFull = FALSE
    /\ held = Cardinality(disk)
    /\ session = {} /\ register = disk
    /\ vpc = "idle" /\ vcount = 0

Init ==
    /\ onDisk \in SUBSET Library /\ free \in FreeFirst /\ left = {}
    /\ quiet = FALSE /\ refresh = FALSE
    /\ StartWith(onDisk)
    /\ events = 0

----------------------------------------------------------------------------
(* The opening pass.                                                       *)

Goto(w, s) == wpc' = [wpc EXCEPT ![w] = s]

\* A full drive ends the worker; quiet hours hold it; then it takes a file.
Top(w) ==
    /\ wpc[w] = "top"
    /\ \/ diskFull /\ Goto(w, "done")
       \/ ~diskFull /\ Goto(w, "pop")
    /\ UNCHANGED <<store, queue, wfile, sweep, flags, held, session, register, check, events>>

Pop(w) ==
    /\ wpc[w] = "pop" /\ ~quiet
    /\ \/ /\ queue = {}
          /\ Goto(w, "done") /\ UNCHANGED <<queue, wfile>>
       \/ \E f \in Scope :
          /\ IsFirst(f, queue)
          /\ queue' = queue \ {f}
          /\ wfile' = [wfile EXCEPT ![w] = f]
          /\ Goto(w, IF UsesSwarm THEN "swarm" ELSE "http")
    /\ UNCHANGED <<store, sweep, flags, held, session, register, check, events>>

\* A file f is on the drive now.
Lands(f) ==
    /\ free >= Size[f]
    /\ onDisk' = onDisk \cup {f} /\ free' = free - Size[f]
    /\ UNCHANGED left

\* The swarm is asked first, and room is not: it may fill the drive.  What it
\* brings is in the session already; what it is given up on is deleted, but for
\* a delete that fails and leaves a file that looks complete (FileFetch).
WorkerSwarm(w) ==
    /\ wpc[w] = "swarm"
    /\ \/ /\ Lands(wfile[w])
          /\ session' = session \cup {wfile[w]} /\ Goto(w, "landed")
       \/ Lands(wfile[w]) /\ Goto(w, "http") /\ UNCHANGED session
       \/ Goto(w, "http") /\ UNCHANGED <<store, session>>
    /\ UNCHANGED <<queue, wfile, sweep, flags, held, register, check, events>>

\* ensure_file: nothing to do, no room, or the transfer starts.
WorkerAsks(w) ==
    /\ wpc[w] = "http"
    /\ \/ /\ wfile[w] \in onDisk
          /\ Goto(w, "landed") /\ UNCHANGED diskFull
       \/ /\ wfile[w] \notin onDisk /\ ~Fits(wfile[w])
          /\ Goto(w, "done") /\ diskFull' = TRUE
       \/ /\ wfile[w] \notin onDisk /\ Fits(wfile[w])
          /\ Goto(w, "get") /\ UNCHANGED diskFull
    /\ UNCHANGED <<store, queue, wfile, sweep, quiet, refresh, held, session, register, check, events>>

\* The transfer ends: the file landed, every source failed, or the drive is full.
WorkerGets(w) ==
    /\ wpc[w] = "get"
    /\ \/ Lands(wfile[w]) /\ Goto(w, "landed") /\ UNCHANGED diskFull
       \/ Goto(w, "failed") /\ UNCHANGED <<store, diskFull>>
       \/ /\ free < Size[wfile[w]]
          /\ Goto(w, "done") /\ diskFull' = TRUE /\ UNCHANGED store
    /\ UNCHANGED <<queue, wfile, sweep, quiet, refresh, held, session, register, check, events>>

\* (slip) A file that landed is counted and not handed to the session.
AccountsUnseeded(w) ==
    /\ wpc[w] \in {"landed", "failed"}
    /\ Goto(w, IF diskFull THEN "done" ELSE "flag")
    /\ held' = IF diskFull \/ wpc[w] = "failed" THEN held ELSE held + 1
    /\ UNCHANGED <<store, queue, wfile, sweep, flags, session, register, check, events>>

\* Back from the fetch.  A drive another worker found full ends this one, with
\* whatever it brought; else a file is counted and handed to the session.
WorkerAccounts(w) ==
    /\ wpc[w] \in {"landed", "failed"}
    /\ \/ diskFull /\ Goto(w, "done") /\ UNCHANGED <<held, session>>
       \/ /\ ~diskFull /\ Goto(w, "flag")
          /\ \/ /\ wpc[w] = "landed"
                /\ held' = held + 1 /\ session' = session \cup {wfile[w]}
             \/ /\ wpc[w] = "failed"
                /\ UNCHANGED <<held, session>>
    /\ UNCHANGED <<store, queue, wfile, sweep, flags, register, check, events>>

\* A refresh request ends the pass early; the file is left for the sweep.
Flag(w) ==
    /\ wpc[w] = "flag"
    /\ Goto(w, IF refresh THEN "done" ELSE "top")
    /\ wfile' = [wfile EXCEPT ![w] = None]
    /\ UNCHANGED <<store, queue, sweep, flags, held, session, register, check, events>>

----------------------------------------------------------------------------
(* The retry sweep, once every worker has ended.                           *)

Sweeping(s) == spc' = s

\* (slip) The sweeps start when one worker has ended.
SweepStartsEarly ==
    /\ spc = "off" /\ \E w \in Workers : wpc[w] = "done"
    /\ Sweeping("wait")
    /\ nextWait' = 120
    /\ UNCHANGED <<store, pool, missing, sfile, wanted, got, idle, flags, held, session,
                   register, check, events>>

SweepStarts ==
    /\ spc = "off" /\ \A w \in Workers : wpc[w] = "done"
    /\ Sweeping("wait")
    /\ nextWait' = IF held < Cardinality(Scope) THEN 120 ELSE 3600
    /\ UNCHANGED <<store, pool, missing, sfile, wanted, got, idle, flags, held, session,
                   register, check, events>>

\* The wait is over, or cut short by a refresh request, which is taken.
Wake ==
    /\ spc = "wait"
    /\ Sweeping("woken")
    /\ nextWait' = 3600
    /\ refresh' = FALSE
    /\ UNCHANGED <<store, pool, missing, sfile, wanted, got, idle, diskFull, quiet, held, session,
                   register, check, events>>

\* (slip) A drive found full stays full.
AdmitLatched ==
    /\ spc = "woken"
    /\ Sweeping(IF quiet \/ diskFull THEN "wait" ELSE "list")
    /\ UNCHANGED <<store, pool, missing, sfile, wanted, got, nextWait, idle, flags,
                   held, session, register, check, events>>

\* Not in quiet hours, and not on a full drive until there is room again.
Admit ==
    /\ spc = "woken"
    /\ \/ /\ quiet \/ (diskFull /\ free <= Reserve + Headroom)
          /\ Sweeping("wait") /\ UNCHANGED diskFull
       \/ /\ ~quiet /\ ~(diskFull /\ free <= Reserve + Headroom)
          /\ Sweeping("list") /\ diskFull' = FALSE
    /\ UNCHANGED <<store, pool, missing, sfile, wanted, got, nextWait, idle, quiet, refresh,
                   held, session, register, check, events>>

\* (slip) What is missing is not read off the drive again.
ListStale ==
    /\ spc = "list"
    /\ missing' = Scope /\ wanted' = Cardinality(Scope) /\ got' = 0
    /\ Sweeping("next")
    /\ UNCHANGED <<store, pool, sfile, nextWait, idle, flags, held, session, register, check, events>>

\* The list is fetched and verified, or not; what is missing is read off the
\* drive.
ListFetched ==
    /\ spc = "list"
    /\ missing' = Scope \ onDisk
    /\ wanted' = Cardinality(Scope \ onDisk) /\ got' = 0
    /\ Sweeping(IF missing' = {} THEN "wait" ELSE "next")
    /\ UNCHANGED <<store, pool, sfile, nextWait, idle, flags, held, session, register, check, events>>

ListFails ==
    /\ spc = "list"
    /\ Sweeping("wait")
    /\ UNCHANGED <<store, pool, missing, sfile, wanted, got, nextWait, idle, flags, held,
                   session, register, check, events>>

\* (slip) The longest wait is two hours.
BackoffLonger(n) == IF n > 3 THEN 7200 ELSE 120

Backoff(n) ==
    CASE n = 0 -> 120 [] n = 1 -> 300 [] n = 2 -> 900 [] n = 3 -> 1800 [] OTHER -> 3600

\* The round ends.  The counter of idle rounds is capped at 4, where the wait is
\* longest.
RoundEnds(full) ==
    /\ Sweeping("wait") /\ missing' = {} /\ sfile' = None
    /\ \/ /\ wanted > got /\ ~full
          /\ idle' = IF got > 0 THEN 0 ELSE IF idle = 4 THEN 4 ELSE idle + 1
          /\ nextWait' = Backoff(idle')
       \/ /\ wanted = got \/ full
          /\ idle' = 0 /\ UNCHANGED nextWait
    /\ UNCHANGED <<wanted, got>>

\* The next file, in order: quiet hours end the round, and so does a file that
\* has no room.  Some sources are asked first, see FileFetch.
NextFile ==
    /\ spc = "next"
    /\ \/ missing = {} /\ RoundEnds(diskFull) /\ UNCHANGED diskFull
       \/ missing # {} /\ quiet /\ RoundEnds(diskFull) /\ UNCHANGED diskFull
       \/ \E f \in Scope :
          /\ IsFirst(f, missing) /\ ~quiet
          /\ \/ /\ ~Fits(f)
                /\ diskFull' = TRUE /\ RoundEnds(TRUE)
             \/ /\ Fits(f)
                /\ sfile' = f /\ missing' = missing \ {f}
                /\ Sweeping("get")
                /\ UNCHANGED <<wanted, got, nextWait, idle, diskFull>>
    /\ UNCHANGED <<store, pool, quiet, refresh, held, session, register, check, events>>

\* The file lands, over HTTP or from the swarm, which has it in the session;
\* every source failed; or the drive filled up meanwhile.
SweepLands(f) ==
    /\ spc = "get" /\ sfile = f /\ Lands(f)
    /\ session' \in {session, session \cup {f}}
    /\ Sweeping("landed")
    /\ UNCHANGED <<pool, missing, sfile, wanted, got, nextWait, idle, flags, held, register,
                   check, events>>

SweepFails ==
    /\ spc = "get"
    /\ \/ /\ Sweeping("next") /\ sfile' = None
          /\ UNCHANGED <<missing, wanted, got, nextWait, idle, diskFull>>
       \/ /\ ~Fits(sfile) \/ free < Size[sfile]
          /\ diskFull' = TRUE /\ RoundEnds(TRUE)
    /\ UNCHANGED <<store, pool, quiet, refresh, held, session, register, check, events>>

\* Every source failed, the swarm last, and what it had begun cannot be deleted:
\* a file that looks complete stays behind, neither counted nor shared.
SweepLeaves(f) ==
    /\ spc = "get" /\ sfile = f /\ free >= Size[f]
    /\ onDisk' = onDisk \cup {f} /\ free' = free - Size[f] /\ left' = left \cup {f}
    /\ Sweeping("next") /\ sfile' = None
    /\ UNCHANGED <<pool, missing, wanted, got, nextWait, idle, flags, held, session, register,
                   check, events>>

SweepAccounts ==
    /\ spc = "landed"
    /\ held' = held + 1 /\ got' = got + 1
    /\ session' = session \cup {sfile}
    /\ Sweeping("next") /\ sfile' = None
    /\ UNCHANGED <<store, pool, missing, wanted, nextWait, idle, flags, register, check, events>>

----------------------------------------------------------------------------
(* Around them.                                                            *)

\* The files found at startup are registered in the background, one by one.
Register ==
    /\ \E f \in Library :
        /\ IsFirst(f, register)
        /\ register' = register \ {f} /\ session' = session \cup {f}
    /\ UNCHANGED <<store, pool, sweep, flags, held, check, events>>

Happens(e) == e \in Events /\ events < MaxEvents /\ events' = events + 1

\* The weekly check counts what is on the drive, then sets the figure.
VerifyScans ==
    /\ Happens("verify")
    /\ spc # "off" /\ vpc = "idle"
    /\ vpc' = "scanned" /\ vcount' = Cardinality(onDisk)
    /\ UNCHANGED <<store, pool, sweep, flags, held, session, register>>

VerifyStores ==
    /\ vpc = "scanned"
    /\ held' = vcount
    /\ vpc' = "idle" /\ vcount' = 0
    /\ UNCHANGED <<store, pool, sweep, flags, session, register, events>>

QuietBegins ==
    /\ Happens("quiet") /\ ~quiet /\ quiet' = TRUE
    /\ UNCHANGED <<store, pool, sweep, diskFull, refresh, held, session, register, check>>

QuietEnds ==
    /\ quiet /\ quiet' = FALSE
    /\ UNCHANGED <<store, pool, sweep, diskFull, refresh, held, session, register, check, events>>

RefreshAsked ==
    /\ Happens("refresh") /\ refresh' = TRUE
    /\ UNCHANGED <<store, pool, sweep, diskFull, quiet, held, session, register, check>>

\* The computer's own files come and go.
SpaceTaken ==
    /\ Happens("taken") /\ free > 0
    /\ \E n \in 0..(free - 1) : free' = n
    /\ UNCHANGED <<onDisk, left, pool, sweep, flags, held, session, register, check>>

SpaceFreed ==
    /\ Happens("freed") /\ free < Drive
    /\ \E n \in (free + 1)..Drive : free' = n
    /\ UNCHANGED <<onDisk, left, pool, sweep, flags, held, session, register, check>>

\* An operator deletes a file, as the weekly check advises.
FileRemoved(f) ==
    /\ Happens("removed") /\ f \in onDisk
    /\ onDisk' = onDisk \ {f} /\ left' = left \ {f}
    /\ free' = IF free + Size[f] > Drive THEN Drive ELSE free + Size[f]
    /\ UNCHANGED <<pool, sweep, flags, held, session, register, check>>

Restart ==
    /\ Happens("restart")
    /\ queue' = Scope \ onDisk
    /\ wpc' = [w \in Workers |-> "top"] /\ wfile' = [w \in Workers |-> None]
    /\ spc' = "off" /\ missing' = {} /\ sfile' = None
    /\ wanted' = 0 /\ got' = 0 /\ nextWait' = 3600 /\ idle' = 0
    /\ diskFull' = FALSE
    /\ held' = Cardinality(onDisk)
    /\ session' = {} /\ register' = onDisk
    /\ vpc' = "idle" /\ vcount' = 0
    /\ left' = {}
    /\ UNCHANGED <<onDisk, free, quiet, refresh>>

----------------------------------------------------------------------------
Worker(w) ==
    \/ Top(w) \/ Pop(w) \/ WorkerSwarm(w) \/ WorkerAsks(w) \/ WorkerGets(w)
    \/ WorkerAccounts(w) \/ Flag(w)

SweepStep ==
    \/ SweepStarts \/ Wake \/ Admit \/ ListFetched \/ ListFails \/ NextFile
    \/ \E f \in Scope : SweepLands(f)
    \/ \E f \in Scope : SweepLeaves(f)
    \/ SweepFails \/ SweepAccounts

Around ==
    \/ VerifyScans \/ VerifyStores \/ QuietBegins \/ QuietEnds \/ RefreshAsked
    \/ SpaceTaken \/ SpaceFreed \/ Restart
    \/ \E f \in Library : FileRemoved(f)

Next == (\E w \in Workers : Worker(w)) \/ SweepStep \/ Register \/ Around

Spec == Init /\ [][Next]_vars

\* What the runtime schedules of itself: its tasks run and quiet hours end.
\* What it waits for on the network is not in here.
Scheduled ==
    /\ \A w \in Workers : WF_vars(Top(w) \/ Pop(w) \/ WorkerAsks(w) \/ WorkerAccounts(w) \/ Flag(w))
    /\ WF_vars(SweepStarts \/ Wake \/ Admit \/ NextFile \/ SweepAccounts)
    /\ WF_vars(Register) /\ WF_vars(VerifyStores) /\ WF_vars(QuietEnds)

\* What the network must do: every fetch ends, and a list or a file that is asked
\* for again and again comes at last.
Answered ==
    /\ \A w \in Workers : WF_vars(WorkerSwarm(w) \/ WorkerGets(w))
    /\ WF_vars(ListFetched \/ ListFails) /\ SF_vars(ListFetched)
    /\ WF_vars((\E f \in Scope : SweepLands(f) \/ SweepLeaves(f)) \/ SweepFails)
    /\ \A f \in Scope : SF_vars(SweepLands(f))

PatientSpec == Spec /\ Scheduled
FairSpec == PatientSpec /\ Answered

----------------------------------------------------------------------------
(* Properties.                                                             *)

Holding(w) == wpc[w] \in {"swarm", "http", "get", "landed", "failed"}

\* A file's .part and its place in the library have one writer: no two workers
\* have the same file in hand, and the sweep has none a worker has.
\* (main.rs: one queue to pop, and the join before the sweeps.)
OneFetcherPerFile ==
    \A w \in Workers : Holding(w) =>
        /\ wfile[w] # sfile
        /\ \A v \in Workers \ {w} : Holding(v) => wfile[v] # wfile[w]

\* The figure a node reports never exceeds the files it has: what is counted is
\* on the drive and counted once, by the startup scan, the pass or a sweep.
HeldNeverOvercounts == held <= Cardinality(onDisk)

\* Every file on the drive is shared or about to be, but for the last file of a
\* worker that a full drive ended, so at most one file per worker, and what the
\* swarm left behind that could not be deleted.
UnsharedIsLastInHand ==
    \A f \in onDisk \ (session \cup register \cup left) :
        \/ \E w \in Workers : wfile[w] = f /\ wpc[w] \in {"http", "landed", "done"}
        \/ sfile = f /\ spc = "landed"

\* HTTP only: transfers in flight may together dip into the reserve, but by less
\* than one largest file for each worker, however they overlap.
OvershootIsBounded ==
    [][free' < free => free' + Cardinality(Workers) * MaxSize > Reserve]_vars

\* If there is room for good for all that is missing, all of it arrives: failed
\* files, full drives, quiet hours, refreshes and restarts notwithstanding.
RoomForAll ==
    \A f \in Scope \ onDisk : Fits(f) /\ free >= Size[f] /\ free > Reserve + Headroom
EverythingArrives == <>[]RoomForAll => <>[](Scope \subseteq onDisk)
=============================================================================
