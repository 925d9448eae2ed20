---------------------------- MODULE AcquireProofs ----------------------------
(***************************************************************************)
(* Proofs about Acquire, for any library, scope, drive and number of       *)
(* workers: its type invariant; that a file has one fetcher at a time;     *)
(* that only a file in hand can be on the drive and not shared; how far    *)
(* HTTP transfers can dip into the reserve; that no file is counted that   *)
(* is not there; and that a sweep's figures are those of the drive.        *)
(***************************************************************************)
EXTENDS Acquire, TLAPS, FiniteSetTheorems

USE DEF AllEvents

LEMMA ScopeIsFinite == IsFiniteSet(Scope) /\ Cardinality(Scope) \in Nat
  BY AcquireAssumption, FS_Subset, FS_CardinalityType

LEMMA SubsetsAreFinite ==
    ASSUME NEW S \in SUBSET Library
    PROVE  IsFiniteSet(S) /\ Cardinality(S) \in Nat
  BY AcquireAssumption, FS_Subset, FS_CardinalityType

LEMMA NoneIsNoFile == None \notin Library
  BY AcquireAssumption DEF None

----------------------------------------------------------------------------
(* The type invariant.                                                     *)

\* What a sweep has still to try, has in hand and has got add up to no more
\* than it set out for; what is in hand is a file.
InHand == IF spc \in {"get", "landed"} THEN 1 ELSE 0
Tallied ==
    /\ got + Cardinality(missing) + InHand <= wanted
    /\ spc \in {"get", "landed"} => sfile \in Scope
    /\ \A w \in Workers : Holding(w) => wfile[w] \in Scope

LEMMA InitTyped == Init => TypeOK /\ Tallied
  <1> SUFFICES ASSUME Init PROVE TypeOK /\ Tallied
    OBVIOUS
  <1>1. Cardinality(onDisk) \in Nat
    BY SubsetsAreFinite DEF Init
  <1>2. Cardinality({}) = 0
    BY FS_EmptySet
  <1>3. NumbersOK
    BY <1>1, AcquireAssumption, ScopeIsFinite DEF Init, StartWith, NumbersOK, Waits
  <1>4. FilesOK /\ WorkersOK
    BY AcquireAssumption DEF Init, StartWith, FilesOK, WorkersOK, WorkerStages
  <1>5. StagesOK
    BY DEF Init, StartWith, StagesOK, SweepStages
  <1>6. Tallied
    BY <1>2 DEF Init, StartWith, Tallied, InHand, Holding
  <1> QED BY <1>3, <1>4, <1>5, <1>6 DEF TypeOK

LEMMA LandsTyped ==
    ASSUME TypeOK, NEW f \in Library, Lands(f)
    PROVE  /\ onDisk' \subseteq Library /\ free' \in 0..Drive /\ left' = left
           /\ free' < free /\ free <= free' + MaxSize
  <1>1. Size[f] \in 1..MaxSize /\ MaxSize \in Nat /\ Drive \in Nat
    BY AcquireAssumption
  <1>2. free \in 0..Drive
    BY DEF TypeOK, NumbersOK
  <1>3. free' = free - Size[f] /\ free >= Size[f]
    BY DEF Lands
  <1>4. onDisk' \subseteq Library /\ left' = left
    BY DEF Lands, TypeOK, FilesOK
  <1> QED BY <1>1, <1>2, <1>3, <1>4

LEMMA WorkersTyped ==
    ASSUME TypeOK, Tallied, NEW w \in Workers, Worker(w)
    PROVE  TypeOK' /\ Tallied'
  <1> USE DEF TypeOK, Goto, store, pool, sweep, flags, check
  <1>h. Holding(w) => wfile[w] \in Scope /\ wfile[w] \in Library
    BY AcquireAssumption DEF Tallied
  <1>1. CASE Top(w)
    <2>1. FilesOK' /\ WorkersOK'
      BY <1>1, AcquireAssumption DEF Top, FilesOK, WorkersOK, WorkerStages
    <2>2. NumbersOK'
      BY <1>1, AcquireAssumption DEF Top, NumbersOK
    <2>3. StagesOK'
      BY <1>1, Zenon DEF Top, StagesOK
    <2>4. Tallied'
      BY <1>1 DEF Top, Tallied, InHand, Holding, FilesOK, WorkersOK, WorkerStages
    <2> QED BY <2>1, <2>2, <2>3, <2>4
  <1>2. CASE Pop(w)
    <2>1. FilesOK' /\ WorkersOK'
      BY <1>2, AcquireAssumption DEF Pop, IsFirst, FilesOK, WorkersOK, WorkerStages
    <2>2. NumbersOK'
      BY <1>2, AcquireAssumption DEF Pop, IsFirst, NumbersOK
    <2>3. StagesOK'
      BY <1>2, Zenon DEF Pop, IsFirst, StagesOK
    <2>4. Tallied'
      BY <1>2 DEF Pop, IsFirst, Tallied, InHand, Holding, FilesOK, WorkersOK, WorkerStages
    <2> QED BY <2>1, <2>2, <2>3, <2>4
  <1>3. CASE WorkerSwarm(w)
    <2>a. onDisk' \subseteq Library /\ free' \in 0..Drive /\ left' = left
      BY <1>3, <1>h, LandsTyped, Zenon DEF WorkerSwarm, Holding, FilesOK, NumbersOK
    <2>1. FilesOK' /\ WorkersOK'
      BY <1>3, AcquireAssumption, <2>a, <1>h DEF WorkerSwarm, Holding, FilesOK, WorkersOK, WorkerStages
    <2>2. NumbersOK'
      BY <1>3, AcquireAssumption, <2>a, <1>h DEF WorkerSwarm, Holding, NumbersOK
    <2>3. StagesOK'
      BY <1>3, Zenon DEF WorkerSwarm, StagesOK
    <2>4. Tallied'
      BY <1>3 DEF WorkerSwarm, Tallied, InHand, Holding, FilesOK, WorkersOK, WorkerStages
    <2> QED BY <2>1, <2>2, <2>3, <2>4
  <1>4. CASE WorkerAsks(w)
    <2>1. FilesOK' /\ WorkersOK'
      BY <1>4, AcquireAssumption DEF WorkerAsks, FilesOK, WorkersOK, WorkerStages
    <2>2. NumbersOK'
      BY <1>4, AcquireAssumption DEF WorkerAsks, NumbersOK
    <2>3. StagesOK'
      BY <1>4, Zenon DEF WorkerAsks, StagesOK
    <2>4. Tallied'
      BY <1>4 DEF WorkerAsks, Tallied, InHand, Holding, FilesOK, WorkersOK, WorkerStages
    <2> QED BY <2>1, <2>2, <2>3, <2>4
  <1>5. CASE WorkerGets(w)
    <2>a. onDisk' \subseteq Library /\ free' \in 0..Drive /\ left' = left
      BY <1>5, <1>h, LandsTyped, Zenon DEF WorkerGets, Holding, FilesOK, NumbersOK
    <2>1. FilesOK' /\ WorkersOK'
      BY <1>5, AcquireAssumption, <2>a, <1>h DEF WorkerGets, Holding, FilesOK, WorkersOK, WorkerStages
    <2>2. NumbersOK'
      BY <1>5, AcquireAssumption, <2>a, <1>h DEF WorkerGets, Holding, NumbersOK
    <2>3. StagesOK'
      BY <1>5, Zenon DEF WorkerGets, StagesOK
    <2>4. Tallied'
      BY <1>5 DEF WorkerGets, Tallied, InHand, Holding, FilesOK, WorkersOK, WorkerStages
    <2> QED BY <2>1, <2>2, <2>3, <2>4
  <1>6. CASE WorkerAccounts(w)
    <2>1. FilesOK' /\ WorkersOK'
      BY <1>6, AcquireAssumption, <1>h DEF WorkerAccounts, Holding, FilesOK, WorkersOK, WorkerStages
    <2>2. NumbersOK'
      BY <1>6, AcquireAssumption, <1>h DEF WorkerAccounts, Holding, NumbersOK
    <2>3. StagesOK'
      BY <1>6, Zenon DEF WorkerAccounts, StagesOK
    <2>4. Tallied'
      BY <1>6 DEF WorkerAccounts, Tallied, InHand, Holding, FilesOK, WorkersOK, WorkerStages
    <2> QED BY <2>1, <2>2, <2>3, <2>4
  <1>7. CASE Flag(w)
    <2>1. FilesOK' /\ WorkersOK'
      BY <1>7, AcquireAssumption DEF Flag, FilesOK, WorkersOK, WorkerStages
    <2>2. NumbersOK'
      BY <1>7, AcquireAssumption DEF Flag, NumbersOK
    <2>3. StagesOK'
      BY <1>7, Zenon DEF Flag, StagesOK
    <2>4. Tallied'
      BY <1>7 DEF Flag, Tallied, InHand, Holding, FilesOK, WorkersOK, WorkerStages
    <2> QED BY <2>1, <2>2, <2>3, <2>4
  <1> QED BY <1>1, <1>2, <1>3, <1>4, <1>5, <1>6, <1>7 DEF Worker

LEMMA BackoffTyped == \A n \in 0..4 : Backoff(n) \in Waits
  BY DEF Backoff, Waits

LEMMA RoundEndsTyped ==
    ASSUME TypeOK, Tallied, NEW full \in BOOLEAN, RoundEnds(full)
    PROVE  /\ spc' = "wait" /\ missing' = {} /\ sfile' = None
           /\ UNCHANGED <<wanted, got>>
           /\ nextWait' \in Waits /\ idle' \in 0..4
           /\ got' + Cardinality(missing') + 0 <= wanted'
  <1>1. idle \in 0..4 /\ nextWait \in Waits /\ wanted \in Nat /\ got \in 0..wanted
    BY ScopeIsFinite DEF TypeOK, NumbersOK
  <1>2. idle' \in 0..4
    BY <1>1 DEF RoundEnds
  <1>3. nextWait' \in Waits
    BY <1>1, <1>2, BackoffTyped DEF RoundEnds
  <1>4. /\ spc' = "wait" /\ missing' = {} /\ sfile' = None
        /\ UNCHANGED <<wanted, got>>
    BY DEF RoundEnds, Sweeping
  <1>5. Cardinality({}) = 0
    BY FS_EmptySet
  <1> QED BY <1>1, <1>2, <1>3, <1>4, <1>5

LEMMA SweepTyped ==
    ASSUME TypeOK, Tallied, SweepStep
    PROVE  TypeOK' /\ Tallied'
  <1> USE DEF TypeOK, Sweeping, store, pool, sweep, flags, check
  <1>m. /\ IsFiniteSet(missing) /\ Cardinality(missing) \in Nat
        /\ Cardinality(Scope) \in Nat
    BY AcquireAssumption, SubsetsAreFinite, ScopeIsFinite DEF FilesOK
  <1>1. CASE SweepStarts
    <2>1. FilesOK' /\ WorkersOK'
      BY <1>1, <1>m, AcquireAssumption DEF SweepStarts, FilesOK, WorkersOK, WorkerStages
    <2>2. NumbersOK'
      BY <1>1, <1>m, AcquireAssumption DEF SweepStarts, NumbersOK, Waits
    <2>3. StagesOK'
      BY <1>1, Zenon DEF SweepStarts, StagesOK, SweepStages
    <2>4. Tallied'
      BY <1>1, <1>m, AcquireAssumption DEF SweepStarts, Tallied, InHand, Holding, NumbersOK
    <2> QED BY <2>1, <2>2, <2>3, <2>4
  <1>2. CASE Wake
    <2>1. FilesOK' /\ WorkersOK'
      BY <1>2, <1>m, AcquireAssumption DEF Wake, FilesOK, WorkersOK, WorkerStages
    <2>2. NumbersOK'
      BY <1>2, <1>m, AcquireAssumption DEF Wake, NumbersOK, Waits
    <2>3. StagesOK'
      BY <1>2, Zenon DEF Wake, StagesOK, SweepStages
    <2>4. Tallied'
      BY <1>2, <1>m, AcquireAssumption DEF Wake, Tallied, InHand, Holding, NumbersOK
    <2> QED BY <2>1, <2>2, <2>3, <2>4
  <1>3. CASE Admit
    <2>1. FilesOK' /\ WorkersOK'
      BY <1>3, <1>m, AcquireAssumption DEF Admit, FilesOK, WorkersOK, WorkerStages
    <2>2. NumbersOK'
      BY <1>3, <1>m, AcquireAssumption DEF Admit, NumbersOK, Waits
    <2>3. StagesOK'
      BY <1>3, Zenon DEF Admit, StagesOK, SweepStages
    <2>4. Tallied'
      BY <1>3, <1>m, AcquireAssumption DEF Admit, Tallied, InHand, Holding, NumbersOK
    <2> QED BY <2>1, <2>2, <2>3, <2>4
  <1>4. CASE ListFetched
    <2>a. /\ IsFiniteSet(Scope \ onDisk) /\ Cardinality(Scope \ onDisk) \in 0..Cardinality(Scope)
      BY AcquireAssumption, ScopeIsFinite, <1>m, FS_Subset, SubsetsAreFinite
    <2>1. FilesOK' /\ WorkersOK'
      BY <1>4, <1>m, AcquireAssumption DEF ListFetched, FilesOK, WorkersOK, WorkerStages
    <2>2. NumbersOK'
      BY <1>4, <1>m, AcquireAssumption, <2>a DEF ListFetched, NumbersOK, Waits
    <2>3. StagesOK'
      BY <1>4, Zenon DEF ListFetched, StagesOK, SweepStages
    <2>4. Tallied'
      BY <1>4, <1>m, AcquireAssumption, <2>a DEF ListFetched, Tallied, InHand, Holding, NumbersOK
    <2> QED BY <2>1, <2>2, <2>3, <2>4
  <1>5. CASE ListFails
    <2>1. FilesOK' /\ WorkersOK'
      BY <1>5, <1>m, AcquireAssumption DEF ListFails, FilesOK, WorkersOK, WorkerStages
    <2>2. NumbersOK'
      BY <1>5, <1>m, AcquireAssumption DEF ListFails, NumbersOK, Waits
    <2>3. StagesOK'
      BY <1>5, Zenon DEF ListFails, StagesOK, SweepStages
    <2>4. Tallied'
      BY <1>5, <1>m, AcquireAssumption DEF ListFails, Tallied, InHand, Holding, NumbersOK
    <2> QED BY <2>1, <2>2, <2>3, <2>4
  <1>6. CASE NextFile
    <2>a. RoundEnds(diskFull) \/ RoundEnds(TRUE) =>
             /\ spc' = "wait" /\ missing' = {} /\ sfile' = None
             /\ UNCHANGED <<wanted, got>>
             /\ nextWait' \in Waits /\ idle' \in 0..4
             /\ got' + Cardinality(missing') + 0 <= wanted'
      BY RoundEndsTyped, Zenon DEF StagesOK
    <2>b. \A f \in missing : Cardinality(missing \ {f}) = Cardinality(missing) - 1
      BY <1>m, FS_RemoveElement
    <2>c. UNCHANGED <<free, held, vcount, events, wpc, wfile>>
      BY <1>6 DEF NextFile
    <2>d. \/ RoundEnds(diskFull) \/ RoundEnds(TRUE)
          \/ /\ UNCHANGED <<wanted, got, nextWait, idle>> /\ spc = "next" /\ spc' = "get"
             /\ \E f \in missing : sfile' = f /\ missing' = missing \ {f}
      BY <1>6, Zenon DEF NextFile, IsFirst
    <2>e. (spc' = "get") => sfile' \in Scope
      BY <1>6, <2>a DEF NextFile, IsFirst
    <2>f. \/ /\ spc' = "wait" /\ missing' = {} /\ sfile' = None
             /\ UNCHANGED <<wanted, got>>
             /\ nextWait' \in Waits /\ idle' \in 0..4
             /\ got' + Cardinality(missing') + 0 <= wanted'
          \/ /\ UNCHANGED <<wanted, got, nextWait, idle>> /\ spc = "next" /\ spc' = "get"
             /\ \E f \in missing : sfile' = f /\ missing' = missing \ {f}
      BY <2>a, <2>d, Zenon
    <2>1. FilesOK' /\ WorkersOK'
      BY <1>6, <1>m, AcquireAssumption, <2>a DEF NextFile, IsFirst, FilesOK, WorkersOK, WorkerStages
    <2>2. NumbersOK'
      BY <2>c, <2>f DEF NumbersOK, Waits
    <2>3. StagesOK'
      BY <1>6, <2>a, Zenon DEF NextFile, IsFirst, StagesOK, SweepStages
    <2>4. Tallied'
      BY <2>c, <2>f, <2>e, <1>m, <2>b DEF Tallied, InHand, Holding, NumbersOK
    <2> QED BY <2>1, <2>2, <2>3, <2>4
  <1>7. CASE \E f \in Scope : SweepLands(f)
    <2>a. onDisk' \subseteq Library /\ free' \in 0..Drive /\ left' = left
      BY <1>7, AcquireAssumption, LandsTyped, Zenon DEF SweepLands, FilesOK, NumbersOK
    <2>b. session' \subseteq Library
      BY <1>7, AcquireAssumption DEF SweepLands, FilesOK
    <2>1. FilesOK' /\ WorkersOK'
      BY <1>7, <1>m, AcquireAssumption, <2>a, <2>b DEF SweepLands, FilesOK, WorkersOK, WorkerStages
    <2>2. NumbersOK'
      BY <1>7, <1>m, AcquireAssumption, <2>a DEF SweepLands, NumbersOK, Waits
    <2>3. StagesOK'
      BY <1>7, Zenon DEF SweepLands, StagesOK, SweepStages
    <2>4. Tallied'
      BY <1>7, <1>m, AcquireAssumption DEF SweepLands, Tallied, InHand, Holding, NumbersOK
    <2> QED BY <2>1, <2>2, <2>3, <2>4
  <1>8. CASE SweepFails
    <2>a. RoundEnds(diskFull) \/ RoundEnds(TRUE) =>
             /\ spc' = "wait" /\ missing' = {} /\ sfile' = None
             /\ UNCHANGED <<wanted, got>>
             /\ nextWait' \in Waits /\ idle' \in 0..4
             /\ got' + Cardinality(missing') + 0 <= wanted'
      BY RoundEndsTyped, Zenon DEF StagesOK
    <2>c. UNCHANGED <<free, held, vcount, events, wpc, wfile>>
      BY <1>8 DEF SweepFails
    <2>d. \/ RoundEnds(diskFull) \/ RoundEnds(TRUE)
          \/ /\ UNCHANGED <<wanted, got, nextWait, idle, missing>> /\ spc = "get" /\ spc' = "next"
      BY <1>8, Zenon DEF SweepFails, IsFirst
    <2>e. (spc' = "get") => sfile' \in Scope
      BY <1>8, <2>a DEF SweepFails, IsFirst
    <2>f. \/ /\ spc' = "wait" /\ missing' = {} /\ sfile' = None
             /\ UNCHANGED <<wanted, got>>
             /\ nextWait' \in Waits /\ idle' \in 0..4
             /\ got' + Cardinality(missing') + 0 <= wanted'
          \/ /\ UNCHANGED <<wanted, got, nextWait, idle, missing>> /\ spc = "get" /\ spc' = "next"
      BY <2>a, <2>d, Zenon
    <2>1. FilesOK' /\ WorkersOK'
      BY <1>8, <1>m, AcquireAssumption, <2>a DEF SweepFails, FilesOK, WorkersOK, WorkerStages
    <2>2. NumbersOK'
      BY <2>c, <2>f DEF NumbersOK, Waits
    <2>3. StagesOK'
      BY <1>8, <2>a, Zenon DEF SweepFails, StagesOK, SweepStages
    <2>4. Tallied'
      BY <2>c, <2>f, <2>e, <1>m DEF Tallied, InHand, Holding, NumbersOK
    <2> QED BY <2>1, <2>2, <2>3, <2>4
  <1>9. CASE SweepAccounts
    <2>a. sfile \in Library /\ got + 1 <= wanted
      <3>1. spc = "landed"
        BY <1>9 DEF SweepAccounts
      <3>2. InHand = 1 /\ sfile \in Scope
        BY <3>1 DEF InHand, Tallied
      <3> QED BY <3>2, <1>m, AcquireAssumption DEF Tallied, NumbersOK
    <2>1. FilesOK' /\ WorkersOK'
      BY <1>9, <1>m, AcquireAssumption, <2>a DEF SweepAccounts, FilesOK, WorkersOK, WorkerStages
    <2>2. NumbersOK'
      BY <1>9, <1>m, AcquireAssumption, <2>a DEF SweepAccounts, NumbersOK, Waits
    <2>3. StagesOK'
      BY <1>9, Zenon DEF SweepAccounts, StagesOK, SweepStages
    <2>4. Tallied'
      BY <1>9, <1>m, AcquireAssumption DEF SweepAccounts, Tallied, InHand, Holding, NumbersOK
    <2> QED BY <2>1, <2>2, <2>3, <2>4
  <1>10. CASE \E f \in Scope : SweepLeaves(f)
    <2>a. onDisk' \subseteq Library /\ left' \subseteq Library /\ free' \in 0..Drive
      <3>1. PICK f \in Scope : SweepLeaves(f)
        BY <1>10
      <3>2. f \in Library /\ Size[f] \in Nat /\ free \in 0..Drive /\ Drive \in Nat
        BY AcquireAssumption DEF NumbersOK
      <3> QED BY <3>1, <3>2 DEF SweepLeaves, FilesOK
    <2>1. FilesOK' /\ WorkersOK'
      BY <1>10, AcquireAssumption, <2>a DEF SweepLeaves, FilesOK, WorkersOK, WorkerStages
    <2>2. NumbersOK'
      BY <1>10, AcquireAssumption, <2>a DEF SweepLeaves, NumbersOK, Waits
    <2>3. StagesOK'
      BY <1>10, Zenon DEF SweepLeaves, StagesOK, SweepStages
    <2>4. Tallied'
      BY <1>10, <1>m, AcquireAssumption, ScopeIsFinite DEF SweepLeaves, Tallied, InHand, Holding, NumbersOK
    <2> QED BY <2>1, <2>2, <2>3, <2>4
  <1> QED BY <1>1, <1>2, <1>3, <1>4, <1>5, <1>6, <1>7, <1>8, <1>9, <1>10 DEF SweepStep

LEMMA AroundTyped ==
    ASSUME TypeOK, Tallied, Register \/ Around
    PROVE  TypeOK' /\ Tallied'
  <1> USE DEF TypeOK, Happens, store, pool, sweep, flags, check
  <1>m. Cardinality(onDisk) \in Nat /\ Cardinality({}) = 0
    BY SubsetsAreFinite, FS_EmptySet DEF FilesOK
  <1>1. CASE Register
    <2>1. FilesOK' /\ WorkersOK'
      BY <1>1, <1>m, AcquireAssumption DEF Register, IsFirst, FilesOK, WorkersOK
    <2>2. NumbersOK'
      BY <1>1, <1>m, AcquireAssumption DEF Register, IsFirst, NumbersOK
    <2>3. StagesOK'
      BY <1>1, Zenon DEF Register, IsFirst, StagesOK
    <2>4. Tallied'
      BY <1>1 DEF Register, IsFirst, Tallied, InHand, Holding
    <2> QED BY <2>1, <2>2, <2>3, <2>4
  <1>2. CASE VerifyScans
    <2>1. FilesOK' /\ WorkersOK'
      BY <1>2, <1>m, AcquireAssumption DEF VerifyScans, FilesOK, WorkersOK
    <2>2. NumbersOK'
      BY <1>2, <1>m, AcquireAssumption DEF VerifyScans, NumbersOK
    <2>3. StagesOK'
      BY <1>2, Zenon DEF VerifyScans, StagesOK
    <2>4. Tallied'
      BY <1>2 DEF VerifyScans, Tallied, InHand, Holding
    <2> QED BY <2>1, <2>2, <2>3, <2>4
  <1>3. CASE VerifyStores
    <2>1. FilesOK' /\ WorkersOK'
      BY <1>3, <1>m, AcquireAssumption DEF VerifyStores, FilesOK, WorkersOK
    <2>2. NumbersOK'
      BY <1>3, <1>m, AcquireAssumption DEF VerifyStores, NumbersOK
    <2>3. StagesOK'
      BY <1>3, Zenon DEF VerifyStores, StagesOK
    <2>4. Tallied'
      BY <1>3 DEF VerifyStores, Tallied, InHand, Holding
    <2> QED BY <2>1, <2>2, <2>3, <2>4
  <1>4. CASE QuietBegins
    <2>1. FilesOK' /\ WorkersOK'
      BY <1>4, <1>m, AcquireAssumption DEF QuietBegins, FilesOK, WorkersOK
    <2>2. NumbersOK'
      BY <1>4, <1>m, AcquireAssumption DEF QuietBegins, NumbersOK
    <2>3. StagesOK'
      BY <1>4, Zenon DEF QuietBegins, StagesOK
    <2>4. Tallied'
      BY <1>4 DEF QuietBegins, Tallied, InHand, Holding
    <2> QED BY <2>1, <2>2, <2>3, <2>4
  <1>5. CASE QuietEnds
    <2>1. FilesOK' /\ WorkersOK'
      BY <1>5, <1>m, AcquireAssumption DEF QuietEnds, FilesOK, WorkersOK
    <2>2. NumbersOK'
      BY <1>5, <1>m, AcquireAssumption DEF QuietEnds, NumbersOK
    <2>3. StagesOK'
      BY <1>5, Zenon DEF QuietEnds, StagesOK
    <2>4. Tallied'
      BY <1>5 DEF QuietEnds, Tallied, InHand, Holding
    <2> QED BY <2>1, <2>2, <2>3, <2>4
  <1>6. CASE RefreshAsked
    <2>1. FilesOK' /\ WorkersOK'
      BY <1>6, <1>m, AcquireAssumption DEF RefreshAsked, FilesOK, WorkersOK
    <2>2. NumbersOK'
      BY <1>6, <1>m, AcquireAssumption DEF RefreshAsked, NumbersOK
    <2>3. StagesOK'
      BY <1>6, Zenon DEF RefreshAsked, StagesOK
    <2>4. Tallied'
      BY <1>6 DEF RefreshAsked, Tallied, InHand, Holding
    <2> QED BY <2>1, <2>2, <2>3, <2>4
  <1>7. CASE SpaceTaken
    <2>1. FilesOK' /\ WorkersOK'
      BY <1>7, <1>m, AcquireAssumption DEF SpaceTaken, FilesOK, WorkersOK
    <2>2. NumbersOK'
      BY <1>7, <1>m, AcquireAssumption DEF SpaceTaken, NumbersOK
    <2>3. StagesOK'
      BY <1>7, Zenon DEF SpaceTaken, StagesOK
    <2>4. Tallied'
      BY <1>7 DEF SpaceTaken, Tallied, InHand, Holding
    <2> QED BY <2>1, <2>2, <2>3, <2>4
  <1>8. CASE SpaceFreed
    <2>1. FilesOK' /\ WorkersOK'
      BY <1>8, <1>m, AcquireAssumption DEF SpaceFreed, FilesOK, WorkersOK
    <2>2. NumbersOK'
      BY <1>8, <1>m, AcquireAssumption DEF SpaceFreed, NumbersOK
    <2>3. StagesOK'
      BY <1>8, Zenon DEF SpaceFreed, StagesOK
    <2>4. Tallied'
      BY <1>8 DEF SpaceFreed, Tallied, InHand, Holding
    <2> QED BY <2>1, <2>2, <2>3, <2>4
  <1>9. CASE Restart
    <2>1. FilesOK' /\ WorkersOK'
      BY <1>9, AcquireAssumption DEF Restart, FilesOK, WorkersOK, WorkerStages
    <2>2. NumbersOK'
      BY <1>9, <1>m, AcquireAssumption, ScopeIsFinite DEF Restart, NumbersOK, Waits
    <2>3. StagesOK'
      BY <1>9, Zenon DEF Restart, StagesOK, SweepStages
    <2>4. Tallied'
      BY <1>9, <1>m DEF Restart, Tallied, InHand, Holding
    <2> QED BY <2>1, <2>2, <2>3, <2>4
  <1>10. CASE \E f \in Library : FileRemoved(f)
    <2>a. free' \in 0..Drive
      BY <1>10, AcquireAssumption DEF FileRemoved, FilesOK, NumbersOK
    <2>1. FilesOK' /\ WorkersOK'
      BY <1>10, <1>m, AcquireAssumption, <2>a DEF FileRemoved, FilesOK, WorkersOK
    <2>2. NumbersOK'
      BY <1>10, <1>m, AcquireAssumption, <2>a DEF FileRemoved, NumbersOK
    <2>3. StagesOK'
      BY <1>10, Zenon DEF FileRemoved, StagesOK
    <2>4. Tallied'
      BY <1>10 DEF FileRemoved, Tallied, InHand, Holding
    <2> QED BY <2>1, <2>2, <2>3, <2>4
  <1> QED BY <1>1, <1>2, <1>3, <1>4, <1>5, <1>6, <1>7, <1>8, <1>9, <1>10 DEF Around

LEMMA StutterTyped ==
    ASSUME TypeOK, Tallied, UNCHANGED vars
    PROVE  TypeOK' /\ Tallied'
  <1> USE DEF vars, store, pool, sweep, flags, check
  <1>1. FilesOK' /\ WorkersOK' /\ NumbersOK'
    BY DEF TypeOK, FilesOK, WorkersOK, NumbersOK
  <1>2. StagesOK'
    BY Zenon DEF TypeOK, StagesOK
  <1>3. Tallied'
    BY DEF Tallied, InHand, Holding
  <1> QED BY <1>1, <1>2, <1>3 DEF TypeOK

\* Every variable keeps its type in every reachable state of every instance; in
\* particular a sweep never counts more files than it set out for, and the free
\* space never goes below zero.
THEOREM AcquireTyping == Spec => [](TypeOK /\ Tallied)
  <1>1. TypeOK /\ Tallied /\ [Next]_vars => TypeOK' /\ Tallied'
    BY WorkersTyped, SweepTyped, AroundTyped, StutterTyped DEF Next
  <1> QED BY <1>1, InitTyped, PTL DEF Spec
----------------------------------------------------------------------------
(* One fetcher for a file.                                                 *)

\* A file in hand is out of the queue, in one worker's hand only, and the sweep
\* has none in hand until the workers have ended.
Apart ==
    /\ \A w \in Workers : Holding(w) => wfile[w] \notin queue
    /\ \A v, w \in Workers : Holding(v) /\ Holding(w) /\ wfile[v] = wfile[w] => v = w
    /\ spc # "off" => \A w \in Workers : wpc[w] = "done"
    /\ spc = "off" => sfile = None

LEMMA WorkersApart ==
    ASSUME TypeOK, Tallied, Apart, NEW w \in Workers, Worker(w)
    PROVE  Apart'
  <1> USE DEF TypeOK, WorkersOK, Apart, Holding, Goto, sweep, flags, check
  <1>1. CASE Top(w)
    <2>1. \A v \in Workers \ {w} : wpc'[v] = wpc[v] /\ wfile'[v] = wfile[v]
      BY <1>1 DEF Top
    <2>2. Holding(w)' => \/ Holding(w) /\ wfile'[w] = wfile[w]
                         \/ wfile'[w] \in queue /\ wfile'[w] \notin queue'
      BY <1>1 DEF Top
    <2>3. queue' \subseteq queue /\ wpc[w] # "done" /\ UNCHANGED <<spc, sfile>>
      BY <1>1 DEF Top
    <2> QED BY <2>1, <2>2, <2>3
  <1>2. CASE Pop(w)
    <2>1. \A v \in Workers \ {w} : wpc'[v] = wpc[v] /\ wfile'[v] = wfile[v]
      BY <1>2 DEF Pop, IsFirst
    <2>2. Holding(w)' => \/ Holding(w) /\ wfile'[w] = wfile[w]
                         \/ wfile'[w] \in queue /\ wfile'[w] \notin queue'
      BY <1>2 DEF Pop, IsFirst
    <2>3. queue' \subseteq queue /\ wpc[w] # "done" /\ UNCHANGED <<spc, sfile>>
      BY <1>2 DEF Pop, IsFirst
    <2> QED BY <2>1, <2>2, <2>3
  <1>3. CASE WorkerSwarm(w)
    <2>1. \A v \in Workers \ {w} : wpc'[v] = wpc[v] /\ wfile'[v] = wfile[v]
      BY <1>3 DEF WorkerSwarm
    <2>2. Holding(w)' => \/ Holding(w) /\ wfile'[w] = wfile[w]
                         \/ wfile'[w] \in queue /\ wfile'[w] \notin queue'
      BY <1>3 DEF WorkerSwarm
    <2>3. queue' \subseteq queue /\ wpc[w] # "done" /\ UNCHANGED <<spc, sfile>>
      BY <1>3 DEF WorkerSwarm
    <2> QED BY <2>1, <2>2, <2>3
  <1>4. CASE WorkerAsks(w)
    <2>1. \A v \in Workers \ {w} : wpc'[v] = wpc[v] /\ wfile'[v] = wfile[v]
      BY <1>4 DEF WorkerAsks
    <2>2. Holding(w)' => \/ Holding(w) /\ wfile'[w] = wfile[w]
                         \/ wfile'[w] \in queue /\ wfile'[w] \notin queue'
      BY <1>4 DEF WorkerAsks
    <2>3. queue' \subseteq queue /\ wpc[w] # "done" /\ UNCHANGED <<spc, sfile>>
      BY <1>4 DEF WorkerAsks
    <2> QED BY <2>1, <2>2, <2>3
  <1>5. CASE WorkerGets(w)
    <2>1. \A v \in Workers \ {w} : wpc'[v] = wpc[v] /\ wfile'[v] = wfile[v]
      BY <1>5 DEF WorkerGets
    <2>2. Holding(w)' => \/ Holding(w) /\ wfile'[w] = wfile[w]
                         \/ wfile'[w] \in queue /\ wfile'[w] \notin queue'
      BY <1>5 DEF WorkerGets
    <2>3. queue' \subseteq queue /\ wpc[w] # "done" /\ UNCHANGED <<spc, sfile>>
      BY <1>5 DEF WorkerGets
    <2> QED BY <2>1, <2>2, <2>3
  <1>6. CASE WorkerAccounts(w)
    <2>1. \A v \in Workers \ {w} : wpc'[v] = wpc[v] /\ wfile'[v] = wfile[v]
      BY <1>6 DEF WorkerAccounts
    <2>2. Holding(w)' => \/ Holding(w) /\ wfile'[w] = wfile[w]
                         \/ wfile'[w] \in queue /\ wfile'[w] \notin queue'
      BY <1>6 DEF WorkerAccounts
    <2>3. queue' \subseteq queue /\ wpc[w] # "done" /\ UNCHANGED <<spc, sfile>>
      BY <1>6 DEF WorkerAccounts
    <2> QED BY <2>1, <2>2, <2>3
  <1>7. CASE Flag(w)
    <2>1. \A v \in Workers \ {w} : wpc'[v] = wpc[v] /\ wfile'[v] = wfile[v]
      BY <1>7 DEF Flag
    <2>2. Holding(w)' => \/ Holding(w) /\ wfile'[w] = wfile[w]
                         \/ wfile'[w] \in queue /\ wfile'[w] \notin queue'
      BY <1>7 DEF Flag
    <2>3. queue' \subseteq queue /\ wpc[w] # "done" /\ UNCHANGED <<spc, sfile>>
      BY <1>7 DEF Flag
    <2> QED BY <2>1, <2>2, <2>3
  <1> QED BY <1>1, <1>2, <1>3, <1>4, <1>5, <1>6, <1>7 DEF Worker

LEMMA RestApart ==
    ASSUME TypeOK, Tallied, Apart, SweepStep \/ Register \/ Around \/ UNCHANGED vars
    PROVE  Apart'
  <1> USE DEF Apart, Holding, Happens, vars, store, pool, sweep, flags, check
  <1>1. CASE Restart
    BY <1>1 DEF Restart
  <1>2. CASE SweepStep
    <2>1. SweepStarts => UNCHANGED <<queue, wpc, wfile>> /\ spc' # "off" /\ \A w \in Workers : wpc[w] = "done"
      BY DEF SweepStarts, Sweeping
    <2>2. Wake => UNCHANGED <<queue, wpc, wfile>> /\ spc' # "off" /\ spc # "off"
      BY DEF Wake, Sweeping
    <2>3. Admit => UNCHANGED <<queue, wpc, wfile>> /\ spc' # "off" /\ spc # "off"
      BY DEF Admit, Sweeping
    <2>4. ListFetched => UNCHANGED <<queue, wpc, wfile>> /\ spc' # "off" /\ spc # "off"
      BY DEF ListFetched, Sweeping
    <2>5. ListFails => UNCHANGED <<queue, wpc, wfile>> /\ spc' # "off" /\ spc # "off"
      BY DEF ListFails, Sweeping
    <2>6. NextFile => UNCHANGED <<queue, wpc, wfile>> /\ spc' # "off" /\ spc # "off"
      BY DEF NextFile, Sweeping, RoundEnds
    <2>7. ASSUME NEW f \in Scope, SweepLands(f) PROVE UNCHANGED <<queue, wpc, wfile>> /\ spc' # "off" /\ spc # "off"
      BY <2>7 DEF SweepLands, Sweeping
    <2>8. ASSUME NEW f \in Scope, SweepLeaves(f) PROVE UNCHANGED <<queue, wpc, wfile>> /\ spc' # "off" /\ spc # "off"
      BY <2>8 DEF SweepLeaves, Sweeping
    <2>9. SweepFails => UNCHANGED <<queue, wpc, wfile>> /\ spc' # "off" /\ spc # "off"
      BY DEF SweepFails, Sweeping, RoundEnds
    <2>10. SweepAccounts => UNCHANGED <<queue, wpc, wfile>> /\ spc' # "off" /\ spc # "off"
      BY DEF SweepAccounts, Sweeping
    <2> QED BY <1>2, <2>1, <2>2, <2>3, <2>4, <2>5, <2>6, <2>7, <2>8, <2>9, <2>10 DEF SweepStep
  <1>3. CASE (Register \/ Around \/ UNCHANGED vars) /\ ~Restart
    <2>1. UNCHANGED <<queue, wpc, wfile, spc, sfile>>
      BY <1>3 DEF Register, Around, VerifyScans, VerifyStores, QuietBegins, QuietEnds, RefreshAsked,
                  SpaceTaken, SpaceFreed, FileRemoved
    <2> QED BY <2>1
  <1> QED BY <1>1, <1>2, <1>3

LEMMA InitApart == Init => Apart
  BY DEF Init, StartWith, Apart, Holding

THEOREM AcquireApart == Spec => []Apart
  <1>1. TypeOK /\ Tallied /\ Apart /\ [Next]_vars => Apart'
    BY WorkersApart, RestApart DEF Next
  <1> QED BY <1>1, InitApart, AcquireTyping, PTL DEF Spec

\* No file ever has two fetchers, among however many workers and the sweep: a
\* .part file and the file's place in the library have one writer at a time.
THEOREM OneFetcher == Spec => []OneFetcherPerFile
  <1>1. TypeOK /\ Tallied /\ Apart => OneFetcherPerFile
    <2> SUFFICES ASSUME TypeOK, Tallied, Apart, NEW w \in Workers, Holding(w)
                 PROVE  /\ wfile[w] # sfile
                        /\ \A v \in Workers \ {w} : Holding(v) => wfile[v] # wfile[w]
      BY DEF OneFetcherPerFile
    <2>1. wpc[w] # "done" /\ wfile[w] \in Library
      BY AcquireAssumption DEF Holding, Tallied
    <2>2. sfile = None
      BY <2>1 DEF Apart
    <2> QED BY <2>1, <2>2, NoneIsNoFile DEF Apart
  <1> QED BY <1>1, AcquireTyping, AcquireApart, PTL

----------------------------------------------------------------------------
(* What is on the drive and not shared.                                    *)

LEMMA UnsharedStep ==
    ASSUME TypeOK, Tallied, Apart, UnsharedIsLastInHand, [Next]_vars
    PROVE  UnsharedIsLastInHand'
  <1> USE DEF UnsharedIsLastInHand, TypeOK, WorkersOK, Goto, Happens, store, pool, sweep, flags, check
  <1>1. ASSUME NEW w \in Workers, Top(w) PROVE UnsharedIsLastInHand'
    BY <1>1 DEF Top
  <1>2. ASSUME NEW w \in Workers, Pop(w) PROVE UnsharedIsLastInHand'
    BY <1>2 DEF Pop, IsFirst
  <1>3. ASSUME NEW w \in Workers, WorkerSwarm(w) PROVE UnsharedIsLastInHand'
    BY <1>3 DEF WorkerSwarm, Lands
  <1>4. ASSUME NEW w \in Workers, WorkerAsks(w) PROVE UnsharedIsLastInHand'
    BY <1>4 DEF WorkerAsks
  <1>5. ASSUME NEW w \in Workers, WorkerGets(w) PROVE UnsharedIsLastInHand'
    BY <1>5 DEF WorkerGets, Lands
  <1>6. ASSUME NEW w \in Workers, WorkerAccounts(w) PROVE UnsharedIsLastInHand'
    BY <1>6 DEF WorkerAccounts
  <1>7. ASSUME NEW w \in Workers, Flag(w) PROVE UnsharedIsLastInHand'
    BY <1>7 DEF Flag
  <1>8. CASE \E f \in Scope : SweepLands(f)
    BY <1>8 DEF SweepLands, Lands, Sweeping
  <1>9. CASE SweepAccounts
    BY <1>9 DEF SweepAccounts, Sweeping
  <1>10. CASE SweepStarts \/ Wake \/ Admit \/ ListFetched \/ ListFails \/ NextFile \/ SweepFails
    <2>1. SweepStarts \/ Wake \/ Admit \/ ListFetched \/ ListFails =>
             UNCHANGED <<onDisk, left, session, register, wfile, wpc>> /\ spc # "landed"
      BY DEF SweepStarts, Wake, Admit, ListFetched, ListFails
    <2>2. NextFile => UNCHANGED <<onDisk, left, session, register, wfile, wpc>> /\ spc # "landed"
      BY DEF NextFile
    <2>3. SweepFails => UNCHANGED <<onDisk, left, session, register, wfile, wpc>> /\ spc # "landed"
      BY DEF SweepFails
    <2> QED BY <1>10, <2>1, <2>2, <2>3
  <1>11. CASE Register
    BY <1>11 DEF Register, IsFirst
  <1>12. CASE Restart
    BY <1>12 DEF Restart
  <1>13. CASE \E f \in Library : FileRemoved(f)
    BY <1>13 DEF FileRemoved
  <1>14. CASE VerifyScans \/ VerifyStores \/ QuietBegins \/ QuietEnds \/ RefreshAsked \/ SpaceTaken \/ SpaceFreed \/ UNCHANGED vars
    <2>1. UNCHANGED <<onDisk, left, session, register, wfile, wpc, spc, sfile>>
      BY <1>14 DEF vars, VerifyScans, VerifyStores, QuietBegins, QuietEnds, RefreshAsked, SpaceTaken, SpaceFreed
    <2> QED BY <2>1
  <1>15. CASE \E f \in Scope : SweepLeaves(f)
    BY <1>15 DEF SweepLeaves, Sweeping
  <1>16. CASE \E w \in Workers : Worker(w)
    BY <1>1, <1>2, <1>3, <1>4, <1>5, <1>6, <1>7, <1>16, Zenon DEF Worker
  <1>17. CASE SweepStep
    BY <1>8, <1>9, <1>10, <1>15, <1>17, Zenon DEF SweepStep
  <1>18. CASE Around
    BY <1>12, <1>13, <1>14, <1>18, Zenon DEF Around
  <1> QED BY <1>11, <1>14, <1>16, <1>17, <1>18 DEF Next

\* Whatever is on the drive and not shared is the last file in some worker's hand (or in the sweep's, a step from shared):
\* what the early return on a full drive can lose is one file per worker.
THEOREM UnsharedBounded == Spec => []UnsharedIsLastInHand
  <1>1. Init => UnsharedIsLastInHand
    BY DEF Init, StartWith, UnsharedIsLastInHand
  <1>2. TypeOK /\ Tallied /\ Apart /\ UnsharedIsLastInHand /\ [Next]_vars => UnsharedIsLastInHand'
    BY UnsharedStep
  <1> QED BY <1>1, <1>2, AcquireTyping, AcquireApart, PTL DEF Spec
----------------------------------------------------------------------------
(* How far HTTP transfers dip into the reserve.                            *)

Getting == {w \in Workers : wpc[w] = "get"}

\* Each of the n workers can overshoot by one largest file, and those in a
\* transfer have not done so yet; the sweep asks for room and then is alone.
Drawn ==
    /\ \A w \in Workers : wpc[w] # "swarm"
    /\ Reserve > 0 /\ Getting # {} =>
         free + (Cardinality(Workers) - Cardinality(Getting)) * MaxSize > Reserve
    /\ spc = "get" => Fits(sfile)

\* Nothing but this node's transfers takes space.
HttpAlone == UsesSwarm = FALSE /\ "taken" \notin Events

LEMMA Products ==
    ASSUME NEW a \in Nat, NEW b \in Nat, NEW m \in Nat
    PROVE  /\ a * m \in Nat /\ (a + 1) * m = a * m + m
           /\ a <= b => a * m <= b * m
  <1>1. a * m \in Nat /\ (a + 1) * m = a * m + m /\ b * m \in Nat
    OBVIOUS
  <1>2. ASSUME a <= b PROVE a * m <= b * m
    <2>1. PICK d \in Nat : b = a + d
      BY <1>2
    <2>2. b * m = a * m + d * m /\ d * m \in Nat /\ a * m \in Nat
      BY <2>1
    <2> QED BY <2>2
  <1> QED BY <1>1, <1>2

LEMMA Overshot ==
    \A f, g, m, r \in Nat : f <= g + m =>
        \A x, y, z \in Nat :
            y = x + m /\ y <= z /\ (r > 0 => f + x > r)
            => (r > 0 => g + y > r /\ g + z > r)
  OBVIOUS

LEMMA GettingIsFinite ==
    /\ IsFiniteSet(Getting) /\ Cardinality(Getting) \in Nat
    /\ Cardinality(Workers) \in Nat /\ Cardinality(Getting) <= Cardinality(Workers)
  <1>1. Getting \in SUBSET Workers
    BY DEF Getting
  <1> QED BY <1>1, AcquireAssumption, FS_Subset, FS_CardinalityType

LEMMA WorkersDraw ==
    ASSUME HttpAlone, TypeOK, Tallied, Apart, Drawn, NEW w \in Workers, Worker(w)
    PROVE  Drawn' /\ (free' < free => Reserve = 0 \/ free' + Cardinality(Workers) * MaxSize > Reserve)
  <1> DEFINE n == Cardinality(Workers)
             k == Cardinality(Getting)
  <1> USE AcquireAssumption DEF HttpAlone
  <1>t. free \in Nat /\ Reserve \in Nat /\ MaxSize \in Nat
    BY DEF TypeOK, NumbersOK
  <1>k. /\ n \in Nat /\ k \in Nat /\ k <= n /\ IsFiniteSet(Getting)
        /\ k' \in Nat /\ k' <= n /\ IsFiniteSet(Getting')
    <2>1. Getting' \in SUBSET Workers
      BY DEF Getting
    <2>2. IsFiniteSet(Getting') /\ k' \in Nat /\ k' <= n
      BY <2>1, FS_Subset, FS_CardinalityType
    <2> QED BY <2>2, GettingIsFinite
  <1>h. Holding(w) => wfile[w] \in Library
    BY DEF Tallied
  \* What a worker's step does to the space and to who is in a transfer.
  <1>1. \/ /\ UNCHANGED free /\ Getting' = Getting \cup {w} /\ w \notin Getting
           /\ Fits(wfile[w]) /\ wfile[w] \in Library
        \/ /\ free' < free /\ free <= free' + MaxSize /\ free' \in Nat
           /\ Getting' = Getting \ {w} /\ w \in Getting
        \/ /\ UNCHANGED free /\ Getting' \subseteq Getting
    <2> USE DEF TypeOK, WorkersOK, Goto, Getting, store
    <2>1. ASSUME Top(w) \/ Pop(w) \/ WorkerAccounts(w) \/ Flag(w)
          PROVE  UNCHANGED free /\ Getting' \subseteq Getting
      <3>1. CASE Top(w)
        BY <3>1 DEF Top
      <3>2. CASE Pop(w)
        BY <3>2 DEF Pop
      <3>3. CASE WorkerAccounts(w)
        BY <3>3 DEF WorkerAccounts
      <3>4. CASE Flag(w)
        BY <3>4 DEF Flag
      <3> QED BY <2>1, <3>1, <3>2, <3>3, <3>4
    <2>2. ~WorkerSwarm(w)
      BY DEF WorkerSwarm, Drawn
    <2>3. CASE WorkerAsks(w)
      BY <2>3, <1>h DEF WorkerAsks, Holding
    <2>4. CASE WorkerGets(w)
      <3>1. Lands(wfile[w]) => free' < free /\ free <= free' + MaxSize /\ free' \in Nat
        <4>1. wfile[w] \in Library /\ Drive \in Nat
          BY <2>4, <1>h DEF WorkerGets, Holding
        <4>2. ASSUME Lands(wfile[w])
              PROVE  free' < free /\ free <= free' + MaxSize /\ free' \in 0..Drive
          BY <4>1, <4>2, LandsTyped, Zenon
        <4>3. \A x \in 0..Drive : x \in Nat
          OBVIOUS
        <4> QED BY <4>2, <4>3, Zenon
      <3> QED BY <2>4, <3>1 DEF WorkerGets
    <2> QED BY <2>1, <2>2, <2>3, <2>4 DEF Worker
  <1>2. /\ free' < free => Reserve = 0 \/ free' + n * MaxSize > Reserve
        /\ Reserve > 0 /\ Getting' # {} => free' + (n - k') * MaxSize > Reserve
    <2>1. CASE UNCHANGED free /\ Getting' = Getting \cup {w} /\ w \notin Getting
               /\ Fits(wfile[w]) /\ wfile[w] \in Library
      <3>1. Reserve > 0 => free > Reserve
        <4>1. Size[wfile[w]] \in 1..MaxSize
          BY <2>1
        <4> QED BY <2>1, <4>1, <1>t DEF Fits
      <3>2. (n - k') * MaxSize \in Nat
        BY <1>k, <1>t, Products
      <3> QED BY <2>1, <3>1, <3>2, <1>t
    <2>2. CASE /\ free' < free /\ free <= free' + MaxSize /\ free' \in Nat
               /\ Getting' = Getting \ {w} /\ w \in Getting
      <3>1. k' = k - 1 /\ k >= 1
        BY <2>2, <1>k, FS_RemoveElement, FS_EmptySet
      <3>2. (n - k') * MaxSize = (n - k) * MaxSize + MaxSize
        <4>1. n - k \in Nat /\ n - k' = (n - k) + 1
          BY <3>1, <1>k
        <4> QED BY <4>1, <1>t, Products
      <3>3. /\ (n - k') * MaxSize <= n * MaxSize
            /\ (n - k) * MaxSize \in Nat /\ (n - k') * MaxSize \in Nat /\ n * MaxSize \in Nat
        <4>1. n - k \in Nat /\ n - k' \in Nat /\ n - k' <= n
          BY <1>k
        <4> QED BY <4>1, <1>k, <1>t, Products
      <3>4. Reserve > 0 => free + (n - k) * MaxSize > Reserve
        BY <2>2 DEF Drawn
      <3>5. /\ free \in Nat /\ free' \in Nat /\ Reserve \in Nat /\ MaxSize \in Nat
            /\ free <= free' + MaxSize
        BY <2>2, <1>t
      <3>6. Reserve > 0 => free' + (n - k') * MaxSize > Reserve /\ free' + n * MaxSize > Reserve
        <4>1. \A x, y, z \in Nat :
                y = x + MaxSize /\ y <= z /\ (Reserve > 0 => free + x > Reserve)
                => (Reserve > 0 => free' + y > Reserve /\ free' + z > Reserve)
          BY <3>5, Overshot, Zenon
        <4> QED BY <4>1, <3>2, <3>3, <3>4, Zenon
      <3>7. Reserve = 0 \/ Reserve > 0
        BY <3>5
      <3> QED BY <3>6, <3>7, Zenon
    <2>3. CASE UNCHANGED free /\ Getting' \subseteq Getting
      <3>1. k' <= k
        BY <2>3, <1>k, FS_Subset
      <3>2. /\ (n - k) * MaxSize <= (n - k') * MaxSize
            /\ (n - k) * MaxSize \in Nat /\ (n - k') * MaxSize \in Nat
        <4>1. n - k \in Nat /\ n - k' \in Nat /\ n - k <= n - k'
          BY <3>1, <1>k
        <4> QED BY <4>1, <1>t, Products
      <3>3. Reserve > 0 /\ Getting' # {} => free + (n - k) * MaxSize > Reserve
        BY <2>3 DEF Drawn
      <3> QED BY <2>3, <3>2, <3>3, <1>t
    <2> QED BY <1>1, <2>1, <2>2, <2>3
  <1>3. spc = "off" /\ UNCHANGED spc
    <2>1. wpc[w] # "done" /\ UNCHANGED spc
      BY DEF Worker, Top, Pop, WorkerSwarm, WorkerAsks, WorkerGets, WorkerAccounts, Flag, sweep
    <2> QED BY <2>1 DEF Apart
  <1>4. \A v \in Workers : wpc'[v] # "swarm"
    BY DEF Worker, Top, Pop, WorkerSwarm, WorkerAsks, WorkerGets, WorkerAccounts, Flag, Drawn, Goto,
           TypeOK, WorkersOK
  <1> QED BY <1>2, <1>3, <1>4 DEF Drawn

\* A step of anything else that takes no space and leaves the sweep's hand alone.
LEMMA QuietlyDraws ==
    ASSUME TypeOK, Tallied, Drawn, free' \in Nat, free' >= free, wpc' = wpc,
           spc' = "get" => spc' = spc /\ sfile' = sfile
    PROVE  Drawn'
  <1>1. Getting' = Getting
    BY DEF Getting
  <1>2. free \in Nat /\ Reserve \in Nat /\ MaxSize \in Nat
    BY AcquireAssumption DEF TypeOK, NumbersOK
  <1>3. (Cardinality(Workers) - Cardinality(Getting)) * MaxSize \in Int
    BY GettingIsFinite, <1>2
  <1>4. Reserve > 0 /\ Getting' # {} =>
          free' + (Cardinality(Workers) - Cardinality(Getting')) * MaxSize > Reserve
    BY <1>1, <1>2, <1>3 DEF Drawn
  <1>5. ASSUME spc' = "get" PROVE Fits(sfile)'
    <2>1. spc = "get" /\ sfile' = sfile
      BY <1>5
    <2>2. Size[sfile] \in Nat
      <3>1. sfile \in Library
        BY <2>1, AcquireAssumption DEF Tallied
      <3> QED BY <3>1, AcquireAssumption
    <2>3. Fits(sfile) => Fits(sfile)'
      BY <2>1, <2>2, <1>2 DEF Fits
    <2> QED BY <2>1, <2>3 DEF Drawn
  <1> QED BY <1>4, <1>5 DEF Drawn
LEMMA SweepDraws ==
    ASSUME HttpAlone, TypeOK, Tallied, Apart, Drawn, SweepStep
    PROVE  Drawn' /\ (free' < free => Reserve = 0 \/ free' >= Reserve)
  <1> USE DEF Sweeping, store, pool, sweep, flags, check
  <1>t. free \in Nat /\ Reserve \in Nat /\ Drive \in Nat /\ MaxSize \in Nat
    BY AcquireAssumption DEF TypeOK, NumbersOK
  <1>1. ASSUME UNCHANGED <<free, wpc>>, spc' = "get" => spc' = spc /\ sfile' = sfile
        PROVE  Drawn' /\ (free' < free => Reserve = 0 \/ free' >= Reserve)
    BY <1>1, <1>t, QuietlyDraws
  <1>2. ASSUME SweepStarts \/ Wake \/ Admit \/ ListFetched \/ ListFails \/ SweepAccounts
        PROVE  UNCHANGED <<free, wpc>> /\ spc' # "get"
    BY <1>2 DEF SweepStarts, Wake, Admit, ListFetched, ListFails, SweepAccounts
  <1>3. CASE NextFile
    <2>1. UNCHANGED <<free, wpc>>
      BY <1>3 DEF NextFile
    <2>2. spc' = "wait" \/ \E f \in Scope : spc' = "get" /\ sfile' = f /\ Fits(f)
      BY <1>3, Zenon DEF NextFile, RoundEnds
    <2>3. CASE spc' = "wait"
      BY <1>1, <2>1, <2>3
    <2>4. ASSUME NEW f \in Scope, spc' = "get", sfile' = f, Fits(f)
          PROVE  Drawn' /\ (free' < free => Reserve = 0 \/ free' >= Reserve)
      <3>1. Fits(sfile)'
        BY <2>1, <2>4 DEF Fits
      <3>2. Getting' = Getting
        BY <2>1 DEF Getting
      <3> QED BY <2>1, <2>4, <3>1, <3>2, <1>t DEF Drawn
    <2> QED BY <2>2, <2>3, <2>4, Zenon
  <1>4. ASSUME NEW f \in Scope, SweepLands(f)
        PROVE  Drawn' /\ (free' < free => Reserve = 0 \/ free' >= Reserve)
    <2>1. /\ spc = "get" /\ spc' = "landed" /\ sfile = f /\ Lands(f) /\ UNCHANGED wpc
      BY <1>4 DEF SweepLands
    <2>2. Getting' = {}
      BY <2>1 DEF Apart, Getting
    <2>3. f \in Library /\ Size[f] \in Nat
      <3>1. f \in Library
        BY AcquireAssumption
      <3> QED BY <3>1, AcquireAssumption
    <2>4. free' = free - Size[f] /\ free >= Size[f]
      BY <2>1 DEF Lands
    <2>5. Fits(f)
      BY <2>1, Zenon DEF Drawn
    <2>6. Reserve = 0 \/ free' >= Reserve
      BY <2>3, <2>4, <2>5, <1>t DEF Fits
    <2> QED BY <2>1, <2>2, <2>6 DEF Drawn
  <1>5. CASE SweepFails
    <2>1. UNCHANGED <<free, wpc>>
      BY <1>5 DEF SweepFails
    <2>2. spc' \in {"next", "wait"}
      BY <1>5 DEF SweepFails, RoundEnds
    <2> QED BY <1>1, <2>1, <2>2
  <1>6. ASSUME NEW f \in Scope, SweepLeaves(f)
        PROVE  Drawn' /\ (free' < free => Reserve = 0 \/ free' >= Reserve)
    <2>1. /\ spc = "get" /\ spc' = "next" /\ sfile = f /\ UNCHANGED wpc
          /\ free' = free - Size[f] /\ free >= Size[f]
      BY <1>6 DEF SweepLeaves
    <2>2. Getting' = {}
      BY <2>1 DEF Apart, Getting
    <2>3. Size[f] \in Nat /\ Fits(f)
      <3>1. f \in Library
        BY AcquireAssumption
      <3>2. Fits(f)
        BY <2>1, Zenon DEF Drawn
      <3> QED BY <3>1, <3>2, AcquireAssumption
    <2>4. Reserve = 0 \/ free' >= Reserve
      BY <2>1, <2>3, <1>t DEF Fits
    <2> QED BY <2>1, <2>2, <2>4 DEF Drawn
  <1> QED BY <1>1, <1>2, <1>3, <1>4, <1>5, <1>6 DEF SweepStep

LEMMA RestDraws ==
    ASSUME HttpAlone, TypeOK, Tallied, Apart, Drawn, Register \/ Around \/ UNCHANGED vars
    PROVE  Drawn' /\ free' >= free
  <1> USE DEF Happens, vars, store, pool, sweep, flags, check
  <1>t. free \in 0..Drive /\ Drive \in Nat
    BY AcquireAssumption DEF TypeOK, NumbersOK
  <1>1. ASSUME free' \in Nat, free' >= free, UNCHANGED <<wpc, spc, sfile>>
        PROVE  Drawn' /\ free' >= free
    BY <1>1, QuietlyDraws
  <1>2. ~SpaceTaken
    BY DEF HttpAlone, SpaceTaken
  <1>3. CASE Restart
    <2>1. /\ UNCHANGED free /\ spc' = "off"
          /\ \A w \in Workers : wpc'[w] = "top"
      BY <1>3 DEF Restart
    <2>2. Getting' = {}
      BY <2>1 DEF Getting
    <2> QED BY <2>1, <2>2, <1>t DEF Drawn
  <1>4. CASE SpaceFreed
    <2>1. UNCHANGED <<wpc, spc, sfile>> /\ free' \in (free + 1)..Drive
      BY <1>4 DEF SpaceFreed
    <2>2. free' \in Nat /\ free' >= free
      BY <2>1, <1>t
    <2> QED BY <1>1, <2>1, <2>2
  <1>5. CASE \E f \in Library : FileRemoved(f)
    <2>1. PICK f \in Library : FileRemoved(f)
      BY <1>5
    <2>2. Size[f] \in Nat
      BY AcquireAssumption
    <2>3. /\ UNCHANGED <<wpc, spc, sfile>>
          /\ free' = IF free + Size[f] > Drive THEN Drive ELSE free + Size[f]
      BY <2>1 DEF FileRemoved
    <2>4. free' \in Nat /\ free' >= free
      BY <2>2, <2>3, <1>t
    <2> QED BY <1>1, <2>3, <2>4
  <1>6. CASE Register \/ VerifyScans \/ VerifyStores \/ QuietBegins \/ QuietEnds \/ RefreshAsked
             \/ UNCHANGED vars
    <2>1. UNCHANGED <<free, wpc, spc, sfile>>
      BY <1>6 DEF Register, VerifyScans, VerifyStores, QuietBegins, QuietEnds, RefreshAsked
    <2> QED BY <1>1, <2>1, <1>t
  <1> QED BY <1>2, <1>3, <1>4, <1>5, <1>6 DEF Around

\* With HTTP only, and nobody else using up the drive, however many transfers
\* overlap, a file that lands leaves the reserve short by less than one largest
\* file for each worker.
THEOREM ReserveOvershoot == ASSUME HttpAlone, Workers # {} PROVE Spec => OvershootIsBounded
  <1>1. Init => Drawn
    <2> SUFFICES ASSUME Init PROVE Drawn
      OBVIOUS
    <2>1. Getting = {}
      BY DEF Init, StartWith, Getting
    <2>2. spc = "off" /\ \A w \in Workers : wpc[w] = "top"
      BY DEF Init, StartWith
    <2> QED BY <2>1, <2>2 DEF Drawn
  <1>2. ASSUME TypeOK, TypeOK', Tallied, Apart, Drawn, [Next]_vars
        PROVE  Drawn' /\ (free' < free => free' + Cardinality(Workers) * MaxSize > Reserve)
    <2>1. free \in Nat /\ free' \in Nat /\ Reserve \in Nat /\ MaxSize \in Nat
      BY <1>2, AcquireAssumption DEF TypeOK, NumbersOK
    <2>2. Cardinality(Workers) \in Nat \ {0}
      BY AcquireAssumption, FS_CardinalityType, FS_EmptySet
    <2>3. Cardinality(Workers) * MaxSize \in Nat /\ Cardinality(Workers) * MaxSize >= MaxSize
      <3>1. 1 * MaxSize <= Cardinality(Workers) * MaxSize
        BY <2>1, <2>2, Products
      <3> QED BY <3>1, <2>1, <2>2, Products
    <2>4. Cardinality(Workers) * MaxSize > 0
      BY <2>1, <2>3, AcquireAssumption
    <2>5. ASSUME Drawn' /\ (free' < free => Reserve = 0 \/ free' >= Reserve)
          PROVE  Drawn' /\ (free' < free => free' + Cardinality(Workers) * MaxSize > Reserve)
      BY <2>1, <2>3, <2>4, <2>5
    <2>6. ASSUME Drawn' /\ (free' < free => Reserve = 0 \/ free' + Cardinality(Workers) * MaxSize > Reserve)
          PROVE  Drawn' /\ (free' < free => free' + Cardinality(Workers) * MaxSize > Reserve)
      BY <2>1, <2>3, <2>4, <2>6
    <2>7. CASE \E w \in Workers : Worker(w)
      BY <1>2, <2>6, <2>7, WorkersDraw
    <2>8. CASE SweepStep
      BY <1>2, <2>5, <2>8, SweepDraws
    <2>9. CASE Register \/ Around \/ UNCHANGED vars
      BY <1>2, <2>1, <2>9, RestDraws
    <2> QED BY <1>2, <2>7, <2>8, <2>9 DEF Next
  <1>3. ASSUME TypeOK, TypeOK', Tallied, Apart, Drawn, [Next]_vars
        PROVE  [free' < free => free' + Cardinality(Workers) * MaxSize > Reserve]_vars
    BY <1>2, <1>3
  <1> QED BY <1>1, <1>2, <1>3, AcquireTyping, AcquireApart, PTL DEF Spec, OvershootIsBounded

----------------------------------------------------------------------------
(* What is counted.                                                        *)

\* No file goes, and no count is taken behind the node's back.
Undisturbed == Events \cap {"removed", "verify"} = {}

\* The files still to be counted: those queued or in a worker's hand, and once
\* the workers have ended, those this sweep has still to try or has in hand.
Pending ==
    IF spc = "off" THEN queue \cup {wfile[w] : w \in {v \in Workers : Holding(v)}}
                   ELSE missing \cup {sfile}
Settled == onDisk \ Pending

Counted ==
    /\ vpc = "idle"
    /\ held <= Cardinality(Settled)
    /\ \A w \in Workers : wpc[w] = "landed" => wfile[w] \in onDisk
    /\ spc = "landed" => sfile \in onDisk
    /\ sfile \notin missing /\ (spc \notin {"get", "landed"} => sfile = None)
    /\ spc = "off" => missing = {}

LEMMA SettledIsFinite ==
    ASSUME TypeOK
    PROVE  IsFiniteSet(onDisk) /\ IsFiniteSet(Settled) /\ Cardinality(Settled) \in Nat /\ held \in Nat
           /\ Cardinality(Settled) <= Cardinality(onDisk)
  <1>1. IsFiniteSet(onDisk)
    BY AcquireAssumption, FS_Subset DEF TypeOK, FilesOK
  <1>2. Settled \subseteq onDisk
    BY DEF Settled
  <1> QED BY <1>1, <1>2, FS_Subset, FS_CardinalityType DEF TypeOK, NumbersOK

LEMMA CountStays ==
    ASSUME TypeOK, TypeOK', held <= Cardinality(Settled), held' = held, Settled \subseteq Settled'
    PROVE  held' <= Cardinality(Settled')
  <1>1. /\ IsFiniteSet(Settled') /\ Cardinality(Settled') \in Nat
        /\ Cardinality(Settled) \in Nat /\ held \in Nat
    <2>1. IsFiniteSet(onDisk')
      BY AcquireAssumption, FS_Subset DEF TypeOK, FilesOK
    <2>2. Settled' \subseteq onDisk'
      BY DEF Settled
    <2> QED BY <2>1, <2>2, FS_Subset, FS_CardinalityType, SettledIsFinite
  <1>2. Cardinality(Settled) <= Cardinality(Settled')
    BY <1>1, FS_Subset
  <1> QED BY <1>1, <1>2

LEMMA CountGrows ==
    ASSUME TypeOK, TypeOK', held <= Cardinality(Settled), held' = held + 1,
           NEW f, f \notin Settled, f \in Settled', Settled \subseteq Settled'
    PROVE  held' <= Cardinality(Settled')
  <1>1. /\ IsFiniteSet(Settled') /\ Cardinality(Settled') \in Nat
        /\ IsFiniteSet(Settled) /\ Cardinality(Settled) \in Nat /\ held \in Nat
    <2>1. IsFiniteSet(onDisk')
      BY AcquireAssumption, FS_Subset DEF TypeOK, FilesOK
    <2>2. Settled' \subseteq onDisk'
      BY DEF Settled
    <2> QED BY <2>1, <2>2, FS_Subset, FS_CardinalityType, SettledIsFinite
  <1>2. Settled \cup {f} \subseteq Settled'
    OBVIOUS
  <1>3. Cardinality(Settled \cup {f}) = Cardinality(Settled) + 1
    BY <1>1, FS_AddElement
  <1>4. Cardinality(Settled \cup {f}) <= Cardinality(Settled')
    BY <1>1, <1>2, FS_Subset
  <1> QED BY <1>1, <1>3, <1>4

LEMMA WorkersCount ==
    ASSUME TypeOK, TypeOK', Tallied, Apart, Counted, NEW w \in Workers, Worker(w)
    PROVE  Counted'
  <1> USE DEF Counted, Goto
  <1>0. /\ spc = "off" /\ wpc[w] # "done"
        /\ UNCHANGED <<vpc, spc, missing, sfile>>
        /\ \A v \in Workers \ {w} : wpc'[v] = wpc[v] /\ wfile'[v] = wfile[v]
        /\ onDisk \subseteq onDisk'
    <2>1. wpc[w] # "done" /\ UNCHANGED <<vpc, spc, missing, sfile>> /\ onDisk \subseteq onDisk'
      BY DEF Worker, Top, Pop, WorkerSwarm, WorkerAsks, WorkerGets, WorkerAccounts, Flag, sweep, check, store, Lands
    <2>2. \A v \in Workers \ {w} : wpc'[v] = wpc[v]
      BY DEF Worker, Top, Pop, WorkerSwarm, WorkerAsks, WorkerGets, WorkerAccounts, Flag, TypeOK, WorkersOK
    <2>3. \A v \in Workers \ {w} : wfile'[v] = wfile[v]
      BY DEF Worker, Top, Pop, WorkerSwarm, WorkerAsks, WorkerGets, WorkerAccounts, Flag, TypeOK, WorkersOK
    <2> QED BY <2>1, <2>2, <2>3 DEF Apart
  <1>1. ASSUME NEW f \in onDisk, f \notin queue, \A v \in Workers : Holding(v) => wfile[v] # f
        PROVE  f \in Settled
    BY <1>0, <1>1 DEF Settled, Pending
  <1>2. ASSUME NEW f \in onDisk', f \notin queue',
               \A v \in Workers : wpc'[v] \in {"swarm", "http", "get", "landed", "failed"} => wfile'[v] # f
        PROVE  f \in Settled'
    BY <1>0, <1>2 DEF Settled, Pending, Holding
  <1>3. ASSUME NEW f \in Settled
        PROVE  f \in onDisk /\ f \notin queue /\ \A v \in Workers : Holding(v) => wfile[v] # f
    BY <1>0 DEF Settled, Pending
  <1>4. ASSUME queue' \subseteq queue,
               wpc'[w] \in {"swarm", "http", "get", "landed", "failed"} =>
                   wfile'[w] \in queue \/ (Holding(w) /\ wfile'[w] = wfile[w])
        PROVE  Settled \subseteq Settled'
    BY <1>0, <1>2, <1>3, <1>4 DEF Holding
  <1>5. ASSUME held' = held, Settled \subseteq Settled', wpc'[w] = "landed" => wfile'[w] \in onDisk'
        PROVE  Counted'
    BY <1>0, <1>5, CountStays
  <1>6. CASE Top(w)
    <2>1. held' = held /\ queue' = queue /\ wpc'[w] \in {"done", "pop"}
      BY <1>6 DEF Top, TypeOK, WorkersOK
    <2> QED BY <1>4, <1>5, <2>1
  <1>7. CASE Pop(w)
    <2>1. held' = held /\ queue' \subseteq queue /\ wpc'[w] \in {"done", "swarm", "http"}
          /\ (wpc'[w] # "done" => wfile'[w] \in queue)
      BY <1>7 DEF Pop, IsFirst, TypeOK, WorkersOK
    <2> QED BY <1>4, <1>5, <2>1
  <1>8. CASE WorkerSwarm(w)
    <2>1. held' = held /\ queue' = queue /\ wfile' = wfile /\ wpc[w] = "swarm" /\ wpc'[w] \in {"landed", "http"}
          /\ (wpc'[w] = "landed" => wfile[w] \in onDisk')
      BY <1>8 DEF WorkerSwarm, Lands, TypeOK, WorkersOK
    <2> QED BY <1>4, <1>5, <2>1 DEF Holding
  <1>9. CASE WorkerAsks(w)
    <2>1. held' = held /\ queue' = queue /\ wfile' = wfile /\ wpc[w] = "http" /\ onDisk' = onDisk
          /\ wpc'[w] \in {"landed", "done", "get"} /\ (wpc'[w] = "landed" => wfile[w] \in onDisk)
      BY <1>9 DEF WorkerAsks, TypeOK, WorkersOK, store
    <2> QED BY <1>4, <1>5, <2>1 DEF Holding
  <1>10. CASE WorkerGets(w)
    <2>1. held' = held /\ queue' = queue /\ wfile' = wfile /\ wpc[w] = "get"
          /\ wpc'[w] \in {"landed", "failed", "done"} /\ (wpc'[w] = "landed" => wfile[w] \in onDisk')
      BY <1>10 DEF WorkerGets, Lands, TypeOK, WorkersOK
    <2> QED BY <1>4, <1>5, <2>1 DEF Holding
  <1>11. CASE WorkerAccounts(w)
    <2>1. /\ queue' = queue /\ wfile' = wfile /\ onDisk' = onDisk
          /\ wpc[w] \in {"landed", "failed"} /\ wpc'[w] \in {"done", "flag"}
          /\ \/ held' = held
             \/ held' = held + 1 /\ wpc[w] = "landed"
      BY <1>11 DEF WorkerAccounts, TypeOK, WorkersOK, store
    <2>2. Settled \subseteq Settled'
      BY <1>4, <2>1
    <2>3. CASE held' = held
      BY <1>5, <2>1, <2>2, <2>3
    <2>4. CASE held' = held + 1 /\ wpc[w] = "landed"
      <3>1. wfile[w] \in onDisk /\ Holding(w)
        BY <2>4 DEF Holding
      <3>2. wfile[w] \notin Settled
        BY <1>3, <3>1
      <3>3. wfile[w] \notin queue /\ \A v \in Workers \ {w} : Holding(v) => wfile[v] # wfile[w]
        BY <3>1 DEF Apart
      <3>4. wfile[w] \in Settled'
        BY <1>0, <1>2, <2>1, <3>1, <3>3 DEF Holding
      <3>5. held' <= Cardinality(Settled')
        BY <2>2, <2>4, <3>2, <3>4, CountGrows
      <3> QED BY <1>0, <2>1, <3>5
    <2> QED BY <2>1, <2>3, <2>4
  <1>12. CASE Flag(w)
    <2>1. held' = held /\ queue' = queue /\ wpc'[w] \in {"done", "top"}
      BY <1>12 DEF Flag, TypeOK, WorkersOK
    <2> QED BY <1>4, <1>5, <2>1
  <1> QED BY <1>6, <1>7, <1>8, <1>9, <1>10, <1>11, <1>12 DEF Worker

LEMMA SweepCounts ==
    ASSUME TypeOK, TypeOK', Tallied, Apart, Counted, SweepStep
    PROVE  Counted'
  <1> USE DEF Counted, Sweeping
  <1>0. /\ UNCHANGED <<vpc, wpc, wfile, queue>> /\ onDisk \subseteq onDisk'
        /\ None \notin missing /\ None \notin missing' /\ None \notin onDisk
    <2>1. UNCHANGED <<vpc, wpc, wfile, queue>> /\ onDisk \subseteq onDisk'
      <3> USE DEF store, pool, check
      <3>1. CASE SweepStarts \/ Wake \/ Admit \/ ListFetched \/ ListFails
        BY <3>1 DEF SweepStarts, Wake, Admit, ListFetched, ListFails
      <3>2. CASE NextFile
        BY <3>2 DEF NextFile
      <3>3. CASE SweepFails \/ SweepAccounts
        BY <3>3 DEF SweepFails, SweepAccounts
      <3>4. ASSUME NEW f \in Scope, SweepLands(f)
            PROVE  UNCHANGED <<vpc, wpc, wfile, queue>> /\ onDisk \subseteq onDisk'
        BY <3>4 DEF SweepLands, Lands
      <3>5. ASSUME NEW f \in Scope, SweepLeaves(f)
            PROVE  UNCHANGED <<vpc, wpc, wfile, queue>> /\ onDisk \subseteq onDisk'
        BY <3>5 DEF SweepLeaves
      <3> QED BY <3>1, <3>2, <3>3, <3>4, <3>5 DEF SweepStep
    <2> QED BY <2>1, AcquireAssumption, NoneIsNoFile DEF TypeOK, FilesOK
  <1>1. ASSUME held' = held, onDisk' = onDisk, spc' # "off", spc # "off",
               \A f \in onDisk : f \in missing' \/ f = sfile' => f \in missing \/ f = sfile,
               spc' # "landed",
               sfile' \notin missing' /\ (spc' \notin {"get", "landed"} => sfile' = None)
        PROVE  Counted'
    <2>1. Settled \subseteq Settled'
      BY <1>1 DEF Settled, Pending
    <2>2. held' <= Cardinality(Settled')
      BY <1>1, <2>1, CountStays
    <2> QED BY <1>0, <1>1, <2>2
  <1>2. CASE SweepStarts
    <2>1. held' = held /\ onDisk' = onDisk /\ spc = "off" /\ spc' = "wait" /\ missing' = {} /\ sfile' = None
      BY <1>2 DEF SweepStarts, store
    <2>2. Settled \subseteq Settled'
      BY <1>0, <2>1 DEF Settled, Pending
    <2>3. held' <= Cardinality(Settled')
      BY <2>1, <2>2, CountStays
    <2> QED BY <1>0, <2>1, <2>3
  <1>3. CASE Wake
    <2>1. held' = held /\ onDisk' = onDisk /\ spc = "wait" /\ spc' = "woken" /\ missing' = missing /\ sfile' = sfile
      BY <1>3 DEF Wake, store
    <2> QED BY <1>1, <2>1
  <1>4. CASE Admit
    <2>1. held' = held /\ onDisk' = onDisk /\ spc = "woken" /\ spc' \in {"wait", "list"} /\ missing' = missing /\ sfile' = sfile
      BY <1>4 DEF Admit, store
    <2> QED BY <1>1, <2>1
  <1>5. CASE ListFetched
    <2>1. held' = held /\ onDisk' = onDisk /\ spc = "list" /\ spc' \in {"wait", "next"}
          /\ missing' = Scope \ onDisk /\ sfile' = sfile
      BY <1>5 DEF ListFetched, store
    <2> QED BY <1>0, <1>1, <2>1
  <1>6. CASE ListFails
    <2>1. held' = held /\ onDisk' = onDisk /\ spc = "list" /\ spc' = "wait" /\ missing' = missing /\ sfile' = sfile
      BY <1>6 DEF ListFails, store
    <2> QED BY <1>1, <2>1
  <1>7. CASE NextFile
    <2>1. held' = held /\ onDisk' = onDisk /\ spc = "next"
      BY <1>7 DEF NextFile, store
    <2>2. \/ spc' = "wait" /\ missing' = {} /\ sfile' = None
          \/ spc' = "get" /\ sfile' \in missing /\ missing' = missing \ {sfile'}
      BY <1>7 DEF NextFile, RoundEnds, IsFirst
    <2> QED BY <1>0, <1>1, <2>1, <2>2
  <1>8. ASSUME NEW f \in Scope, SweepLands(f) PROVE Counted'
    <2>1. held' = held /\ onDisk' = onDisk \cup {f} /\ sfile = f /\ spc = "get" /\ spc' = "landed"
          /\ missing' = missing /\ sfile' = sfile
      BY <1>8 DEF SweepLands, Lands
    <2>2. Settled \subseteq Settled'
      BY <2>1 DEF Settled, Pending
    <2>3. held' <= Cardinality(Settled')
      BY <2>1, <2>2, CountStays
    <2>4. \A w \in Workers : wpc'[w] = "landed" => wfile'[w] \in onDisk'
      BY <1>0
    <2>5. sfile' \in onDisk' /\ sfile' \notin missing'
      BY <2>1
    <2> QED BY <1>0, <2>1, <2>3, <2>4, <2>5
  <1>9. CASE SweepFails
    <2>1. held' = held /\ onDisk' = onDisk /\ spc = "get" /\ sfile' = None
          /\ spc' \in {"next", "wait"} /\ missing' \subseteq missing
      BY <1>9 DEF SweepFails, RoundEnds, store
    <2> QED BY <1>0, <1>1, <2>1
  <1>10. CASE SweepAccounts
    <2>1. held' = held + 1 /\ onDisk' = onDisk /\ spc = "landed" /\ spc' = "next" /\ sfile' = None /\ missing' = missing
      BY <1>10 DEF SweepAccounts, store
    <2>2. sfile \notin Settled /\ sfile \in Settled' /\ Settled \subseteq Settled'
      BY <1>0, <2>1 DEF Settled, Pending
    <2>3. held' <= Cardinality(Settled')
      BY <2>1, <2>2, CountGrows
    <2> QED BY <1>0, <2>1, <2>3
  <1>11. ASSUME NEW f \in Scope, SweepLeaves(f) PROVE Counted'
    <2>1. held' = held /\ onDisk' = onDisk \cup {f} /\ sfile = f /\ spc = "get" /\ spc' = "next"
          /\ missing' = missing /\ sfile' = None
      BY <1>11 DEF SweepLeaves
    <2>2. Settled \subseteq Settled'
      BY <1>0, <2>1 DEF Settled, Pending
    <2>3. held' <= Cardinality(Settled')
      BY <2>1, <2>2, CountStays
    <2>4. \A w \in Workers : wpc'[w] = "landed" => wfile'[w] \in onDisk'
      BY <1>0
    <2> QED BY <1>0, <2>1, <2>3, <2>4
  <1> QED BY <1>2, <1>3, <1>4, <1>5, <1>6, <1>7, <1>8, <1>9, <1>10, <1>11 DEF SweepStep

LEMMA InitCounts == Init => Counted
  <1> SUFFICES ASSUME Init PROVE Counted
    OBVIOUS
  <1>1. Pending = Scope \ onDisk
    BY DEF Init, StartWith, Pending, Holding
  <1>2. Settled = onDisk
    BY <1>1 DEF Settled
  <1>3. Cardinality(onDisk) \in Nat /\ held = Cardinality(onDisk)
    BY SubsetsAreFinite DEF Init, StartWith
  <1> QED BY <1>2, <1>3 DEF Init, StartWith, Counted

LEMMA RestCounts ==
    ASSUME Undisturbed, TypeOK, TypeOK', Apart, Counted, Register \/ Around \/ UNCHANGED vars
    PROVE  Counted'
  <1> USE DEF Happens, vars, store, pool, sweep, flags, check
  <1>1. ~VerifyScans /\ ~VerifyStores /\ \A f \in Library : ~FileRemoved(f)
    BY DEF Undisturbed, VerifyScans, VerifyStores, FileRemoved, Counted
  <1>2. CASE Restart
    <2>4. spc' = "off" /\ queue' = Scope \ onDisk /\ \A w \in Workers : wpc'[w] = "top"
      BY <1>2 DEF Restart
    <2>1. Pending' = Scope \ onDisk
      BY <2>4 DEF Pending, Holding
    <2>2. Settled' = onDisk
      BY <1>2, <2>1 DEF Settled, Restart
    <2>3. Cardinality(onDisk) \in Nat /\ held' = Cardinality(onDisk)
      BY <1>2, SubsetsAreFinite DEF Restart, TypeOK, FilesOK
    <2> QED BY <1>2, <2>2, <2>3 DEF Restart, Counted
  <1>3. CASE Register \/ QuietBegins \/ QuietEnds \/ RefreshAsked \/ SpaceTaken \/ SpaceFreed \/ UNCHANGED vars
    <2>1. UNCHANGED <<onDisk, queue, wpc, wfile, spc, missing, sfile, vpc, held>>
      BY <1>3 DEF Register, QuietBegins, QuietEnds, RefreshAsked, SpaceTaken, SpaceFreed
    <2>2. Settled' = Settled
      BY <2>1 DEF Settled, Pending, Holding
    <2> QED BY <2>1, <2>2 DEF Counted
  <1> QED BY <1>1, <1>2, <1>3 DEF Around

\* While files are neither removed by hand nor recounted by the weekly check, the
\* figure a node reports (state.rs held, main.rs account) never exceeds the files
\* it has, through retries, restarts, full drives and a pass cut short.
THEOREM HeldIsBacked == ASSUME Undisturbed PROVE Spec => []HeldNeverOvercounts
  <1>1. TypeOK /\ Counted => HeldNeverOvercounts
    <2> SUFFICES ASSUME TypeOK, Counted PROVE held <= Cardinality(onDisk)
      BY DEF HeldNeverOvercounts
    <2>1. Cardinality(onDisk) \in Nat
      BY SubsetsAreFinite DEF TypeOK, FilesOK
    <2> QED BY <2>1, SettledIsFinite DEF Counted
  <1>2. TypeOK /\ TypeOK' /\ Tallied /\ Apart /\ Counted /\ [Next]_vars => Counted'
    BY WorkersCount, SweepCounts, RestCounts DEF Next
  <1> QED BY <1>1, <1>2, InitCounts, AcquireTyping, AcquireApart, PTL DEF Spec

----------------------------------------------------------------------------
(* What a sweep believes is still missing.                                 *)

\* The files this sweep still owes, by its own figures.
Still == wanted - got - (IF spc = "landed" THEN 1 ELSE 0)
Outstanding == Scope \ onDisk

TrueCount ==
    /\ spc \notin {"get", "landed"} => sfile = None
    /\ spc \in {"next", "get", "landed"} =>
        /\ Cardinality(Outstanding) <= Still
        /\ left = {} => Cardinality(Outstanding) = Still
        /\ missing \subseteq Outstanding
        /\ sfile \notin missing /\ (spc = "get" => sfile \in Outstanding)

\* No file goes behind a sweep's back.
NoneRemoved == "removed" \notin Events

LEMMA OutstandingIsFinite == IsFiniteSet(Outstanding) /\ Cardinality(Outstanding) \in Nat
  <1>1. Outstanding \subseteq Library
    BY AcquireAssumption DEF Outstanding
  <1> QED BY <1>1, SubsetsAreFinite

\* While a sweep is under way the workers have ended, so only it lands files.
LEMMA RestTrueCount ==
    ASSUME NoneRemoved, TypeOK, Apart, TrueCount,
           (\E w \in Workers : Worker(w)) \/ Register \/ Around \/ UNCHANGED vars
    PROVE  TrueCount'
  <1> USE DEF store, pool, sweep, flags, check, Happens
  <1>1. CASE \E w \in Workers : Worker(w)
    <2>1. PICK w \in Workers : Worker(w)
      BY <1>1
    <2>2. wpc[w] # "done" /\ UNCHANGED <<spc, sfile>>
      BY <2>1 DEF Worker, Top, Pop, WorkerSwarm, WorkerAsks, WorkerGets, WorkerAccounts, Flag
    <2> QED BY <2>2 DEF Apart, TrueCount
  <1>2. CASE Restart
    BY <1>2 DEF Restart, TrueCount
  <1>3. CASE (Register \/ Around \/ UNCHANGED vars) /\ ~Restart
    <2>1. \A f \in Library : ~FileRemoved(f)
      BY DEF NoneRemoved, FileRemoved
    <2>2. UNCHANGED <<onDisk, left, sweep>>
      BY <1>3, <2>1 DEF Register, Around, VerifyScans, VerifyStores, QuietBegins, QuietEnds, RefreshAsked,
                  SpaceTaken, SpaceFreed, vars
    <2> QED BY <2>2 DEF TrueCount, Still, Outstanding
  <1> QED BY <1>1, <1>2, <1>3

\* A file that lands, by the sweep's doing, takes one from what is outstanding.
LEMMA OneLess ==
    ASSUME NEW f \in Outstanding, onDisk' = onDisk \cup {f}
    PROVE  Outstanding' = Outstanding \ {f} /\ Cardinality(Outstanding') = Cardinality(Outstanding) - 1
  <1>1. Outstanding' = Outstanding \ {f}
    BY DEF Outstanding
  <1> QED BY <1>1, OutstandingIsFinite, FS_RemoveElement

LEMMA SweepTrueCount ==
    ASSUME TypeOK, TypeOK', Tallied, TrueCount, SweepStep
    PROVE  TrueCount'
  <1> USE DEF store, pool, sweep, flags, check, Sweeping
  <1>t. /\ wanted \in Nat /\ got \in Nat /\ None \notin missing /\ None \notin Outstanding
        /\ Cardinality(Outstanding) \in Nat
    <2>1. wanted \in Nat /\ got \in Nat
      BY ScopeIsFinite DEF TypeOK, NumbersOK
    <2>2. missing \subseteq Library /\ Outstanding \subseteq Library
      BY AcquireAssumption DEF TypeOK, FilesOK, Outstanding
    <2> QED BY <2>1, <2>2, OutstandingIsFinite, NoneIsNoFile
  <1>1. CASE SweepStarts \/ Wake \/ Admit \/ ListFails
    BY <1>1 DEF SweepStarts, Wake, Admit, ListFails, TrueCount
  <1>2. CASE ListFetched
    <2>1. Outstanding' = Outstanding /\ missing' = Outstanding /\ wanted' = Cardinality(Outstanding)
          /\ got' = 0 /\ spc' \in {"wait", "next"} /\ sfile' = sfile /\ spc = "list" /\ left' = left
      BY <1>2 DEF ListFetched, Outstanding
    <2>2. sfile' = None /\ sfile' \notin missing'
      BY <2>1, <1>t DEF TrueCount
    <2> QED BY <2>1, <1>t DEF TrueCount, Still
  <1>3. CASE NextFile
    <2>1. onDisk' = onDisk /\ left' = left /\ spc = "next"
          /\ \/ spc' = "wait"
             \/ spc' = "get" /\ sfile' \in missing /\ missing' = missing \ {sfile'} /\ UNCHANGED <<wanted, got>>
          /\ (spc' = "wait" => sfile' = None)
      BY <1>3 DEF NextFile, RoundEnds, IsFirst
    <2>2. Outstanding' = Outstanding
      BY <2>1 DEF Outstanding
    <2> QED BY <2>1, <2>2, <1>t DEF TrueCount, Still
  <1>4. ASSUME NEW f \in Scope, SweepLands(f) PROVE TrueCount'
    <2>1. /\ spc = "get" /\ spc' = "landed" /\ sfile = f /\ onDisk' = onDisk \cup {f}
          /\ UNCHANGED <<missing, sfile, wanted, got, left>>
      BY <1>4 DEF SweepLands, Lands
    <2>2. f \in Outstanding /\ f \notin missing
      BY <2>1 DEF TrueCount
    <2>3. Outstanding' = Outstanding \ {f} /\ Cardinality(Outstanding') = Cardinality(Outstanding) - 1
      BY <2>1, <2>2, OneLess
    <2> QED BY <2>1, <2>2, <2>3, <1>t DEF TrueCount, Still
  <1>5. CASE SweepFails
    <2>1. onDisk' = onDisk /\ left' = left /\ spc = "get"
          /\ sfile' = None
          /\ (spc' = "wait" \/ (spc' = "next" /\ UNCHANGED <<missing, wanted, got>>))
      <3>1. RoundEnds(TRUE) => spc' = "wait" /\ sfile' = None
        BY DEF RoundEnds
      <3>2. spc = "get" /\ UNCHANGED <<onDisk, left>>
        BY <1>5 DEF SweepFails
      <3>3. \/ spc' = "next" /\ sfile' = None /\ UNCHANGED <<missing, wanted, got, nextWait, idle, diskFull>>
            \/ RoundEnds(TRUE)
        BY <1>5, Zenon DEF SweepFails
      <3> QED BY <3>1, <3>2, <3>3
    <2>2. Outstanding' = Outstanding
      BY <2>1 DEF Outstanding
    <2> QED BY <2>1, <2>2, <1>t DEF TrueCount, Still
  <1>6. ASSUME NEW f \in Scope, SweepLeaves(f) PROVE TrueCount'
    <2>1. /\ spc = "get" /\ spc' = "next" /\ sfile = f /\ onDisk' = onDisk \cup {f}
          /\ left' # {} /\ sfile' = None /\ UNCHANGED <<missing, wanted, got>>
      BY <1>6 DEF SweepLeaves
    <2>2. f \in Outstanding /\ f \notin missing
      BY <2>1 DEF TrueCount
    <2>3. Outstanding' = Outstanding \ {f} /\ Cardinality(Outstanding') = Cardinality(Outstanding) - 1
      BY <2>1, <2>2, OneLess
    <2> QED BY <2>1, <2>2, <2>3, <1>t DEF TrueCount, Still
  <1>7. CASE SweepAccounts
    <2>1. /\ onDisk' = onDisk /\ left' = left /\ spc = "landed" /\ spc' = "next" /\ sfile' = None
          /\ got' = got + 1 /\ UNCHANGED <<missing, wanted>>
      BY <1>7 DEF SweepAccounts
    <2>2. Outstanding' = Outstanding
      BY <2>1 DEF Outstanding
    <2> QED BY <2>1, <2>2, <1>t DEF TrueCount, Still
  <1> QED BY <1>1, <1>2, <1>3, <1>4, <1>5, <1>6, <1>7 DEF SweepStep

\* Between two files, what a sweep has set out for and not got covers all that is
\* missing from the drive, and is just that unless the swarm left a file behind.
\* (main.rs: still = wanted - got.)
FiguresAgree ==
    spc = "next" => /\ Cardinality(Outstanding) <= wanted - got
                    /\ left = {} => Cardinality(Outstanding) = wanted - got

\* A round that ends with a file missing, and not for want of room, is followed by
\* the wait its idle rounds call for and never by the hourly one of a full library.
RetriesInTime ==
    [][(spc \in {"next", "get"} /\ spc' = "wait" /\ ~diskFull') =>
           \/ Scope \subseteq onDisk
           \/ nextWait' = Backoff(idle') /\ idle' <= idle + 1]_vars

\* Unless files are removed by hand, the figure that chooses a sweep's next wait
\* never understates what is missing, so a round that leaves something out is
\* tried again in the time the code gives it, with any files, drive and workers.
THEOREM SweepCountsTrue == ASSUME NoneRemoved PROVE Spec => []FiguresAgree /\ RetriesInTime
  <1>1. Init => TrueCount
    BY DEF Init, StartWith, TrueCount
  <1>2. TypeOK /\ TypeOK' /\ Tallied /\ Apart /\ TrueCount /\ [Next]_vars => TrueCount'
    BY SweepTrueCount, RestTrueCount DEF Next
  <1>3. TypeOK /\ TrueCount => FiguresAgree
    BY OutstandingIsFinite DEF TrueCount, FiguresAgree, Still, TypeOK, NumbersOK
  <1>4. TypeOK /\ Tallied /\ FiguresAgree /\ [Next]_vars =>
          [(spc \in {"next", "get"} /\ spc' = "wait" /\ ~diskFull') =>
               \/ Scope \subseteq onDisk
               \/ nextWait' = Backoff(idle') /\ idle' <= idle + 1]_vars
    <2> SUFFICES ASSUME TypeOK, Tallied, FiguresAgree, [Next]_vars,
                        spc \in {"next", "get"}, spc' = "wait", ~diskFull', ~(Scope \subseteq onDisk)
                 PROVE  nextWait' = Backoff(idle') /\ idle' <= idle + 1
      OBVIOUS
    <2>1. RoundEnds(diskFull) /\ spc = "next" /\ ~diskFull
      <3>1. CASE NextFile
        <4>1. spc' # "get" /\ diskFull' # TRUE
          OBVIOUS
        <4>2. ASSUME RoundEnds(diskFull), UNCHANGED diskFull
              PROVE  RoundEnds(diskFull) /\ ~diskFull
          BY <4>2, Zenon
        <4>3. spc = "next" /\ RoundEnds(diskFull) /\ UNCHANGED diskFull
          BY <3>1, <4>1, Zenon DEF NextFile, Sweeping
        <4> QED BY <4>2, <4>3, Zenon
      <3>2. CASE SweepFails
        BY <3>2 DEF SweepFails, Sweeping
      <3>3. CASE SweepStep /\ ~NextFile /\ ~SweepFails
        BY <3>3 DEF SweepStep, SweepStarts, Wake, Admit, ListFetched, ListFails, SweepLands, SweepLeaves,
                    SweepAccounts, Sweeping
      <3>4. CASE \E w \in Workers : Worker(w)
        BY <3>4 DEF Worker, Top, Pop, WorkerSwarm, WorkerAsks, WorkerGets, WorkerAccounts, Flag, sweep
      <3>5. CASE Register \/ Around \/ UNCHANGED vars
        BY <3>5 DEF Register, Around, VerifyScans, VerifyStores, QuietBegins, QuietEnds, RefreshAsked,
                    SpaceTaken, SpaceFreed, FileRemoved, Restart, vars, sweep
      <3> QED BY <3>1, <3>2, <3>3, <3>4, <3>5 DEF Next
    <2>2. Cardinality(Outstanding) > 0
      <3>1. Outstanding # {}
        BY DEF Outstanding
      <3> QED BY <3>1, OutstandingIsFinite, FS_EmptySet
    <2>3. wanted > got
      BY <2>1, <2>2, OutstandingIsFinite, ScopeIsFinite DEF FiguresAgree, TypeOK, NumbersOK
    <2> QED BY <2>1, <2>3 DEF RoundEnds, TypeOK, NumbersOK
  <1> QED BY <1>1, <1>2, <1>3, <1>4, AcquireTyping, AcquireApart, PTL DEF Spec, RetriesInTime
=============================================================================
