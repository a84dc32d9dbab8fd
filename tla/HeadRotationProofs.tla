------------------------- MODULE HeadRotationProofs -------------------------
(***************************************************************************)
(* Proofs about HeadRotation for every window size and every number of     *)
(* publishes, I/O errors and power losses.                                 *)
(***************************************************************************)
EXTENDS HeadRotation, SequenceTheorems, TLAPS

----------------------------------------------------------------------------
\* The inductive invariant.

Descending(s) ==
    \A i, j \in 1..Len(s) : i < j => s[i] > s[j]

\* An index names heads published so far, newest first, none twice.
IndexShape(s) ==
    /\ s \in Seq(HeadIds)
    /\ Len(s) <= MaxHeads
    /\ Descending(s)
    /\ Members(s) \subseteq 1..published

Shapes ==
    /\ \A s \in indexMay : IndexShape(s)
    /\ IndexShape(cachedHeads)
    /\ IndexShape(next)

\* The head of a publish that has not reached the index is fresh.
Publishing ==
    pc \in {"json", "jsonSync", "mpk", "mpkSync", "index"} =>
        /\ head = published /\ published > 0
        /\ head \notin gone
        /\ head \notin Members(cachedHeads)
        /\ loaded

\* Its files are durable one after the other.
Staged ==
    /\ pc = "jsonSync" => Json(head) \in files
    /\ pc \in {"mpk", "mpkSync", "index"} => Json(head) \in files \cap durable
    /\ pc \in {"mpkSync", "index"} => Mpk(head) \in files
    /\ pc = "index" => Mpk(head) \in durable

AfterRename ==
    {"indexSync", "core", "coreSync", "cacheHeads", "cacheCore",
     "unlinkMpk", "unlinkJson", "unlinkSync"}
Unlinking == {"unlinkMpk", "unlinkJson", "unlinkSync"}

\* From its rename on, the new index is what the disk, then the count, then
\* the cache hold; the victim is in none of them when its files go.
Committing ==
    /\ pc \in AfterRename =>
          loaded /\ index = next /\ victim \notin Members(next)
    /\ pc \in AfterRename \ {"indexSync"} => indexMay = {next}
    /\ pc = "coreSync" => count = Len(next)
    /\ pc \in {"cacheHeads", "cacheCore"} \cup Unlinking =>
          countMay = {Len(next)}
    /\ pc \in {"cacheCore"} \cup Unlinking => cachedHeads = next
    /\ pc \in Unlinking => cachedCount = Len(next) /\ victim # NoHead

\* The boot runs before any request: there is no cache cell yet.
Booting ==
    /\ ~loaded => cachedHeads = <<>> /\ cachedCount = 0
    /\ pc \in {"sweep", "sweepSync", "repair", "repairSync"} =>
          ~loaded /\ indexMay = {index}
    /\ pc \in {"sweepSync", "repair", "repairSync"} /\ outcome = "booted" =>
          Orphans = {}
    /\ pc \in {"sweep", "sweepSync", "repair"} => countMay = {count}
    /\ pc = "repairSync" => count = Len(index)
    /\ pc \in {"sweep", "sweepSync", "repair", "repairSync"} => outcome # "ok"

Inv ==
    /\ TypeOK
    /\ Shapes
    /\ Publishing
    /\ Staged
    /\ Committing
    /\ Booting
    /\ IndexNeverDangles
    /\ AckedIsDurable
    /\ GoneForGood
    /\ BootConverges

----------------------------------------------------------------------------
\* Sequences.

\* The empty index has no members.
LEMMA EmptyShape == IndexShape(<<>>) /\ Members(<<>>) = {}
  <1>1. <<>> \in Seq(HeadIds) /\ Len(<<>>) = 0
    OBVIOUS
  <1>2. Members(<<>>) = {}
    BY <1>1 DEF Members
  <1> QED
    BY <1>1, <1>2, HeadsAssumption DEF IndexShape, Descending

\* A function on 1..n is a sequence of length n.
LEMMA FunctionIsSeq ==
  ASSUME NEW n \in Nat, NEW f, NEW S, f \in [1..n -> S]
  PROVE  f \in Seq(S) /\ Len(f) = n
  <1>1. f \in Seq(S)
    BY SeqDef
  <1>2. DOMAIN f = 1..n /\ DOMAIN f = 1..Len(f) /\ Len(f) \in Nat
    BY <1>1, LenProperties
  <1> QED
    BY <1>1, <1>2

\* Prepending a fresh head keeps an index an index, adds only that head, and
\* drops the displaced one.
LEMMA PrependFacts ==
  ASSUME HeadsAssumption, published \in 0..MaxPublishes, MaxPublishes \in Nat,
         NEW s, IndexShape(s), published > 0, published \notin Members(s)
  PROVE  LET t == Prepend(published, s) IN
         /\ IndexShape(t)
         /\ Members(t) \subseteq Members(s) \cup {published}
         /\ Displaced(s) \in 0..published
         /\ Displaced(s) \notin Members(t)
  <1> DEFINE n == IF Len(s) < MaxHeads THEN Len(s) + 1 ELSE MaxHeads
             t == Prepend(published, s)
  <1>1. /\ s \in Seq(HeadIds) /\ Len(s) \in Nat /\ Len(s) <= MaxHeads
        /\ \A i \in 1..Len(s) : s[i] \in 1..published /\ s[i] # published
        /\ \A i, j \in 1..Len(s) : i < j => s[i] > s[j]
    <2>1. s \in Seq(HeadIds) /\ Len(s) \in Nat /\ Len(s) <= MaxHeads
      BY LenProperties DEF IndexShape
    <2>2. \A i \in 1..Len(s) : s[i] \in Members(s)
      BY DEF Members
    <2> QED
      BY <2>1, <2>2 DEF IndexShape, Descending
  <1>2. n \in Nat /\ n >= 1 /\ n <= MaxHeads /\ n - 1 <= Len(s)
    BY <1>1, HeadsAssumption
  <1>3. t = [i \in 1..n |-> IF i = 1 THEN published ELSE s[i - 1]]
    BY DEF Prepend
  <1> HIDE DEF n, t
  <1>4. \A i \in 1..n : /\ i # 1 => i - 1 \in 1..Len(s)
                        /\ t[i] = IF i = 1 THEN published ELSE s[i - 1]
    BY <1>1, <1>2, <1>3
  <1>5. ASSUME NEW i \in 1..n PROVE t[i] \in 1..published
    <2>1. CASE i = 1
      BY <2>1, <1>4
    <2>2. CASE i # 1
      BY <2>2, <1>1, <1>4
    <2> QED
      BY <2>1, <2>2
  <1>6. t \in [1..n -> HeadIds]
    BY <1>3, <1>5 DEF HeadIds
  <1>7. t \in Seq(HeadIds) /\ Len(t) = n
    BY <1>2, <1>6, FunctionIsSeq
  <1>8. Descending(t)
    <2> SUFFICES ASSUME NEW i \in 1..n, NEW j \in 1..n, i < j
                 PROVE  t[i] > t[j]
      BY <1>7 DEF Descending
    <2>1. j # 1 /\ j - 1 \in 1..Len(s) /\ t[j] = s[j - 1]
      BY <1>2, <1>4
    <2>2. CASE i = 1
      BY <2>1, <2>2, <1>1, <1>2, <1>4
    <2>3. CASE i # 1
      <3>1. i - 1 \in 1..Len(s) /\ t[i] = s[i - 1] /\ i - 1 < j - 1
        BY <2>3, <1>2, <1>4
      <3> QED
        BY <3>1, <2>1, <1>1
    <2> QED
      BY <2>2, <2>3
  <1>9. Members(t) \subseteq Members(s) \cup {published}
    BY <1>4, <1>7, SMTT(30) DEF Members
  <1>10. Members(t) \subseteq 1..published
    BY <1>5, <1>7 DEF Members
  <1>11. IndexShape(t)
    BY <1>2, <1>7, <1>8, <1>10 DEF IndexShape
  <1>12. CASE Len(s) < MaxHeads
    <2>1. Displaced(s) = 0
      BY <1>12 DEF Displaced, NoHead
    <2>2. Displaced(s) \notin Members(t) /\ Displaced(s) \in 0..published
      BY <2>1, <1>10
    <2> QED
      BY <2>2, <1>9, <1>11 DEF t
  <1>13. CASE ~(Len(s) < MaxHeads)
    <2>1. Len(s) = MaxHeads /\ n = MaxHeads /\ MaxHeads \in 1..Len(s)
      BY <1>13, <1>1, HeadsAssumption DEF n
    <2>2. Displaced(s) = s[MaxHeads]
      BY <1>13 DEF Displaced
    <2>3. ASSUME NEW i \in 1..n PROVE t[i] # s[MaxHeads]
      <3>1. CASE i = 1
        BY <3>1, <2>1, <1>1, <1>4
      <3>2. CASE i # 1
        <4>1. i - 1 \in 1..Len(s) /\ t[i] = s[i - 1] /\ i - 1 < MaxHeads
          BY <3>2, <2>1, <1>2, <1>4
        <4>2. s[i - 1] > s[MaxHeads]
          BY <4>1, <2>1, <1>1
        <4>3. s[i - 1] \in Nat /\ s[MaxHeads] \in Nat
          BY <4>1, <2>1, <1>1
        <4> QED
          BY <4>1, <4>2, <4>3
      <3> QED
        BY <3>1, <3>2
    <2>4. Displaced(s) \notin Members(t)
      BY <2>2, <2>3, <1>7 DEF Members
    <2>5. Displaced(s) \in 0..published
      BY <2>1, <2>2, <1>1
    <2> QED
      BY <2>4, <2>5, <1>9, <1>11 DEF t
  <1> QED
    BY <1>9, <1>11, <1>12, <1>13 DEF t

\* Removing a position keeps an index an index and removes just that head.
LEMMA WithoutFacts ==
  ASSUME HeadsAssumption, published \in 0..MaxPublishes,
         NEW s, IndexShape(s), NEW k \in 1..Len(s)
  PROVE  LET t == WithoutPosition(s, k) IN
         /\ IndexShape(t)
         /\ Members(t) \subseteq Members(s)
         /\ s[k] \notin Members(t)
         /\ s[k] \in Members(s) /\ s[k] \in 1..published
  <1> DEFINE n == Len(s) - 1
             t == WithoutPosition(s, k)
             p(i) == IF i < k THEN i ELSE i + 1
  <1>1. /\ s \in Seq(HeadIds) /\ Len(s) \in Nat /\ Len(s) <= MaxHeads
        /\ \A i \in 1..Len(s) : s[i] \in 1..published /\ s[i] \in Members(s)
        /\ \A i, j \in 1..Len(s) : i < j => s[i] > s[j]
    <2>1. s \in Seq(HeadIds) /\ Len(s) \in Nat /\ Len(s) <= MaxHeads
      BY LenProperties DEF IndexShape
    <2>2. \A i \in 1..Len(s) : s[i] \in Members(s)
      BY DEF Members
    <2> QED
      BY <2>1, <2>2 DEF IndexShape, Descending
  <1>2. n \in Nat /\ n <= MaxHeads
    BY <1>1, HeadsAssumption
  <1>3. t = [i \in 1..n |-> IF i < k THEN s[i] ELSE s[i + 1]]
    BY DEF WithoutPosition
  <1>4. \A i \in 1..n : p(i) \in 1..Len(s) /\ p(i) # k /\ t[i] = s[p(i)]
    BY <1>1, <1>2, <1>3
  <1>5. \A i, j \in 1..n : i < j => p(i) < p(j)
    BY <1>2
  <1> HIDE DEF n, t, p
  <1>6. t \in [1..n -> HeadIds]
    <2>1. \A i \in 1..n : t[i] \in HeadIds
      BY <1>1, <1>4, HeadsAssumption, SMTT(30) DEF HeadIds
    <2> QED
      BY <2>1, <1>3
  <1>7. t \in Seq(HeadIds) /\ Len(t) = n
    BY <1>2, <1>6, FunctionIsSeq
  <1>8. Descending(t)
    BY <1>1, <1>4, <1>5, <1>7 DEF Descending
  <1>9. Members(t) \subseteq Members(s)
    BY <1>1, <1>4, <1>7 DEF Members
  <1>10. ASSUME NEW i \in 1..n PROVE t[i] # s[k]
    <2>1. p(i) \in 1..Len(s) /\ p(i) # k /\ t[i] = s[p(i)]
      BY <1>4
    <2>2. s[p(i)] \in Nat /\ s[k] \in Nat
      BY <2>1, <1>1
    <2>3. p(i) < k \/ k < p(i)
      BY <2>1, <1>1
    <2> QED
      BY <2>1, <2>2, <2>3, <1>1
  <1>11. s[k] \notin Members(t)
    BY <1>7, <1>10 DEF Members
  <1>12. IndexShape(t)
    BY <1>2, <1>7, <1>8, <1>9 DEF IndexShape
  <1> QED
    BY <1>1, <1>9, <1>11, <1>12 DEF t

----------------------------------------------------------------------------
\* Induction.

\* The invariant holds initially.
LEMMA InitInv == Init => Inv
  <1> SUFFICES ASSUME Init PROVE Inv
    OBVIOUS
  <1>1. IndexShape(<<>>) /\ Members(<<>>) = {} /\ Len(<<>>) = 0
    BY EmptyShape
  <1>2. Orphans = {}
    BY DEF Init, Orphans
  <1>3. Shapes
    BY <1>1 DEF Init, Shapes
  <1>4. TypeOK
    <2>1. loaded \in BOOLEAN
      BY DEF Init
    <2>2. /\ \A s \in indexMay : s \in Seq(HeadIds) /\ Len(s) <= MaxHeads
          /\ cachedHeads \in Seq(HeadIds) /\ Len(cachedHeads) <= MaxHeads
          /\ next \in Seq(HeadIds) /\ Len(next) <= MaxHeads
      BY <1>3 DEF Shapes, IndexShape
    <2>3. /\ files \subseteq HeadIds \X {"mpk", "json"}
          /\ durable \subseteq HeadIds \X {"mpk", "json"}
          /\ gone \subseteq 1..published
      BY DEF Init
    <2>4. countMay \subseteq 0..MaxHeads /\ cachedCount \in 0..MaxHeads
      BY HeadsAssumption DEF Init
    <2> QED
      BY <2>1, <2>2, <2>3, <2>4, HeadsAssumption DEF Init, TypeOK, Steps, NoHead
  <1>5. Publishing /\ Staged /\ Committing
    BY DEF Init, Publishing, Staged, Committing, AfterRename, Unlinking
  <1>6. Booting /\ AckedIsDurable /\ BootConverges
    BY <1>2 DEF Init, Booting, AckedIsDurable, BootConverges
  <1>7. IndexNeverDangles /\ GoneForGood
    BY <1>1 DEF Init, IndexNeverDangles, GoneForGood
  <1> QED
    BY <1>3, <1>4, <1>5, <1>6, <1>7 DEF Inv

\* The two ways of renaming a new heads.json into place.
Rename == PublishIndex \/ \E k \in 1..Len(cachedHeads) : DeleteIndex(k)

\* What they share: the new index is an index of heads whose files are kept,
\* without the victim.
LEMMA RenameFacts ==
  ASSUME Inv, Rename
  PROVE  /\ IndexShape(next')
         /\ index' = next' /\ indexMay' = indexMay \cup {next'}
         /\ pc' = "indexSync" /\ loaded
         /\ head' \in 0..published /\ victim' \in 0..published
         /\ victim' \notin Members(next')
         /\ \A h \in Members(next') : Kept(h) /\ h \notin gone
         /\ outcome' \in {"none", outcome}
         /\ UNCHANGED <<files, durable, count, countMay, loaded, cachedHeads,
                        cachedCount, published, gone, faults, crashes>>
  <1>1. CASE PublishIndex
    <2>1. /\ pc = "index" /\ head = published /\ published > 0 /\ loaded
          /\ head \notin gone /\ head \notin Members(cachedHeads)
          /\ published \in 0..MaxPublishes
          /\ head \in 0..published
          /\ IndexShape(cachedHeads)
      BY <1>1 DEF PublishIndex, Inv, Publishing, TypeOK, Shapes
    <2>2. Kept(head)
      BY <2>1 DEF Inv, Staged, Kept
    <2>3. /\ next' = Prepend(published, cachedHeads)
          /\ victim' = Displaced(cachedHeads)
      BY <1>1, <2>1 DEF PublishIndex, RenameIndex
    <2>4. /\ IndexShape(next')
          /\ Members(next') \subseteq Members(cachedHeads) \cup {published}
          /\ victim' \in 0..published
          /\ victim' \notin Members(next')
      BY <2>1, <2>3, PrependFacts, HeadsAssumption
    <2>5. \A h \in Members(next') : Kept(h) /\ h \notin gone
      BY <2>1, <2>2, <2>4 DEF Inv, IndexNeverDangles, GoneForGood
    <2>6. /\ index' = next' /\ indexMay' = indexMay \cup {next'}
          /\ pc' = "indexSync" /\ head' = head /\ outcome' = outcome
          /\ UNCHANGED <<files, durable, count, countMay, loaded, cachedHeads,
                         cachedCount, published, gone, faults, crashes>>
      BY <1>1 DEF PublishIndex, RenameIndex, cacheVars, ghostVars, bounds
    <2> QED
      BY <2>1, <2>4, <2>5, <2>6
  <1>2. CASE \E k \in 1..Len(cachedHeads) : DeleteIndex(k)
    <2>1. PICK k \in 1..Len(cachedHeads) : DeleteIndex(k)
      BY <1>2
    <2>2. published \in 0..MaxPublishes /\ IndexShape(cachedHeads)
      BY DEF Inv, TypeOK, Shapes
    <2>3. /\ next' = WithoutPosition(cachedHeads, k) /\ loaded
          /\ victim' = cachedHeads[k] /\ head' = cachedHeads[k]
      BY <2>1 DEF DeleteIndex, RenameIndex
    <2>4. /\ IndexShape(next')
          /\ Members(next') \subseteq Members(cachedHeads)
          /\ cachedHeads[k] \notin Members(next')
          /\ cachedHeads[k] \in 1..published
      BY <2>2, <2>3, WithoutFacts, HeadsAssumption
    <2>5. \A h \in Members(next') : Kept(h) /\ h \notin gone
      BY <2>4 DEF Inv, IndexNeverDangles, GoneForGood
    <2>6. cachedHeads[k] \in 0..published
      BY <2>2, <2>4
    <2>7. /\ index' = next' /\ indexMay' = indexMay \cup {next'}
          /\ pc' = "indexSync" /\ outcome' = "none"
          /\ UNCHANGED <<files, durable, count, countMay, loaded, cachedHeads,
                         cachedCount, published, gone, faults, crashes>>
      BY <2>1 DEF DeleteIndex, RenameIndex, cacheVars, bounds
    <2> QED
      BY <2>3, <2>4, <2>5, <2>6, <2>7
  <1> QED
    BY <1>1, <1>2 DEF Rename

\* The steps that touch neither an index nor the cache.
Quiet ==
    \/ RenameManifest \/ FsyncManifest \/ RenameMpk \/ FsyncHeads
    \/ RenameCore \/ CacheCore \/ UnlinkMpk \/ UnlinkJson \/ FsyncUnlinks
    \/ Fail \/ SkipUnlink \/ Sweep \/ FsyncSweep \/ Repair \/ BootFault
    \/ UNCHANGED vars

\* The fsyncs of the workspace directory.
FsyncWorkspace == FsyncIndex \/ FsyncCore \/ FsyncRepair

\* The case analysis used below.
LEMMA StepCases ==
  ASSUME [Next]_vars
  PROVE  \/ LoadCell \/ PublishBegin \/ Rename \/ FsyncWorkspace
         \/ CacheHeads \/ Crash \/ Quiet
  BY DEF Next, Commit, Boot, Rename, FsyncWorkspace, Quiet

\* A quiet step leaves every index, the cached heads and `published` alone.
LEMMA QuietFacts ==
  ASSUME Quiet
  PROVE  UNCHANGED <<index, indexMay, cachedHeads, loaded, next, published>>
  BY DEF Quiet, RenameManifest, FsyncManifest, RenameMpk, FsyncHeads,
         RenameCore, CacheCore, UnlinkMpk, UnlinkJson, FsyncUnlinks, Fail,
         SkipUnlink, Sweep, FsyncSweep, Repair, BootFault, vars, diskVars,
         cacheVars, opVars

\* Every index stays an index.
LEMMA ShapesStep == ASSUME Inv, [Next]_vars PROVE Shapes'
  <1>0. Shapes /\ index \in indexMay /\ published \in 0..MaxPublishes
    BY DEF Inv, TypeOK
  <1>1. CASE LoadCell
    BY <1>0, <1>1 DEF LoadCell, Shapes, IndexShape, diskVars, opVars
  <1>2. CASE PublishBegin
    <2>1. 1..published \subseteq 1..published'
      BY <1>0, <1>2, HeadsAssumption DEF PublishBegin
    <2> QED
      BY <1>0, <1>2, <2>1
         DEF PublishBegin, Shapes, IndexShape, diskVars, cacheVars
  <1>3. CASE Rename
    BY <1>0, <1>3, RenameFacts DEF Shapes, IndexShape
  <1>4. CASE FsyncWorkspace
    BY <1>0, <1>4 DEF FsyncWorkspace, FsyncIndex, FsyncCore, FsyncRepair, Shapes,
         IndexShape, cacheVars, opVars
  <1>5. CASE CacheHeads
    BY <1>0, <1>5 DEF CacheHeads, Shapes, IndexShape, diskVars, opVars
  <1>6. CASE Crash
    <2>1. IndexShape(<<>>)
      BY EmptyShape
    <2> QED
      BY <1>0, <1>6, <2>1 DEF Crash, Shapes, IndexShape
  <1>7. CASE Quiet
    BY <1>0, <1>7, QuietFacts DEF Shapes, IndexShape
  <1> QED
    BY <1>1, <1>2, <1>3, <1>4, <1>5, <1>6, <1>7, StepCases

\* Returning Ok adds at most the victim to the heads that are gone.
LEMMA AckFacts ==
  ASSUME TypeOK, Acknowledge
  PROVE  /\ pc' = "idle" /\ outcome' = "ok"
         /\ gone' \subseteq 1..published
         /\ gone' \subseteq gone \cup {victim}
  BY DEF TypeOK, Acknowledge, NoHead

\* Every variable keeps its type.
LEMMA TypeStep == ASSUME Inv, [Next]_vars PROVE TypeOK'
  <1>0. TypeOK /\ Shapes
    BY DEF Inv
  <1>1. Shapes'
    BY ShapesStep
  <1>2. /\ \A s \in indexMay' : s \in Seq(HeadIds) /\ Len(s) <= MaxHeads
        /\ cachedHeads' \in Seq(HeadIds) /\ Len(cachedHeads') <= MaxHeads
        /\ next' \in Seq(HeadIds) /\ Len(next') <= MaxHeads
    BY <1>1 DEF Shapes, IndexShape
  <1>3. Len(next) \in 0..MaxHeads /\ Len(index) \in 0..MaxHeads
    BY <1>0, LenProperties, HeadsAssumption DEF TypeOK
  <1>4. published > 0 /\ head = published /\ published \in Nat
          => Mpk(head) \in HeadIds \X {"mpk", "json"}
             /\ Json(head) \in HeadIds \X {"mpk", "json"}
    BY <1>0, HeadsAssumption DEF TypeOK, HeadIds, Mpk, Json
  <1> USE HeadsAssumption
  <1> USE DEF TypeOK, Steps, NoHead
  <1>5. CASE LoadCell
    BY <1>0, <1>2, <1>5 DEF LoadCell, diskVars, opVars, ghostVars, bounds
  <1>6. CASE PublishBegin
    BY <1>0, <1>2, <1>6 DEF PublishBegin, diskVars, cacheVars, bounds
  <1>7. CASE Rename
    BY <1>0, <1>2, <1>7, RenameFacts
  <1>8. CASE FsyncWorkspace
    BY <1>0, <1>2, <1>8 DEF FsyncWorkspace, FsyncIndex, FsyncCore, FsyncRepair,
       cacheVars, opVars, ghostVars, bounds
  <1>9. CASE CacheHeads
    BY <1>0, <1>2, <1>9 DEF CacheHeads, diskVars, opVars, ghostVars, bounds
  <1>10. CASE Crash
    <2>1. loaded' \in BOOLEAN
      BY <1>10 DEF Crash
    <2>2. /\ files' \subseteq HeadIds \X {"mpk", "json"}
          /\ durable' \subseteq HeadIds \X {"mpk", "json"}
      <3> HIDE DEF Steps, NoHead
      <3>1. files' \subseteq files \cup durable
        BY <1>10 DEF Crash
      <3>2. durable' = files'
        BY <1>10 DEF Crash
      <3> QED
        BY <1>0, <3>1, <3>2
    <2>3. /\ index' \in indexMay' /\ count' \in countMay'
          /\ countMay' \subseteq 0..MaxHeads
      BY <1>0, <1>10 DEF Crash
    <2> QED
      BY <1>0, <1>2, <1>10, <2>1, <2>2, <2>3 DEF Crash
  <1>11. CASE RenameManifest \/ RenameMpk
    <2>1. head = published /\ published > 0 /\ published \in Nat
      BY <1>0, <1>11 DEF Inv, Publishing, RenameManifest, RenameMpk
    <2> QED
      BY <1>0, <1>2, <1>4, <1>11, <2>1
         DEF RenameManifest, RenameMpk, cacheVars, opVars, ghostVars, bounds
  <1>12. CASE FsyncManifest \/ FsyncHeads \/ FsyncSweep \/ FsyncUnlinks
    BY <1>0, <1>2, <1>12, AckFacts
       DEF FsyncManifest, FsyncHeads, FsyncSweep, FsyncUnlinks,
           cacheVars, opVars, ghostVars, bounds
  <1>13. CASE RenameCore \/ CacheCore \/ Repair
    <2>1. CASE RenameCore
      BY <1>0, <1>2, <1>3, <2>1
         DEF RenameCore, cacheVars, opVars, ghostVars, bounds
    <2>2. CASE CacheCore
      BY <1>0, <1>2, <1>3, <2>2, AckFacts
         DEF CacheCore, diskVars, opVars, ghostVars, bounds
    <2>3. CASE Repair
      <3>1. pc' \in Steps /\ count' \in countMay' /\ countMay' \subseteq 0..MaxHeads
        <4>1. CASE count = Len(index)
          <5>1. pc' = "idle" /\ count' = count /\ countMay' = countMay
            BY <2>3, <4>1 DEF Repair
          <5> QED
            BY <1>0, <5>1
        <4>2. CASE count # Len(index)
          <5>1. count' = Len(index) /\ countMay' = countMay \cup {Len(index)}
            BY <2>3, <4>2 DEF Repair
          <5>2. pc' = "repairSync"
            BY <2>3, <4>2 DEF Repair
          <5> QED
            BY <1>0, <1>3, <5>1, <5>2
        <4> QED
          BY <4>1, <4>2
      <3>2. UNCHANGED <<files, durable, index, indexMay, loaded, cachedHeads,
                        cachedCount, next, head, victim, published, outcome,
                        gone, faults, crashes>>
        BY <2>3 DEF Repair, cacheVars, opVars, ghostVars, bounds
      <3> QED
        BY <1>0, <1>2, <3>1, <3>2
    <2> QED
      BY <1>13, <2>1, <2>2, <2>3
  <1>14. CASE UnlinkMpk \/ UnlinkJson \/ Sweep
    BY <1>0, <1>2, <1>14
       DEF UnlinkMpk, UnlinkJson, Sweep, cacheVars, opVars, ghostVars, bounds
  <1>15. CASE Fail \/ SkipUnlink
    <2>1. /\ pc' \in Steps /\ outcome' \in {"ok", "err", outcome}
          /\ gone' \subseteq 1..published
          /\ faults' \in 0..MaxFaults
      <3>1. faults' \in 0..MaxFaults
        BY <1>0, <1>15 DEF Fail, SkipUnlink
      <3>2. CASE Acknowledge
        BY <1>0, <3>1, <3>2, AckFacts
      <3>3. CASE Fail
        BY <1>0, <3>1, <3>3 DEF Fail
      <3>4. CASE SkipUnlink /\ ~Acknowledge
        BY <1>0, <3>1, <3>4 DEF SkipUnlink, ghostVars
      <3> QED
        BY <1>15, <3>2, <3>3, <3>4
    <2>2. UNCHANGED <<files, durable, index, indexMay, count, countMay, loaded,
                      cachedHeads, cachedCount, next, head, victim, published,
                      crashes>>
      BY <1>15 DEF Fail, SkipUnlink, diskVars, cacheVars, opVars
    <2> QED
      BY <1>0, <1>2, <2>1, <2>2
  <1>16. CASE BootFault
    BY <1>0, <1>2, <1>16 DEF BootFault, cacheVars, opVars
  <1>17. CASE UNCHANGED vars
    BY <1>0, <1>17 DEF vars, diskVars, cacheVars, opVars, ghostVars, bounds
  <1> QED
    BY <1>5, <1>6, <1>7, <1>8, <1>9, <1>10, <1>11, <1>12, <1>13, <1>14, <1>15,
       <1>16, <1>17, StepCases DEF Quiet

\* A head not yet in the index stays fresh.
LEMMA PublishingStep == ASSUME Inv, [Next]_vars PROVE Publishing'
  <1>0. /\ Publishing /\ published \in Nat /\ gone \subseteq 1..published
        /\ Members(cachedHeads) \subseteq 1..published
    BY HeadsAssumption DEF Inv, TypeOK, Shapes, IndexShape
  <1>1. CASE PublishBegin
    BY <1>0, <1>1 DEF PublishBegin, Publishing, cacheVars
  <1>2. CASE LoadCell \/ FsyncWorkspace \/ CacheHeads \/ Crash
    BY <1>2 DEF LoadCell, FsyncWorkspace, FsyncIndex, FsyncCore, FsyncRepair,
                CacheHeads, Crash, Publishing
  <1>3. CASE Rename
    BY <1>3, RenameFacts DEF Publishing
  <1>4. CASE RenameManifest \/ FsyncManifest \/ RenameMpk \/ FsyncHeads
    BY <1>0, <1>4 DEF RenameManifest, FsyncManifest, RenameMpk, FsyncHeads,
                Publishing, cacheVars, opVars, ghostVars
  <1>5. CASE \/ RenameCore \/ CacheCore \/ UnlinkMpk \/ UnlinkJson
             \/ FsyncUnlinks \/ Fail \/ SkipUnlink \/ Sweep \/ FsyncSweep
             \/ Repair \/ BootFault
    BY <1>5 DEF RenameCore, CacheCore, UnlinkMpk, UnlinkJson, FsyncUnlinks,
                Fail, SkipUnlink, Sweep, FsyncSweep, Repair, BootFault,
                Acknowledge, Publishing
  <1>6. CASE UNCHANGED vars
    BY <1>0, <1>6 DEF vars, cacheVars, opVars, ghostVars, Publishing
  <1> QED
    BY <1>1, <1>2, <1>3, <1>4, <1>5, <1>6, StepCases DEF Quiet

\* The files of a head are durable before its index entry is written.
LEMMA StagedStep == ASSUME Inv, [Next]_vars PROVE Staged'
  <1>0. Staged
    BY DEF Inv
  <1>1. CASE RenameManifest \/ FsyncManifest \/ RenameMpk \/ FsyncHeads
    BY <1>0, <1>1 DEF RenameManifest, FsyncManifest, RenameMpk, FsyncHeads,
                Staged, opVars, diskVars
  <1>2. CASE \/ LoadCell \/ PublishBegin \/ FsyncWorkspace \/ CacheHeads
             \/ Crash
    BY <1>2 DEF LoadCell, PublishBegin, FsyncWorkspace, FsyncIndex, FsyncCore,
                FsyncRepair, CacheHeads, Crash, Staged
  <1>3. CASE Rename
    BY <1>3, RenameFacts DEF Staged
  <1>4. CASE \/ RenameCore \/ CacheCore \/ UnlinkMpk \/ UnlinkJson
             \/ FsyncUnlinks \/ Fail \/ SkipUnlink \/ Sweep \/ FsyncSweep
             \/ Repair \/ BootFault
    BY <1>4 DEF RenameCore, CacheCore, UnlinkMpk, UnlinkJson, FsyncUnlinks,
                Fail, SkipUnlink, Sweep, FsyncSweep, Repair, BootFault,
                Acknowledge, Staged
  <1>5. CASE UNCHANGED vars
    BY <1>0, <1>5 DEF vars, diskVars, opVars, Staged
  <1> QED
    BY <1>1, <1>2, <1>3, <1>4, <1>5, StepCases DEF Quiet

\* The commit proceeds from disk to count to cache to unlink.
LEMMA CommittingStep == ASSUME Inv, [Next]_vars PROVE Committing'
  <1>0. Committing /\ index \in indexMay
    BY DEF Inv, TypeOK
  <1> USE DEF Committing, AfterRename, Unlinking
  <1>1. CASE Rename
    BY <1>1, RenameFacts
  <1>2. CASE FsyncWorkspace
    BY <1>0, <1>2 DEF FsyncWorkspace, FsyncIndex, FsyncCore, FsyncRepair,
                opVars, cacheVars
  <1>3. CASE CacheHeads
    BY <1>0, <1>3 DEF CacheHeads, diskVars, opVars
  <1>4. CASE RenameCore
    BY <1>0, <1>4 DEF RenameCore, cacheVars, opVars
  <1>5. CASE CacheCore
    BY <1>0, <1>5 DEF CacheCore, Acknowledge, diskVars, opVars
  <1>6. CASE UnlinkMpk \/ UnlinkJson \/ SkipUnlink
    BY <1>0, <1>6 DEF UnlinkMpk, UnlinkJson, SkipUnlink, Acknowledge,
                diskVars, cacheVars, opVars
  <1>7. CASE \/ LoadCell \/ PublishBegin \/ Crash \/ FsyncUnlinks \/ Fail
             \/ RenameManifest \/ FsyncManifest \/ RenameMpk \/ FsyncHeads
             \/ Sweep \/ FsyncSweep \/ Repair \/ BootFault
    BY <1>7 DEF LoadCell, PublishBegin, Crash, FsyncUnlinks, Fail,
                RenameManifest, FsyncManifest, RenameMpk, FsyncHeads,
                Sweep, FsyncSweep, Repair, BootFault, Acknowledge
  <1>8. CASE UNCHANGED vars
    BY <1>0, <1>8 DEF vars, diskVars, cacheVars, opVars
  <1> QED
    BY <1>1, <1>2, <1>3, <1>4, <1>5, <1>6, <1>7, <1>8, StepCases DEF Quiet

\* A head kept on disk stays kept unless it is unlinked as the victim, swept
\* as an orphan, or a power loss intervenes, which keeps durable files.
LEMMA KeptStep ==
  ASSUME Inv, [Next]_vars, NEW h, Kept(h),
         pc \in Unlinking => h # victim,
         pc = "sweep" => h \in Members(index)
  PROVE  Kept(h)'
  <1>0. Mpk(h) \in files \cap durable /\ Json(h) \in files \cap durable
    BY DEF Kept
  <1>1. Mpk(h)[1] = h /\ Json(h)[1] = h
    BY DEF Mpk, Json
  <1>2. CASE Rename
    BY <1>0, <1>2, RenameFacts DEF Kept
  <1>3. CASE LoadCell \/ PublishBegin \/ FsyncWorkspace \/ CacheHeads
    BY <1>0, <1>3 DEF LoadCell, PublishBegin, FsyncWorkspace, FsyncIndex,
       FsyncCore, FsyncRepair, CacheHeads, diskVars, Kept
  <1>4. CASE Crash
    <2>1. PICK lost \in SUBSET (files \ durable), back \in SUBSET (durable \ files) :
             files' = (files \ lost) \cup back
      BY <1>4 DEF Crash
    <2>2. durable' = files'
      BY <1>4 DEF Crash
    <2> QED
      BY <1>0, <2>1, <2>2 DEF Kept
  <1>5. CASE \/ RenameManifest \/ FsyncManifest \/ RenameMpk \/ FsyncHeads
             \/ RenameCore \/ CacheCore \/ FsyncUnlinks \/ Fail \/ SkipUnlink
             \/ FsyncSweep \/ Repair
    BY <1>0, <1>5 DEF RenameManifest, FsyncManifest, RenameMpk, FsyncHeads,
       RenameCore, CacheCore, FsyncUnlinks, Fail, SkipUnlink, FsyncSweep,
       Repair, diskVars, Kept
  <1>6. CASE UnlinkMpk \/ UnlinkJson
    <2>1. h # victim
      BY <1>6 DEF UnlinkMpk, UnlinkJson, Unlinking
    <2>2. Mpk(h) # Mpk(victim) /\ Json(h) # Json(victim)
          /\ Mpk(h) # Json(victim) /\ Json(h) # Mpk(victim)
      BY <2>1 DEF Mpk, Json
    <2> QED
      BY <1>0, <1>6, <2>2 DEF UnlinkMpk, UnlinkJson, Kept
  <1>7. CASE Sweep \/ BootFault
    <2>1. pc = "sweep" => Mpk(h) \notin Orphans /\ Json(h) \notin Orphans
      BY <1>1 DEF Orphans
    <2>2. durable' = durable /\ (files' = files \/ (pc = "sweep" /\ files \ Orphans \subseteq files'))
      BY <1>7 DEF Sweep, BootFault
    <2> QED
      BY <1>0, <2>1, <2>2 DEF Kept
  <1>8. CASE UNCHANGED vars
    BY <1>0, <1>8 DEF vars, diskVars, Kept
  <1> QED
    BY <1>2, <1>3, <1>4, <1>5, <1>6, <1>7, <1>8, StepCases DEF Quiet

\* Only a rename brings a new index; the cache serves one the disk may hold.
LEMMA NoNewIndex ==
  ASSUME Inv, [Next]_vars, ~Rename
  PROVE  /\ indexMay' \subseteq indexMay
         /\ \/ cachedHeads' \in indexMay
            \/ cachedHeads' = cachedHeads
            \/ cachedHeads' = <<>>
  <1>0. Committing /\ index \in indexMay
    BY DEF Inv, TypeOK
  <1>1. CASE CacheHeads
    <2>1. index = next
      BY <1>0, <1>1 DEF CacheHeads, Committing, AfterRename
    <2> QED
      BY <1>0, <1>1, <2>1 DEF CacheHeads, diskVars
  <1>2. CASE LoadCell \/ PublishBegin \/ FsyncWorkspace \/ Crash
    BY <1>0, <1>2 DEF LoadCell, PublishBegin, FsyncWorkspace, FsyncIndex,
       FsyncCore, FsyncRepair, Crash, cacheVars, diskVars
  <1>3. CASE Quiet
    BY <1>3, QuietFacts
  <1> QED
    BY <1>1, <1>2, <1>3, StepCases

\* No index that may survive, and no cached index, ever dangles.
LEMMA DanglesStep == ASSUME Inv, [Next]_vars PROVE IndexNeverDangles'
  <1>0. IndexNeverDangles /\ Committing /\ Booting /\ index \in indexMay
    BY DEF Inv, TypeOK
  <1>1. Members(<<>>) = {}
    BY EmptyShape
  <1>2. ASSUME NEW s, s \in indexMay \/ s = cachedHeads, NEW h \in Members(s)
        PROVE  Kept(h)'
    <2>1. Kept(h)
      BY <1>0, <1>2 DEF IndexNeverDangles
    <2>2. pc \in Unlinking => h # victim
      BY <1>0, <1>2 DEF Committing, Unlinking, AfterRename
    <2>3. pc = "sweep" => h \in Members(index)
      BY <1>0, <1>1, <1>2 DEF Booting
    <2> QED
      BY <2>1, <2>2, <2>3, KeptStep
  <1>3. CASE Rename
    <2>1. \A h \in Members(next') : Kept(h)'
      BY <1>3, RenameFacts DEF Kept
    <2> QED
      BY <1>2, <1>3, <2>1, RenameFacts DEF IndexNeverDangles
  <1>4. CASE ~Rename
    BY <1>1, <1>2, <1>4, NoNewIndex DEF IndexNeverDangles
  <1> QED
    BY <1>3, <1>4

\* The steps that return Ok.
Acking == (CacheCore \/ FsyncUnlinks \/ SkipUnlink) /\ Acknowledge

\* An operation returns Ok only when disk, count and cache hold its index
\* and the victim is in none of them.
LEMMA AckingFacts ==
  ASSUME Inv, Acking
  PROVE  /\ pc' = "idle" /\ outcome' = "ok"
         /\ gone' \subseteq gone \cup {victim}
         /\ victim \notin Members(next)
         /\ indexMay' = {next} /\ indexMay = {next}
         /\ cachedHeads' = next
         /\ countMay' = {Len(next)} /\ cachedCount' = Len(next)
  <1>0. Committing /\ TypeOK
    BY DEF Inv
  <1>1. /\ pc' = "idle" /\ outcome' = "ok"
        /\ gone' \subseteq gone \cup {victim}
    BY <1>0, AckFacts DEF Acking
  <1>2. CASE CacheCore
    BY <1>0, <1>1, <1>2 DEF CacheCore, Committing, AfterRename, diskVars
  <1>3. CASE FsyncUnlinks
    BY <1>0, <1>1, <1>3 DEF FsyncUnlinks, Committing, AfterRename, Unlinking,
       cacheVars
  <1>4. CASE SkipUnlink
    <2>1. pc \in Unlinking
      BY <1>4 DEF SkipUnlink, Unlinking
    <2> QED
      BY <1>0, <1>1, <1>4, <2>1 DEF SkipUnlink, Committing, AfterRename,
         Unlinking, diskVars, cacheVars
  <1> QED
    BY <1>2, <1>3, <1>4 DEF Acking

\* A step that does not return Ok acknowledges no removal.
LEMMA GoneOnlyByAck ==
  ASSUME [Next]_vars, ~Acking, ~Rename
  PROVE  gone' = gone
  <1>1. CASE LoadCell \/ PublishBegin \/ FsyncWorkspace \/ CacheHeads \/ Crash
    BY <1>1 DEF LoadCell, PublishBegin, FsyncWorkspace, FsyncIndex, FsyncCore,
       FsyncRepair, CacheHeads, Crash, ghostVars
  <1>2. CASE Quiet
    BY <1>2 DEF Quiet, RenameManifest, FsyncManifest, RenameMpk, FsyncHeads,
       RenameCore, CacheCore, UnlinkMpk, UnlinkJson, FsyncUnlinks, Fail,
       SkipUnlink, Sweep, FsyncSweep, Repair, BootFault, Acking, vars, ghostVars
  <1> QED
    BY <1>1, <1>2, StepCases

\* A head that is gone stays out of every index.
LEMMA GoneStep == ASSUME Inv, [Next]_vars PROVE GoneForGood'
  <1>0. GoneForGood
    BY DEF Inv
  <1>1. CASE Rename
    BY <1>0, <1>1, RenameFacts DEF GoneForGood
  <1>2. CASE Acking
    <2>1. \A h \in gone' : h \notin Members(next)
      BY <1>0, <1>2, AckingFacts DEF GoneForGood
    <2> QED
      BY <1>2, <2>1, AckingFacts DEF GoneForGood
  <1>3. CASE ~Rename /\ ~Acking
    <2>1. Members(<<>>) = {}
      BY EmptyShape
    <2> QED
      BY <1>0, <1>3, <2>1, NoNewIndex, GoneOnlyByAck DEF GoneForGood
  <1> QED
    BY <1>1, <1>2, <1>3

\* A step that arrives in, or stays in, the state after an Ok.
LEMMA AckedStep == ASSUME Inv, [Next]_vars PROVE AckedIsDurable'
  <1>0. AckedIsDurable /\ Booting /\ index \in indexMay /\ count \in countMay
    BY DEF Inv, TypeOK
  <1>1. CASE Rename
    BY <1>1, RenameFacts DEF AckedIsDurable
  <1>2. CASE Acking
    BY <1>2, AckingFacts DEF AckedIsDurable
  <1>3. CASE LoadCell
    BY <1>0, <1>3 DEF LoadCell, AckedIsDurable, diskVars, ghostVars
  <1>4. CASE PublishBegin \/ CacheHeads \/ Crash \/ FsyncWorkspace
    BY <1>0, <1>4 DEF PublishBegin, CacheHeads, Crash, FsyncWorkspace,
       FsyncIndex, FsyncCore, FsyncRepair, AckedIsDurable, Booting, ghostVars
  <1>5. CASE Quiet /\ ~Acking
    <2>1. CASE UNCHANGED vars
      BY <1>0, <2>1 DEF vars, diskVars, cacheVars, ghostVars, AckedIsDurable
    <2>2. CASE \/ RenameManifest \/ FsyncManifest \/ RenameMpk \/ FsyncHeads
               \/ RenameCore \/ UnlinkMpk \/ UnlinkJson \/ Fail \/ Sweep
               \/ FsyncSweep \/ BootFault
      BY <2>2 DEF RenameManifest, FsyncManifest, RenameMpk, FsyncHeads,
         RenameCore, UnlinkMpk, UnlinkJson, Fail, Sweep, FsyncSweep, BootFault,
         AckedIsDurable
    <2>3. CASE Repair
      <3>1. outcome' # "ok"
        BY <1>0, <2>3 DEF Repair, Booting, ghostVars
      <3> QED
        BY <3>1 DEF AckedIsDurable
    <2>4. CASE CacheCore \/ FsyncUnlinks \/ SkipUnlink
      <3>1. pc' # "idle"
        BY <1>5, <2>4 DEF CacheCore, FsyncUnlinks, SkipUnlink, Acking
      <3> QED
        BY <3>1 DEF AckedIsDurable
    <2> QED
      BY <1>5, <2>1, <2>2, <2>3, <2>4 DEF Quiet
  <1> QED
    BY <1>1, <1>2, <1>3, <1>4, <1>5, StepCases

BootSteps == {"sweep", "sweepSync", "repair", "repairSync"}

\* Outside the boot only the commit fills the cache, and it has a cell.
LEMMA BootingStep == ASSUME Inv, [Next]_vars PROVE Booting'
  <1>0. Booting /\ Committing
    BY DEF Inv
  <1>1. CASE Rename
    BY <1>0, <1>1, RenameFacts DEF Booting
  <1>2. CASE LoadCell \/ PublishBegin
    BY <1>0, <1>2 DEF LoadCell, PublishBegin, Booting, cacheVars
  <1>3. CASE FsyncWorkspace
    BY <1>0, <1>3 DEF FsyncWorkspace, FsyncIndex, FsyncCore, FsyncRepair,
       Booting, cacheVars
  <1>4. CASE CacheHeads \/ CacheCore
    <2>1. loaded /\ loaded' = loaded /\ pc' \notin BootSteps
      BY <1>0, <1>4 DEF CacheHeads, CacheCore, Committing, AfterRename,
         Acknowledge, BootSteps
    <2> QED
      BY <2>1 DEF Booting, BootSteps
  <1>5. CASE Crash
    BY <1>5 DEF Crash, Booting
  <1>6. CASE \/ RenameManifest \/ FsyncManifest \/ RenameMpk \/ FsyncHeads
             \/ RenameCore \/ UnlinkMpk \/ UnlinkJson \/ FsyncUnlinks \/ Fail
             \/ SkipUnlink
    <2>1. pc' \notin BootSteps /\ UNCHANGED cacheVars
      BY <1>6 DEF RenameManifest, FsyncManifest, RenameMpk, FsyncHeads,
         RenameCore, UnlinkMpk, UnlinkJson, FsyncUnlinks, Fail, SkipUnlink,
         Acknowledge, BootSteps
    <2> QED
      BY <1>0, <2>1 DEF Booting, BootSteps, cacheVars
  <1>7. CASE Sweep
    <2>1. Orphans' = {}
      BY <1>7 DEF Sweep, Orphans
    <2>2. /\ pc = "sweep" /\ pc' \in {"repair", "sweepSync"}
          /\ UNCHANGED <<index, indexMay, count, countMay, loaded, cachedHeads,
                         cachedCount, outcome>>
      BY <1>7 DEF Sweep, cacheVars, ghostVars
    <2> QED
      BY <1>0, <2>1, <2>2 DEF Booting
  <1>8. CASE FsyncSweep
    <2>1. /\ pc = "sweepSync" /\ pc' = "repair" /\ Orphans' = Orphans
          /\ UNCHANGED <<index, indexMay, count, countMay, loaded, cachedHeads,
                         cachedCount, outcome>>
      BY <1>8 DEF FsyncSweep, cacheVars, ghostVars, Orphans
    <2> QED
      BY <1>0, <2>1 DEF Booting
  <1>9. CASE Repair
    <2>1. /\ pc = "repair" /\ Orphans' = Orphans
          /\ UNCHANGED <<index, indexMay, loaded, cachedHeads, cachedCount,
                         outcome>>
      BY <1>9 DEF Repair, cacheVars, ghostVars, Orphans
    <2>2. \/ pc' = "idle"
          \/ pc' = "repairSync" /\ count' = Len(index)
      BY <1>9 DEF Repair
    <2> QED
      BY <1>0, <2>1, <2>2 DEF Booting
  <1>10. CASE BootFault
    <2>1. /\ pc \in BootSteps /\ outcome' = "err"
          /\ pc' \in {"idle", "repair", "sweepSync"}
          /\ pc' # "idle" => pc \in {"sweep", "sweepSync"}
          /\ UNCHANGED <<index, indexMay, count, countMay, loaded, cachedHeads,
                         cachedCount>>
      BY <1>10 DEF BootFault, cacheVars, BootSteps
    <2> QED
      BY <1>0, <2>1 DEF Booting, BootSteps
  <1>11. CASE UNCHANGED vars
    BY <1>0, <1>11 DEF vars, diskVars, cacheVars, ghostVars, Booting, Orphans
  <1> QED
    BY <1>1, <1>2, <1>3, <1>4, <1>5, <1>6, <1>7, <1>8, <1>9, <1>10, <1>11,
       StepCases DEF Quiet

\* A boot without errors ends with no orphan and the right count.
LEMMA BootConvergesStep == ASSUME Inv, [Next]_vars PROVE BootConverges'
  <1>0. BootConverges /\ Booting
    BY DEF Inv
  <1>1. CASE Rename
    BY <1>1, RenameFacts DEF BootConverges
  <1>2. CASE LoadCell
    BY <1>0, <1>2 DEF LoadCell, BootConverges, diskVars, ghostVars, Orphans
  <1>3. CASE FsyncWorkspace
    BY <1>0, <1>3 DEF FsyncWorkspace, FsyncIndex, FsyncCore, FsyncRepair,
       BootConverges, Booting, ghostVars, Orphans
  <1>4. CASE Repair
    <2>1. /\ pc = "repair" /\ Orphans' = Orphans /\ index' = index
          /\ outcome' = outcome
      BY <1>4 DEF Repair, ghostVars, Orphans
    <2>2. pc' = "idle" => count = Len(index) /\ countMay' = countMay
      BY <1>4 DEF Repair
    <2> QED
      BY <1>0, <2>1, <2>2 DEF BootConverges, Booting
  <1>5. CASE UNCHANGED vars
    BY <1>0, <1>5 DEF vars, diskVars, ghostVars, BootConverges, Orphans
  <1>6. CASE CacheCore \/ FsyncUnlinks \/ SkipUnlink
    <2>1. pc' # "idle" \/ outcome' = "ok"
      BY <1>6 DEF CacheCore, FsyncUnlinks, SkipUnlink, Acknowledge
    <2> QED
      BY <2>1 DEF BootConverges
  <1>7. CASE \/ PublishBegin \/ CacheHeads \/ Crash
             \/ RenameManifest \/ FsyncManifest \/ RenameMpk \/ FsyncHeads
             \/ RenameCore \/ UnlinkMpk \/ UnlinkJson \/ Fail \/ Sweep
             \/ FsyncSweep \/ BootFault
    <2>1. pc' # "idle" \/ outcome' = "err"
      BY <1>7 DEF PublishBegin, CacheHeads, Crash, RenameManifest,
         FsyncManifest, RenameMpk, FsyncHeads, RenameCore, UnlinkMpk,
         UnlinkJson, Fail, Sweep, FsyncSweep, BootFault
    <2> QED
      BY <2>1 DEF BootConverges
  <1> QED
    BY <1>1, <1>2, <1>3, <1>4, <1>5, <1>6, <1>7, StepCases DEF Quiet

----------------------------------------------------------------------------
\* Theorems.

\* The invariant is inductive: every step of publish_trained_head,
\* delete_head and the boot sweep, and every fault, preserves it.
THEOREM Invariance == Spec => []Inv
  <1>1. Inv /\ [Next]_vars => Inv'
    BY ShapesStep, TypeStep, PublishingStep, StagedStep, CommittingStep,
       BootingStep, DanglesStep, AckedStep, GoneStep, BootConvergesStep DEF Inv
  <1> QED
    BY InitInv, <1>1, PTL DEF Spec

\* Type correctness; in particular no index ever exceeds the window.
THEOREM TypeCorrect == Spec => []TypeOK
  <1>1. Inv => TypeOK
    BY DEF Inv
  <1> QED
    BY <1>1, Invariance, PTL

\* heads.json never names a head whose files are missing, whatever fails and
\* whenever the power goes.
THEOREM NoDangling == Spec => []IndexNeverDangles
  <1>1. Inv => IndexNeverDangles
    BY DEF Inv
  <1> QED
    BY <1>1, Invariance, PTL

\* A publish or a delete that returned Ok survives a power loss.
THEOREM AckDurable == Spec => []AckedIsDurable
  <1>1. Inv => AckedIsDurable
    BY DEF Inv
  <1> QED
    BY <1>1, Invariance, PTL

\* A deleted or displaced head never comes back.
THEOREM GoneStaysGone == Spec => []GoneForGood
  <1>1. Inv => GoneForGood
    BY DEF Inv
  <1> QED
    BY <1>1, Invariance, PTL

\* recover_one_workspace removes every orphan and repairs the count.
THEOREM BootLeavesNoOrphan == Spec => []BootConverges
  <1>1. Inv => BootConverges
    BY DEF Inv
  <1> QED
    BY <1>1, Invariance, PTL

----------------------------------------------------------------------------
\* Refinement of HeadStore.

\* The window that the index commit computes is the one HeadStore asks for.
LEMMA PrependIsWindow ==
  ASSUME NEW h \in HeadIds, NEW s \in Seq(HeadIds), Len(s) <= MaxHeads
  PROVE  Prepend(h, s) = Store!WindowWith(h, s)
  <1> DEFINE n == IF Len(s) < MaxHeads THEN Len(s) + 1 ELSE MaxHeads
             t == Prepend(h, s)
             u == IF Len(s) < MaxHeads THEN s ELSE SubSeq(s, 1, MaxHeads - 1)
             w == <<h>> \o u
  <1>1. /\ Len(s) \in Nat /\ MaxHeads \in Nat \ {0} /\ n \in Nat /\ n >= 1
        /\ n - 1 <= Len(s)
    BY LenProperties, HeadsAssumption
  <1>2. \A i \in 1..Len(s) : s[i] \in HeadIds
    BY ElementOfSeq
  <1>3. u \in Seq(HeadIds) /\ Len(u) = n - 1 /\ \A i \in 1..(n - 1) : u[i] = s[i]
    <2>1. CASE Len(s) < MaxHeads
      BY <2>1, <1>1
    <2>2. CASE ~(Len(s) < MaxHeads)
      <3>1. Len(s) = MaxHeads /\ n = MaxHeads
        BY <2>2, <1>1
      <3>2. \A i \in 1..(MaxHeads - 1) : s[i] \in HeadIds
        BY <3>1, <1>1, <1>2
      <3>3. 1 \in Int /\ MaxHeads - 1 \in Int
        BY <1>1
      <3> DEFINE v == SubSeq(s, 1, MaxHeads - 1)
      <3>4. /\ v \in Seq(HeadIds)
            /\ Len(v) = IF 1 <= MaxHeads - 1 THEN MaxHeads - 1 - 1 + 1 ELSE 0
            /\ \A i \in 1..(MaxHeads - 1 - 1 + 1) : v[i] = s[1 + i - 1]
        BY <3>2, <3>3, SubSeqProperties
      <3>5. u = v
        BY <2>2
      <3> HIDE DEF v, u
      <3>6. \A i \in 1..(MaxHeads - 1) : v[i] = s[i]
        BY <3>4, <1>1
      <3> QED
        BY <3>1, <3>4, <3>5, <3>6, <1>1
    <2> QED
      BY <2>1, <2>2
  <1>4. t = [i \in 1..n |-> IF i = 1 THEN h ELSE s[i - 1]]
    BY DEF Prepend
  <1>5. Store!WindowWith(h, s) = w
    BY DEF Store!WindowWith
  <1> HIDE DEF n, t, u
  <1>6. <<h>> \in Seq(HeadIds) /\ Len(<<h>>) = 1 /\ <<h>>[1] = h
    OBVIOUS
  <1>7. /\ w \in Seq(HeadIds) /\ Len(w) = 1 + (n - 1)
        /\ \A i \in 1..(1 + (n - 1)) :
              w[i] = IF i <= 1 THEN <<h>>[i] ELSE u[i - 1]
    BY <1>3, <1>6, ConcatProperties
  <1> HIDE DEF w
  <1>8. \A i \in 1..n : t[i] = w[i] /\ t[i] \in HeadIds
    <2> TAKE i \in 1..n
    <2>1. CASE i = 1
      BY <2>1, <1>1, <1>4, <1>6, <1>7
    <2>2. CASE i # 1
      <3>1. i - 1 \in 1..(n - 1) /\ i - 1 \in 1..Len(s) /\ i \in 1..(1 + (n - 1))
        BY <2>2, <1>1
      <3>2. t[i] = s[i - 1] /\ w[i] = u[i - 1]
        BY <2>2, <3>1, <1>1, <1>4, <1>7
      <3> QED
        BY <3>1, <3>2, <1>2, <1>3
    <2> QED
      BY <2>1, <2>2
  <1>9. t \in Seq(HeadIds) /\ Len(t) = n
    <2>1. t \in [1..n -> HeadIds]
      BY <1>4, <1>8
    <2> QED
      BY <2>1, <1>1, FunctionIsSeq
  <1>10. Len(w) = n
    BY <1>1, <1>7
  <1>11. t = w
    BY <1>7, <1>8, <1>9, <1>10, SeqEqual
  <1> QED
    BY <1>5, <1>11 DEF t

\* The index without one entry is the window that HeadStore asks for.
LEMMA WithoutIsWindow ==
  ASSUME NEW s \in Seq(HeadIds), NEW k \in 1..Len(s)
  PROVE  /\ WithoutPosition(s, k) = Store!WindowWithout(k, s)
         /\ Len(WithoutPosition(s, k)) = Len(s) - 1
  <1> DEFINE n == Len(s) - 1
             a == SubSeq(s, 1, k - 1)
             b == SubSeq(s, k + 1, Len(s))
             t == WithoutPosition(s, k)
             w == a \o b
  <1>1. Len(s) \in Nat /\ n \in Nat /\ \A i \in 1..Len(s) : s[i] \in HeadIds
    <2>1. Len(s) \in Nat
      BY LenProperties
    <2> QED
      BY <2>1, ElementOfSeq
  <1>2. a \in Seq(HeadIds) /\ Len(a) = k - 1 /\ \A i \in 1..(k - 1) : a[i] = s[i]
    <2>1. 1 \in Int /\ k - 1 \in Int /\ \A i \in 1..(k - 1) : s[i] \in HeadIds
      BY <1>1
    <2>2. /\ a \in Seq(HeadIds)
          /\ Len(a) = IF 1 <= k - 1 THEN k - 1 - 1 + 1 ELSE 0
          /\ \A i \in 1..(k - 1 - 1 + 1) : a[i] = s[1 + i - 1]
      BY <2>1, SubSeqProperties
    <2> HIDE DEF a
    <2> QED
      BY <1>1, <2>2
  <1>3. /\ b \in Seq(HeadIds) /\ Len(b) = Len(s) - k
        /\ \A i \in 1..(Len(s) - k) : b[i] = s[k + i]
    <2>1. k + 1 \in Int /\ Len(s) \in Int
          /\ \A i \in (k + 1)..Len(s) : s[i] \in HeadIds
      BY <1>1
    <2>2. /\ b \in Seq(HeadIds)
          /\ Len(b) = IF k + 1 <= Len(s) THEN Len(s) - (k + 1) + 1 ELSE 0
          /\ \A i \in 1..(Len(s) - (k + 1) + 1) : b[i] = s[k + 1 + i - 1]
      BY <2>1, SubSeqProperties
    <2> HIDE DEF b
    <2>3. \A i \in 1..(Len(s) - k) : k + 1 + i - 1 = k + i
      BY <1>1
    <2>4. Len(s) - (k + 1) + 1 = Len(s) - k
      BY <1>1
    <2>5. Len(b) = Len(s) - k
      BY <1>1, <2>2
    <2>6. \A i \in 1..(Len(s) - k) : b[i] = s[k + i]
      BY <2>2, <2>3, <2>4, Zenon
    <2> QED
      BY <2>2, <2>5, <2>6
  <1>4. Store!WindowWithout(k, s) = w
    BY DEF Store!WindowWithout
  <1>5. t = [i \in 1..n |-> IF i < k THEN s[i] ELSE s[i + 1]]
    BY DEF WithoutPosition
  <1> HIDE DEF a, b, t
  <1>6. /\ w \in Seq(HeadIds) /\ Len(w) = (k - 1) + (Len(s) - k)
        /\ \A i \in 1..((k - 1) + (Len(s) - k)) :
              w[i] = IF i <= k - 1 THEN a[i] ELSE b[i - (k - 1)]
    <2>1. /\ w \in Seq(HeadIds) /\ Len(w) = Len(a) + Len(b)
          /\ \A i \in 1..(Len(a) + Len(b)) :
                w[i] = IF i <= Len(a) THEN a[i] ELSE b[i - Len(a)]
      BY <1>2, <1>3, ConcatProperties
    <2>2. Len(a) = k - 1 /\ Len(b) = Len(s) - k
      BY <1>2, <1>3
    <2> HIDE DEF w
    <2> QED
      BY <2>1, <2>2, Zenon
  <1>7. (k - 1) + (Len(s) - k) = n
    BY <1>1
  <1> HIDE DEF w, n
  <1>8. \A i \in 1..n : t[i] = w[i] /\ t[i] \in HeadIds
    <2> TAKE i \in 1..n
    <2>1. CASE i < k
      <3>1. i \in 1..(k - 1) /\ i \in 1..Len(s)
        BY <2>1, <1>1
      <3>2. t[i] = s[i] /\ w[i] = a[i]
        <4>1. t[i] = s[i]
          BY <2>1, <1>5
        <4>2. i <= k - 1 /\ i \in 1..((k - 1) + (Len(s) - k))
          BY <3>1, <1>7
        <4>3. w[i] = IF i <= k - 1 THEN a[i] ELSE b[i - (k - 1)]
          BY <4>2, <1>6
        <4> QED
          BY <4>1, <4>2, <4>3
      <3> QED
        BY <3>1, <3>2, <1>1, <1>2
    <2>2. CASE ~(i < k)
      <3>1. /\ i - (k - 1) \in 1..(Len(s) - k) /\ i + 1 \in 1..Len(s)
            /\ k + (i - (k - 1)) = i + 1 /\ ~(i <= k - 1)
        BY <2>2, <1>1 DEF n
      <3>2. t[i] = s[i + 1] /\ w[i] = b[i - (k - 1)]
        BY <2>2, <3>1, <1>5, <1>6, <1>7
      <3> QED
        BY <3>1, <3>2, <1>1, <1>3
    <2> QED
      BY <2>1, <2>2
  <1>9. t \in Seq(HeadIds) /\ Len(t) = n
    <2>1. t \in [1..n -> HeadIds]
      BY <1>5, <1>8
    <2> QED
      BY <2>1, <1>1, FunctionIsSeq
  <1>10. t = w
    BY <1>6, <1>7, <1>8, <1>9, SeqEqual
  <1> QED
    BY <1>4, <1>9, <1>10 DEF t, n

\* A rename of heads.json is an attempt: the window computed from what
\* callers see becomes one that a power loss may leave.
LEMMA RenameRefines ==
  ASSUME Inv, Rename
  PROVE  Store!AttemptPublish \/ Store!AttemptDelete
  <1>0. /\ loaded /\ loaded' /\ Visible = cachedHeads /\ Visible' = cachedHeads
        /\ indexMay' = indexMay \cup {next'}
        /\ Reserved' = {} /\ published' = published /\ gone' = gone
    BY RenameFacts DEF Visible, Reserved
  <1>1. IndexShape(cachedHeads) /\ published \in 0..MaxPublishes
    BY DEF Inv, Shapes, TypeOK
  <1>2. cachedHeads \in Seq(HeadIds) /\ Len(cachedHeads) <= MaxHeads
        /\ Len(cachedHeads) \in Nat
    BY <1>1, LenProperties DEF IndexShape
  <1>3. CASE PublishIndex
    <2>1. /\ pc = "index" /\ head = published /\ published > 0
          /\ head \notin Members(cachedHeads)
          /\ next' = Prepend(head, cachedHeads)
      BY <1>3 DEF PublishIndex, RenameIndex, Inv, Publishing
    <2>2. Reserved = {head} /\ head \in HeadIds
      BY <1>1, <2>1, HeadsAssumption DEF Reserved, HeadIds
    <2>3. next' = Store!WindowWith(head, Visible)
      BY <1>0, <1>2, <2>1, <2>2, PrependIsWindow
    <2>4. next' # Visible
      <3>1. 1 \in 1..Len(next') /\ next'[1] = head
        <4>1. /\ next' = [i \in 1..(IF Len(cachedHeads) < MaxHeads
                                    THEN Len(cachedHeads) + 1 ELSE MaxHeads) |->
                            IF i = 1 THEN head ELSE cachedHeads[i - 1]]
              /\ next' \in Seq(HeadIds) /\ Len(next') \in Nat
          BY <2>1, RenameFacts, LenProperties DEF Prepend, IndexShape
        <4> QED
          BY <4>1, <1>2, HeadsAssumption, LenProperties
      <3>2. head \in Members(next')
        BY <3>1 DEF Members
      <3> QED
        BY <3>2, <2>1, <1>0
    <2>5. indexMay' \ {Visible'} = (indexMay \ {Visible}) \cup {next'}
      BY <1>0, <2>4
    <2> QED
      BY <1>0, <2>2, <2>3, <2>5 DEF Store!AttemptPublish
  <1>4. ASSUME NEW k \in 1..Len(cachedHeads), DeleteIndex(k)
        PROVE  Store!AttemptDelete
    <2>1. next' = WithoutPosition(cachedHeads, k) /\ pc = "idle"
      BY <1>4 DEF DeleteIndex, RenameIndex
    <2>2. /\ next' = Store!WindowWithout(k, Visible)
          /\ Len(next') = Len(cachedHeads) - 1
      BY <1>0, <1>2, <2>1, WithoutIsWindow
    <2>3. next' # Visible
      BY <1>0, <1>2, <2>2
    <2>4. indexMay' \ {Visible'} = (indexMay \ {Visible}) \cup {next'}
      BY <1>0, <2>3
    <2>5. Reserved = {}
      BY <2>1 DEF Reserved
    <2> QED
      BY <1>0, <2>2, <2>4, <2>5 DEF Store!AttemptDelete
  <1> QED
    BY <1>3, <1>4 DEF Rename

\* A step that leaves the indexes and the cached heads alone.
LEMMA SameWindow ==
  ASSUME UNCHANGED <<index, indexMay, cachedHeads, loaded>>
  PROVE  Visible' = Visible /\ (indexMay \ {Visible})' = indexMay \ {Visible}
  BY DEF Visible

\* The steps of a publish before its rename keep its id reserved.
PublishSteps == {"json", "jsonSync", "mpk", "mpkSync", "index"}

\* A quiet step is invisible, gives up the publish in progress, or returns Ok
\* for a removal that is final.
LEMMA QuietRefines ==
  ASSUME Inv, [Next]_vars, Quiet
  PROVE  [Store!Next]_Store!storeVars
  <1>0. /\ UNCHANGED <<published, Visible, indexMay, cachedHeads>>
        /\ (indexMay \ {Visible})' = indexMay \ {Visible}
        /\ (1..published)' = 1..published
    BY QuietFacts, SameWindow
  <1>1. CASE gone' = gone /\ Reserved' = Reserved
    BY <1>0, <1>1 DEF Store!storeVars
  <1>2. CASE gone' = gone /\ Reserved' = {}
    BY <1>0, <1>2 DEF Store!Abandon, Store!Next
  <1>3. CASE gone' # gone
    <2>1. Acking
      <3>1. ~Rename
        BY <1>3, RenameFacts
      <3> QED
        BY <1>3, <3>1, GoneOnlyByAck
    <2>2. /\ pc \in {"cacheCore"} \cup Unlinking /\ victim # NoHead
          /\ gone' = gone \cup {victim} /\ pc' = "idle"
      BY <1>3, <2>1 DEF Acking, Acknowledge, CacheCore, FsyncUnlinks, SkipUnlink,
         Unlinking
    <2>3. /\ loaded /\ cachedHeads = next /\ indexMay = {next}
          /\ victim \notin Members(next) /\ victim \in 0..published
      BY <2>2 DEF Inv, Committing, AfterRename, Unlinking, TypeOK
    <2>4. Reserved = {} /\ Reserved' = {}
      BY <2>2 DEF Reserved, Unlinking
    <2>5. Visible = next /\ indexMay \ {Visible} = {}
      BY <2>3 DEF Visible
    <2>6. victim \in 1..published
      BY <2>2, <2>3 DEF NoHead, Inv, TypeOK
    <2>7. Store!Named(Visible) = Members(next)
      BY <2>5 DEF Store!Named, Members
    <2> QED
      BY <1>0, <2>2, <2>3, <2>4, <2>5, <2>6, <2>7 DEF Store!Retire, Store!Next
  <1>4. Reserved' = Reserved \/ Reserved' = {}
    <2>1. CASE RenameManifest \/ FsyncManifest \/ RenameMpk \/ FsyncHeads
      BY <2>1 DEF RenameManifest, FsyncManifest, RenameMpk, FsyncHeads, opVars,
         Reserved
    <2>2. CASE UNCHANGED vars
      BY <2>2 DEF vars, opVars, Reserved
    <2>3. CASE \/ RenameCore \/ CacheCore \/ UnlinkMpk \/ UnlinkJson
               \/ FsyncUnlinks \/ Fail \/ SkipUnlink \/ Sweep \/ FsyncSweep
               \/ Repair \/ BootFault
      <3>1. pc' \notin PublishSteps
        BY <2>3 DEF RenameCore, CacheCore, UnlinkMpk, UnlinkJson, FsyncUnlinks,
           Fail, SkipUnlink, Sweep, FsyncSweep, Repair, BootFault, Acknowledge,
           PublishSteps
      <3> QED
        BY <3>1 DEF Reserved, PublishSteps
    <2> QED
      BY <2>1, <2>2, <2>3 DEF Quiet
  <1> QED
    BY <1>1, <1>2, <1>3, <1>4

\* Every step of the implementation is a step of HeadStore or changes nothing
\* that HeadStore speaks of.
LEMMA StepRefines ==
  ASSUME Inv, [Next]_vars
  PROVE  [Store!Next]_Store!storeVars
  <1>0. TypeOK /\ Publishing /\ Committing /\ Booting
    BY DEF Inv
  <1>1. CASE LoadCell
    <2>1. /\ Visible' = Visible /\ indexMay' = indexMay
          /\ Reserved' = Reserved /\ gone' = gone /\ published' = published
      BY <1>1 DEF LoadCell, Visible, Reserved, diskVars, opVars, ghostVars
    <2> QED
      BY <2>1 DEF Store!storeVars
  <1>2. CASE PublishBegin
    <2>1. /\ Visible' = Visible /\ indexMay' = indexMay /\ gone' = gone
          /\ Reserved' = {published + 1} /\ published' = published + 1
      BY <1>2 DEF PublishBegin, Visible, Reserved, diskVars, cacheVars
    <2>2. /\ published + 1 \notin 1..published
          /\ 1..(published + 1) = (1..published) \cup {published + 1}
      BY <1>0 DEF TypeOK
    <2>3. Store!Reserve
      BY <2>1, <2>2 DEF Store!Reserve
    <2> QED
      BY <2>3 DEF Store!Next
  <1>3. CASE Rename
    BY <1>3, RenameRefines DEF Store!Next
  <1>4. CASE FsyncWorkspace
    <2>1. /\ Visible' = Visible /\ indexMay' = {index} /\ gone' = gone
          /\ published' = published /\ Reserved = {} /\ Reserved' = {}
      BY <1>4 DEF FsyncWorkspace, FsyncIndex, FsyncCore, FsyncRepair, Visible,
         Reserved, cacheVars, opVars, ghostVars
    <2>2. index \in indexMay
      BY <1>0 DEF TypeOK
    <2>3. indexMay' \ {Visible'} \in SUBSET (indexMay \ {Visible})
      BY <2>1, <2>2
    <2> QED
      BY <2>1, <2>3 DEF Store!RuleOut, Store!Next
  <1>5. CASE CacheHeads
    <2>1. /\ indexMay = {next} /\ indexMay' = {next} /\ loaded
      BY <1>0, <1>5 DEF CacheHeads, Committing, AfterRename, diskVars
    <2>2. /\ Visible' = next /\ gone' = gone /\ published' = published
          /\ Reserved = {} /\ Reserved' = {}
      BY <1>5, <2>1 DEF CacheHeads, Visible, Reserved, opVars, ghostVars
    <2>3. CASE Visible = next
      BY <2>1, <2>2, <2>3 DEF Store!storeVars
    <2>4. CASE Visible # next
      <3>1. indexMay \ {Visible} = {next} /\ indexMay' \ {Visible'} = {}
        BY <2>1, <2>2, <2>4
      <3> QED
        BY <2>2, <3>1 DEF Store!CommitOne, Store!Next
    <2> QED
      BY <2>3, <2>4
  <1>6. CASE Crash
    <2>1. /\ Visible' = index' /\ index' \in indexMay /\ indexMay' = {index'}
          /\ gone' = gone /\ published' = published /\ Reserved' = {}
      BY <1>6 DEF Crash, Visible, Reserved
    <2>2. /\ Visible' \in {Visible} \cup (indexMay \ {Visible})
          /\ indexMay' \ {Visible'} = {}
      BY <2>1
    <2> QED
      BY <2>1, <2>2 DEF Store!PowerLoss, Store!Next
  <1>7. CASE Quiet
    BY <1>7, QuietRefines
  <1> QED
    BY <1>1, <1>2, <1>3, <1>4, <1>5, <1>6, <1>7, StepCases

\* A fresh workspace is an empty store.
LEMMA InitRefines == Init => Store!Init
  <1> SUFFICES ASSUME Init PROVE Store!Init
    OBVIOUS
  <1>1. /\ Visible = <<>> /\ indexMay = {<<>>} /\ Reserved = {} /\ gone = {}
        /\ 1..published = {}
    BY DEF Init, Visible, Reserved
  <1> QED
    BY <1>1 DEF Store!Init

\* publish_trained_head, delete_head and the boot sweep implement HeadStore,
\* for every window size and whatever fails: callers see an atomic window of
\* heads whose commits and acknowledged removals survive.
THEOREM RefinesHeadStore == Spec => ImplementsHeadStore
  <1>1. Inv /\ [Next]_vars => [Store!Next]_Store!storeVars
    BY StepRefines
  <1> QED
    BY InitRefines, Invariance, <1>1, PTL DEF Spec, ImplementsHeadStore, Store!Spec

============================================================================
