----------------------------- MODULE HeadProofs -----------------------------
(***************************************************************************)
(* Proofs about the two modules that bring a head into service.            *)
(*   - ActiveHead, for every number of readers, activations, faults, power  *)
(*     losses and damaged generations.                                      *)
(*   - HeadPipeline, for every source that InputsAssumption admits, whatever*)
(*     the number and sizes of its shards, tensors, classes and samples.    *)
(***************************************************************************)
EXTENDS ActiveHead, HeadPipeline, SequenceTheorems, FiniteSetTheorems,
        WellFoundedInduction, TLAPS

----------------------------------------------------------------------------
\* ActiveHead.

Publishing == {"rename", "gensSync", "pointer"}
Flipped == {"pointerSync", "activeSync", "install", "prune"}

\* The boot has not handed over to the server yet.
InBoot == pc \in {"boot", "promoteSync", "resolve"} \/ (booting /\ pc # "idle")

\* An activation names a generation that nothing refers to, renames and
\* settles it, and only then makes current.json name it.
PublishOk ==
    /\ \A g \in Ids : g > started => genMay[g] = {"absent"}
    /\ pc \in Publishing =>
          /\ cur = started /\ cur \in Ids /\ cur \notin pointerMay
          /\ booting \/ prev = pointer
    /\ pc \in {"gensSync", "pointer", "pointerSync", "activeSync"} =>
          gen[cur] = "intact" \/ cur \in lately
    /\ pc = "pointer" => cur \in rotted \/ genMay[cur] = {"intact"}
    /\ pc \in Flipped => pointer = cur /\ cur \in Ids
    /\ pc \in {"install", "prune"} => pointerMay = {pointer}
    /\ pc = "prune" => runtime = cur

\* The boot starts from a settled disk; what it promotes or publishes was
\* verified and is durable when it is resolved; no request is served yet.
BootOk ==
    /\ pc = "boot" =>
          pointerMay = {pointer} /\ \A g \in Ids : genMay[g] = {gen[g]}
    /\ pc \in {"promoteSync", "resolve"} =>
          pointer \in Ids /\ (gen[pointer] = "intact" \/ pointer \in lately)
    /\ pc = "resolve" => pointerMay = {pointer}
    /\ InBoot => outcome = "booted" /\ \A r \in Readers : got[r] = None

\* A reader that no write has overtaken holds the pointer; one that the
\* running activation overtook holds the generation the prune will keep.
ReadersOk ==
    \A r \in Readers : got[r] # None =>
        /\ since[r] = 0 => got[r] = pointer
        /\ since[r] = 1 /\ pc \in Flipped => got[r] = prev

\* The inductive invariant.
Inv ==
    /\ TypeOK
    /\ PublishOk
    /\ BootOk
    /\ ReadersOk
    /\ PointerNeverDangles
    /\ GetSurvivesOneActivation
    /\ ServesWhatIsNamed

\* A first boot satisfies it.
LEMMA InitInv == Init => Inv
  <1> SUFFICES ASSUME Init PROVE Inv
    OBVIOUS
  <1>1. TypeOK
    <2>1. 0 \in 0..0 /\ 0 \in 0..MaxActivations /\ 0 \in 0..MaxFaults
          /\ 0 \in 0..MaxCrashes /\ 0 \in Nat
      BY ActiveAssumption
    <2> QED
      BY <2>1 DEF Init, TypeOK, Steps, None, Dir
  <1>2. PublishOk /\ ReadersOk
    BY DEF Init, PublishOk, ReadersOk, Publishing, Flipped, None
  <1>3. BootOk
    BY DEF Init, BootOk, InBoot, None
  <1>4. PointerNeverDangles /\ GetSurvivesOneActivation /\ ServesWhatIsNamed
    BY DEF Init, PointerNeverDangles, GetSurvivesOneActivation, ServesWhatIsNamed, None
  <1> QED
    BY <1>1, <1>2, <1>3, <1>4 DEF Inv

\* Every step keeps the types.
LEMMA TypeStep == Inv /\ [Next]_vars => TypeOK'
  <1> SUFFICES ASSUME Inv, [Next]_vars PROVE TypeOK'
    OBVIOUS
  <1> USE ActiveAssumption
      DEF Inv, TypeOK, PublishOk, Steps, Ids, Dir, None, opVars, readVars,
          rotVars, bounds
  <1>1. CASE PostActive
    <2>1. /\ started + 1 \in 0..MaxActivations /\ 0..started \subseteq 0..(started + 1)
          /\ started + 1 \in 0..(started + 1)
      BY <1>1 DEF PostActive, Start
    <2>2. /\ started' = started + 1 /\ cur' = started + 1 /\ booting' = FALSE
          /\ prev' = pointer /\ outcome' = "none" /\ pc' = "rename"
          /\ UNCHANGED <<pointer, pointerMay, gen, genMay, runtime, readVars,
                         rotVars, bounds>>
      BY <1>1 DEF PostActive, Start
    <2> QED
      BY <2>1, <2>2
  <1>2. CASE RenameGeneration
    BY <1>2 DEF RenameGeneration
  <1>3. CASE FsyncGenerations
    BY <1>3 DEF FsyncGenerations, Settled
  <1>4. CASE FlipPointer
    BY <1>4 DEF FlipPointer, WritePointer
  <1>5. CASE FsyncPointer
    BY <1>5 DEF FsyncPointer
  <1>6. CASE FsyncActive
    BY <1>6 DEF FsyncActive
  <1>7. CASE Install
    BY <1>7 DEF Install
  <1>8. ASSUME NEW g \in Ids, PruneContents(g) \/ PruneDirectory(g) PROVE TypeOK'
    <2>1. PICK d \in {"damaged", "absent"} :
            /\ gen' = [gen EXCEPT ![g] = d]
            /\ genMay' = [genMay EXCEPT ![g] = @ \cup {d}]
            /\ UNCHANGED <<pc, opVars, pointer, pointerMay, runtime, readVars,
                           outcome, rotVars, bounds>>
      BY <1>8 DEF PruneContents, PruneDirectory
    <2> QED
      BY <2>1
  <1>9. CASE PruneDone
    BY <1>9 DEF PruneDone, Settled, Prunable, Keep
  <1>10. CASE Fail \/ PruneFails
    <2>1. faults' \in 0..MaxFaults /\ outcome' \in {"err", "ok"} /\ pc' = "idle"
      BY <1>10 DEF Fail, PruneFails
    <2>2. UNCHANGED <<opVars, pointer, pointerMay, gen, genMay, runtime, readVars,
                      rotVars, crashes>>
      BY <1>10 DEF Fail, PruneFails
    <2> QED
      BY <2>1, <2>2
  <1>11. ASSUME NEW g \in Ids, Rot(g) PROVE TypeOK'
    BY <1>11 DEF Rot
  <1>12. CASE Crash
    <2>1. /\ crashes' \in 0..MaxCrashes /\ pc' = "boot" /\ outcome' = "booted"
          /\ runtime' = None /\ lately' = {} /\ booting' = FALSE
          /\ cur' = None /\ prev' = None
          /\ UNCHANGED <<started, rotted, faults>>
      BY <1>12 DEF Crash
    <2>2. /\ gen' \in [Ids -> Dir] /\ genMay' = [g \in Ids |-> {gen'[g]}]
      BY <1>12 DEF Crash
    <2>3. genMay' \in [Ids -> SUBSET Dir] /\ \A g \in Ids : gen'[g] \in genMay'[g]
      BY <2>2
    <2>4. pointer' \in 0..started /\ pointerMay' = {pointer'}
      BY <1>12 DEF Crash
    <2>5. 0 \in 0..started /\ {} \subseteq rotted
      OBVIOUS
    <2>6. got' \in [Readers -> 0..started] /\ since' \in [Readers -> Nat]
      BY <1>12, <2>5 DEF Crash
    <2> QED
      BY <2>1, <2>2, <2>3, <2>4, <2>5, <2>6
  <1>13. CASE BootCurrent
    BY <1>13 DEF BootCurrent, Intact
  <1>14. ASSUME NEW g \in Ids, BootPromote(g) PROVE TypeOK'
    <2>1. g \in 0..started
      BY <1>14 DEF BootPromote, Candidates
    <2> QED
      BY <1>14, <2>1 DEF BootPromote, WritePointer
  <1>15. CASE FsyncPromoted
    BY <1>15 DEF FsyncPromoted
  <1>16. CASE BootDefault
    BY <1>16 DEF BootDefault, Start, NothingToPromote, Intact, Candidates
  <1>17. CASE BootWithoutHead
    BY <1>17 DEF BootWithoutHead, NothingToPromote, Intact, Candidates
  <1>18. ASSUME NEW g \in Ids, BootResolve(g) PROVE TypeOK'
    <2>1. g \in 0..started
      BY <1>18 DEF BootResolve, Resolved, Candidates
    <2> QED
      BY <1>18, <2>1 DEF BootResolve
  <1>19. CASE BootUnresolved
    BY <1>19 DEF BootUnresolved, Resolved, Intact, Candidates
  <1>20. CASE BootFault
    <2>1. faults' \in 0..MaxFaults /\ outcome' = "err" /\ pc' = "idle"
      BY <1>20 DEF BootFault
    <2>2. UNCHANGED <<opVars, pointer, pointerMay, gen, genMay, runtime, readVars,
                      rotVars, crashes>>
      BY <1>20 DEF BootFault
    <2> QED
      BY <2>1, <2>2
  <1>21. ASSUME NEW r \in Readers, ReadPointer(r) \/ ReadManifest(r) PROVE TypeOK'
    <2>1. got' \in [Readers -> 0..started]
      BY <1>21 DEF ReadPointer, ReadManifest
    <2>2. since' \in [Readers -> Nat]
      <3>1. since' = [since EXCEPT ![r] = 0] \/ since' = since
        BY <1>21 DEF ReadPointer, ReadManifest
      <3> QED
        BY <3>1, SMTT(30)
    <2>3. UNCHANGED <<pc, opVars, pointer, pointerMay, gen, genMay, runtime,
                      outcome, rotVars, bounds>>
      BY <1>21 DEF ReadPointer, ReadManifest
    <2> QED
      BY <2>1, <2>2, <2>3
  <1>22. CASE UNCHANGED vars
    BY <1>22 DEF vars
  <1> QED
    BY <1>1, <1>2, <1>3, <1>4, <1>5, <1>6, <1>7, <1>8, <1>9, <1>10, <1>11,
       <1>12, <1>13, <1>14, <1>15, <1>16, <1>17, <1>18, <1>19,
       <1>20, <1>21, <1>22
       DEF Next, Publish, Prune, Boot

\* Every step keeps the order of publication.
LEMMA PublishStep == Inv /\ [Next]_vars => PublishOk'
  <1> SUFFICES ASSUME Inv, [Next]_vars PROVE PublishOk'
    OBVIOUS
  <1> USE ActiveAssumption
      DEF Inv, TypeOK, PublishOk, Publishing, Flipped, Ids, opVars, readVars,
          rotVars, bounds
  <1>1. CASE PostActive
    BY <1>1 DEF PostActive, Start
  <1>2. CASE RenameGeneration
    BY <1>2 DEF RenameGeneration
  <1>3. CASE FsyncGenerations
    BY <1>3 DEF FsyncGenerations, Settled
  <1>4. CASE FlipPointer
    BY <1>4 DEF FlipPointer, WritePointer
  <1>5. CASE FsyncPointer
    BY <1>5 DEF FsyncPointer
  <1>6. CASE FsyncActive
    BY <1>6 DEF FsyncActive
  <1>7. CASE Install
    BY <1>7 DEF Install
  <1>8. ASSUME NEW g \in Ids, PruneContents(g) \/ PruneDirectory(g) PROVE PublishOk'
    BY <1>8 DEF PruneContents, PruneDirectory, Prunable, Keep
  <1>9. CASE PruneDone
    BY <1>9 DEF PruneDone, Settled, Prunable, Keep
  <1>10. CASE Fail \/ PruneFails
    BY <1>10 DEF Fail, PruneFails
  <1>11. ASSUME NEW g \in Ids, Rot(g) PROVE PublishOk'
    BY <1>11 DEF Rot
  <1>12. CASE Crash
    BY <1>12 DEF Crash
  <1>13. CASE BootCurrent
    BY <1>13 DEF BootCurrent, Intact
  <1>14. ASSUME NEW g \in Ids, BootPromote(g) PROVE PublishOk'
    BY <1>14 DEF BootPromote, WritePointer, Candidates, Intact
  <1>15. CASE FsyncPromoted
    BY <1>15 DEF FsyncPromoted
  <1>16. CASE BootDefault
    BY <1>16 DEF BootDefault, Start, NothingToPromote, Intact, Candidates
  <1>17. CASE BootWithoutHead
    BY <1>17 DEF BootWithoutHead, NothingToPromote, Intact, Candidates
  <1>18. ASSUME NEW g \in Ids, BootResolve(g) PROVE PublishOk'
    BY <1>18 DEF BootResolve, Resolved, Intact, Candidates
  <1>19. CASE BootUnresolved
    BY <1>19 DEF BootUnresolved, Resolved, Intact, Candidates
  <1>20. CASE BootFault
    BY <1>20 DEF BootFault
  <1>21. ASSUME NEW r \in Readers, ReadPointer(r) \/ ReadManifest(r) PROVE PublishOk'
    BY <1>21, SMTT(30) DEF ReadPointer, ReadManifest
  <1>22. CASE UNCHANGED vars
    BY <1>22 DEF vars
  <1> QED
    BY <1>1, <1>2, <1>3, <1>4, <1>5, <1>6, <1>7, <1>8, <1>9, <1>10, <1>11,
       <1>12, <1>13, <1>14, <1>15, <1>16, <1>17, <1>18, <1>19,
       <1>20, <1>21, <1>22
       DEF Next, Publish, Prune, Boot

\* Every step keeps what the boot relies on.
LEMMA BootStep == Inv /\ [Next]_vars => BootOk'
  <1> SUFFICES ASSUME Inv, [Next]_vars PROVE BootOk'
    OBVIOUS
  <1> USE ActiveAssumption
      DEF Inv, TypeOK, BootOk, InBoot, PublishOk, Publishing, Flipped, Ids,
          None, opVars, readVars, rotVars, bounds
  <1>1. CASE PostActive
    BY <1>1 DEF PostActive, Start
  <1>2. CASE RenameGeneration
    BY <1>2 DEF RenameGeneration
  <1>3. CASE FsyncGenerations
    BY <1>3 DEF FsyncGenerations, Settled
  <1>4. CASE FlipPointer
    BY <1>4 DEF FlipPointer, WritePointer
  <1>5. CASE FsyncPointer
    BY <1>5 DEF FsyncPointer
  <1>6. CASE FsyncActive
    BY <1>6 DEF FsyncActive
  <1>7. CASE Install
    BY <1>7 DEF Install
  <1>8. ASSUME NEW g \in Ids, PruneContents(g) \/ PruneDirectory(g) PROVE BootOk'
    BY <1>8 DEF PruneContents, PruneDirectory, Prunable, Keep
  <1>9. CASE PruneDone
    BY <1>9 DEF PruneDone, Settled, Prunable, Keep
  <1>10. CASE Fail \/ PruneFails
    BY <1>10 DEF Fail, PruneFails
  <1>11. ASSUME NEW g \in Ids, Rot(g) PROVE BootOk'
    BY <1>11 DEF Rot
  <1>12. CASE Crash
    BY <1>12 DEF Crash
  <1>13. CASE BootCurrent
    BY <1>13 DEF BootCurrent, Intact
  <1>14. ASSUME NEW g \in Ids, BootPromote(g) PROVE BootOk'
    BY <1>14 DEF BootPromote, WritePointer, Candidates, Intact
  <1>15. CASE FsyncPromoted
    BY <1>15 DEF FsyncPromoted
  <1>16. CASE BootDefault
    BY <1>16 DEF BootDefault, Start, NothingToPromote, Intact, Candidates
  <1>17. CASE BootWithoutHead
    BY <1>17 DEF BootWithoutHead, NothingToPromote, Intact, Candidates
  <1>18. ASSUME NEW g \in Ids, BootResolve(g) PROVE BootOk'
    BY <1>18 DEF BootResolve, Resolved, Intact, Candidates
  <1>19. CASE BootUnresolved
    BY <1>19 DEF BootUnresolved, Resolved, Intact, Candidates
  <1>20. CASE BootFault
    BY <1>20 DEF BootFault
  <1>21. ASSUME NEW r \in Readers, ReadPointer(r) \/ ReadManifest(r) PROVE BootOk'
    BY <1>21 DEF ReadPointer, ReadManifest
  <1>22. CASE UNCHANGED vars
    BY <1>22 DEF vars
  <1> QED
    BY <1>1, <1>2, <1>3, <1>4, <1>5, <1>6, <1>7, <1>8, <1>9, <1>10, <1>11,
       <1>12, <1>13, <1>14, <1>15, <1>16, <1>17, <1>18, <1>19,
       <1>20, <1>21, <1>22
       DEF Next, Publish, Prune, Boot

\* Every step keeps track of what the readers hold.
LEMMA ReadersStep == Inv /\ [Next]_vars => ReadersOk'
  <1> SUFFICES ASSUME Inv, [Next]_vars PROVE ReadersOk'
    OBVIOUS
  <1> USE ActiveAssumption
      DEF Inv, TypeOK, ReadersOk, PublishOk, BootOk, InBoot, Publishing,
          Flipped, None, opVars, readVars, rotVars, bounds
  <1>1. CASE PostActive
    BY <1>1 DEF PostActive, Start
  <1>2. CASE RenameGeneration
    BY <1>2 DEF RenameGeneration
  <1>3. CASE FsyncGenerations
    BY <1>3 DEF FsyncGenerations, Settled
  <1>4. CASE FlipPointer
    BY <1>4 DEF FlipPointer, WritePointer
  <1>5. CASE FsyncPointer
    BY <1>5 DEF FsyncPointer
  <1>6. CASE FsyncActive
    BY <1>6 DEF FsyncActive
  <1>7. CASE Install
    BY <1>7 DEF Install
  <1>8. ASSUME NEW g \in Ids, PruneContents(g) \/ PruneDirectory(g) PROVE ReadersOk'
    BY <1>8 DEF PruneContents, PruneDirectory, Prunable, Keep
  <1>9. CASE PruneDone
    BY <1>9 DEF PruneDone, Settled, Prunable, Keep
  <1>10. CASE Fail \/ PruneFails
    BY <1>10 DEF Fail, PruneFails
  <1>11. ASSUME NEW g \in Ids, Rot(g) PROVE ReadersOk'
    BY <1>11 DEF Rot
  <1>12. CASE Crash
    BY <1>12 DEF Crash
  <1>13. CASE BootCurrent
    BY <1>13 DEF BootCurrent, Intact
  <1>14. ASSUME NEW g \in Ids, BootPromote(g) PROVE ReadersOk'
    BY <1>14 DEF BootPromote, WritePointer, Candidates, Intact
  <1>15. CASE FsyncPromoted
    BY <1>15 DEF FsyncPromoted
  <1>16. CASE BootDefault
    BY <1>16 DEF BootDefault, Start, NothingToPromote, Intact, Candidates
  <1>17. CASE BootWithoutHead
    BY <1>17 DEF BootWithoutHead, NothingToPromote, Intact, Candidates
  <1>18. ASSUME NEW g \in Ids, BootResolve(g) PROVE ReadersOk'
    BY <1>18 DEF BootResolve, Resolved, Intact, Candidates
  <1>19. CASE BootUnresolved
    BY <1>19 DEF BootUnresolved, Resolved, Intact, Candidates
  <1>20. CASE BootFault
    BY <1>20 DEF BootFault
  <1>21. ASSUME NEW r \in Readers, ReadPointer(r) \/ ReadManifest(r) PROVE ReadersOk'
    BY <1>21 DEF ReadPointer, ReadManifest
  <1>22. CASE UNCHANGED vars
    BY <1>22 DEF vars
  <1> QED
    BY <1>1, <1>2, <1>3, <1>4, <1>5, <1>6, <1>7, <1>8, <1>9, <1>10, <1>11,
       <1>12, <1>13, <1>14, <1>15, <1>16, <1>17, <1>18, <1>19,
       <1>20, <1>21, <1>22
       DEF Next, Publish, Prune, Boot

\* No step leaves the pointer at a generation that a power loss may take.
LEMMA DangleStep == Inv /\ [Next]_vars => PointerNeverDangles'
  <1> SUFFICES ASSUME Inv, [Next]_vars PROVE PointerNeverDangles'
    OBVIOUS
  <1> USE ActiveAssumption
      DEF Inv, TypeOK, PointerNeverDangles, PublishOk, BootOk, Publishing,
          Flipped, Ids, None, Dir, opVars, readVars, rotVars, bounds
  <1>1. CASE PostActive
    BY <1>1 DEF PostActive, Start
  <1>2. CASE RenameGeneration
    BY <1>2 DEF RenameGeneration
  <1>3. CASE FsyncGenerations
    BY <1>3 DEF FsyncGenerations, Settled
  <1>4. CASE FlipPointer
    BY <1>4 DEF FlipPointer, WritePointer
  <1>5. CASE FsyncPointer
    BY <1>5 DEF FsyncPointer
  <1>6. CASE FsyncActive
    BY <1>6 DEF FsyncActive
  <1>7. CASE Install
    BY <1>7 DEF Install
  <1>8. ASSUME NEW g \in Ids, PruneContents(g) \/ PruneDirectory(g) PROVE PointerNeverDangles'
    BY <1>8 DEF PruneContents, PruneDirectory, Prunable, Keep
  <1>9. CASE PruneDone
    BY <1>9 DEF PruneDone, Settled, Prunable, Keep
  <1>10. CASE Fail \/ PruneFails
    BY <1>10 DEF Fail, PruneFails
  <1>11. ASSUME NEW g \in Ids, Rot(g) PROVE PointerNeverDangles'
    BY <1>11 DEF Rot
  <1>12. CASE Crash
    BY <1>12 DEF Crash
  <1>13. CASE BootCurrent
    BY <1>13 DEF BootCurrent, Intact
  <1>14. ASSUME NEW g \in Ids, BootPromote(g) PROVE PointerNeverDangles'
    BY <1>14 DEF BootPromote, WritePointer, Candidates, Intact
  <1>15. CASE FsyncPromoted
    BY <1>15 DEF FsyncPromoted
  <1>16. CASE BootDefault
    BY <1>16 DEF BootDefault, Start, NothingToPromote, Intact, Candidates
  <1>17. CASE BootWithoutHead
    BY <1>17 DEF BootWithoutHead, NothingToPromote, Intact, Candidates
  <1>18. ASSUME NEW g \in Ids, BootResolve(g) PROVE PointerNeverDangles'
    BY <1>18 DEF BootResolve, Resolved, Intact, Candidates
  <1>19. CASE BootUnresolved
    BY <1>19 DEF BootUnresolved, Resolved, Intact, Candidates
  <1>20. CASE BootFault
    BY <1>20 DEF BootFault
  <1>21. ASSUME NEW r \in Readers, ReadPointer(r) \/ ReadManifest(r) PROVE PointerNeverDangles'
    BY <1>21 DEF ReadPointer, ReadManifest
  <1>22. CASE UNCHANGED vars
    BY <1>22 DEF vars
  <1> QED
    BY <1>1, <1>2, <1>3, <1>4, <1>5, <1>6, <1>7, <1>8, <1>9, <1>10, <1>11,
       <1>12, <1>13, <1>14, <1>15, <1>16, <1>17, <1>18, <1>19,
       <1>20, <1>21, <1>22
       DEF Next, Publish, Prune, Boot

\* No step takes a generation from a reader that one activation overtook.
LEMMA GetStep == Inv /\ [Next]_vars => GetSurvivesOneActivation'
  <1> SUFFICES ASSUME Inv, [Next]_vars PROVE GetSurvivesOneActivation'
    OBVIOUS
  <1> USE ActiveAssumption
      DEF Inv, TypeOK, GetSurvivesOneActivation, PointerNeverDangles,
          ReadersOk, PublishOk, BootOk, InBoot, Publishing, Flipped,
          Ids, None, opVars, readVars, rotVars, bounds
  <1>1. CASE PostActive
    BY <1>1 DEF PostActive, Start
  <1>2. CASE RenameGeneration
    BY <1>2 DEF RenameGeneration
  <1>3. CASE FsyncGenerations
    BY <1>3 DEF FsyncGenerations, Settled
  <1>4. CASE FlipPointer
    BY <1>4 DEF FlipPointer, WritePointer
  <1>5. CASE FsyncPointer
    BY <1>5 DEF FsyncPointer
  <1>6. CASE FsyncActive
    BY <1>6 DEF FsyncActive
  <1>7. CASE Install
    BY <1>7 DEF Install
  <1>8. ASSUME NEW g \in Ids, PruneContents(g) \/ PruneDirectory(g) PROVE GetSurvivesOneActivation'
    BY <1>8 DEF PruneContents, PruneDirectory, Prunable, Keep
  <1>9. CASE PruneDone
    BY <1>9 DEF PruneDone, Settled, Prunable, Keep
  <1>10. CASE Fail \/ PruneFails
    BY <1>10 DEF Fail, PruneFails
  <1>11. ASSUME NEW g \in Ids, Rot(g) PROVE GetSurvivesOneActivation'
    BY <1>11 DEF Rot
  <1>12. CASE Crash
    BY <1>12 DEF Crash
  <1>13. CASE BootCurrent
    BY <1>13 DEF BootCurrent, Intact
  <1>14. ASSUME NEW g \in Ids, BootPromote(g) PROVE GetSurvivesOneActivation'
    BY <1>14 DEF BootPromote, WritePointer, Candidates, Intact
  <1>15. CASE FsyncPromoted
    BY <1>15 DEF FsyncPromoted
  <1>16. CASE BootDefault
    BY <1>16 DEF BootDefault, Start, NothingToPromote, Intact, Candidates
  <1>17. CASE BootWithoutHead
    BY <1>17 DEF BootWithoutHead, NothingToPromote, Intact, Candidates
  <1>18. ASSUME NEW g \in Ids, BootResolve(g) PROVE GetSurvivesOneActivation'
    BY <1>18 DEF BootResolve, Resolved, Intact, Candidates
  <1>19. CASE BootUnresolved
    BY <1>19 DEF BootUnresolved, Resolved, Intact, Candidates
  <1>20. CASE BootFault
    BY <1>20 DEF BootFault
  <1>21. ASSUME NEW r \in Readers, ReadPointer(r) \/ ReadManifest(r) PROVE GetSurvivesOneActivation'
    BY <1>21, SMTT(30) DEF ReadPointer, ReadManifest
  <1>22. CASE UNCHANGED vars
    BY <1>22 DEF vars
  <1> QED
    BY <1>1, <1>2, <1>3, <1>4, <1>5, <1>6, <1>7, <1>8, <1>9, <1>10, <1>11,
       <1>12, <1>13, <1>14, <1>15, <1>16, <1>17, <1>18, <1>19,
       <1>20, <1>21, <1>22
       DEF Next, Publish, Prune, Boot

\* No step lets the engine and the durable pointer diverge.
LEMMA ServesStep == Inv /\ [Next]_vars => ServesWhatIsNamed'
  <1> SUFFICES ASSUME Inv, [Next]_vars PROVE ServesWhatIsNamed'
    OBVIOUS
  <1> USE ActiveAssumption
      DEF Inv, TypeOK, ServesWhatIsNamed, PublishOk, BootOk, InBoot,
          Publishing, Flipped, Ids, None, opVars, readVars, rotVars,
          bounds
  <1>1. CASE PostActive
    BY <1>1 DEF PostActive, Start
  <1>2. CASE RenameGeneration
    BY <1>2 DEF RenameGeneration
  <1>3. CASE FsyncGenerations
    BY <1>3 DEF FsyncGenerations, Settled
  <1>4. CASE FlipPointer
    BY <1>4 DEF FlipPointer, WritePointer
  <1>5. CASE FsyncPointer
    BY <1>5 DEF FsyncPointer
  <1>6. CASE FsyncActive
    BY <1>6 DEF FsyncActive
  <1>7. CASE Install
    BY <1>7 DEF Install
  <1>8. ASSUME NEW g \in Ids, PruneContents(g) \/ PruneDirectory(g) PROVE ServesWhatIsNamed'
    BY <1>8 DEF PruneContents, PruneDirectory, Prunable, Keep
  <1>9. CASE PruneDone
    BY <1>9 DEF PruneDone, Settled, Prunable, Keep
  <1>10. CASE Fail \/ PruneFails
    BY <1>10 DEF Fail, PruneFails
  <1>11. ASSUME NEW g \in Ids, Rot(g) PROVE ServesWhatIsNamed'
    BY <1>11 DEF Rot
  <1>12. CASE Crash
    BY <1>12 DEF Crash
  <1>13. CASE BootCurrent
    BY <1>13 DEF BootCurrent, Intact
  <1>14. ASSUME NEW g \in Ids, BootPromote(g) PROVE ServesWhatIsNamed'
    BY <1>14 DEF BootPromote, WritePointer, Candidates, Intact
  <1>15. CASE FsyncPromoted
    BY <1>15 DEF FsyncPromoted
  <1>16. CASE BootDefault
    BY <1>16 DEF BootDefault, Start, NothingToPromote, Intact, Candidates
  <1>17. CASE BootWithoutHead
    BY <1>17 DEF BootWithoutHead, NothingToPromote, Intact, Candidates
  <1>18. ASSUME NEW g \in Ids, BootResolve(g) PROVE ServesWhatIsNamed'
    BY <1>18 DEF BootResolve, Resolved, Intact, Candidates
  <1>19. CASE BootUnresolved
    BY <1>19 DEF BootUnresolved, Resolved, Intact, Candidates
  <1>20. CASE BootFault
    BY <1>20 DEF BootFault
  <1>21. ASSUME NEW r \in Readers, ReadPointer(r) \/ ReadManifest(r) PROVE ServesWhatIsNamed'
    BY <1>21 DEF ReadPointer, ReadManifest
  <1>22. CASE UNCHANGED vars
    BY <1>22 DEF vars
  <1> QED
    BY <1>1, <1>2, <1>3, <1>4, <1>5, <1>6, <1>7, <1>8, <1>9, <1>10, <1>11,
       <1>12, <1>13, <1>14, <1>15, <1>16, <1>17, <1>18, <1>19,
       <1>20, <1>21, <1>22
       DEF Next, Publish, Prune, Boot

\* The invariant holds in every state of every behaviour.
THEOREM Invariance == Spec => []Inv
  <1>1. Inv /\ [Next]_vars => Inv'
    BY TypeStep, PublishStep, BootStep, ReadersStep, DangleStep, GetStep, ServesStep
       DEF Inv
  <1> QED
    BY InitInv, <1>1, PTL DEF Spec

\* Whatever current.json a power loss leaves, at any step of publish_active_
\* generation, of the prune or of the boot's promotion, names a whole
\* generation unless bit rot took it.
THEOREM PointerIsWhole == Spec => []PointerNeverDangles
  <1>1. Inv => PointerNeverDangles
    BY DEF Inv
  <1> QED
    BY Invariance, <1>1, PTL

\* For any number of GET /active requests, beside any number of activations,
\* the manifest a reader was pointed to is there while at most one activation
\* has overtaken it.
THEOREM GetIsSafe == Spec => []GetSurvivesOneActivation
  <1>1. Inv => GetSurvivesOneActivation
    BY DEF Inv
  <1> QED
    BY Invariance, <1>1, PTL

\* What the engine serves, after an activation that was answered Ok or after a
\* boot, is what current.json durably names.
THEOREM ServesTheNamed == Spec => []ServesWhatIsNamed
  <1>1. Inv => ServesWhatIsNamed
    BY DEF Inv
  <1> QED
    BY Invariance, <1>1, PTL


----------------------------------------------------------------------------
\* Induction over the natural numbers, on sets, and what the recursive
\* definitions of HeadPipeline compute.

\* A set of numbers that holds 0 and, with n, n + 1 holds every natural number.
LEMMA SetInduction ==
  ASSUME NEW S, 0 \in S, \A n \in Nat : n \in S => n + 1 \in S
  PROVE  Nat \subseteq S
  <1> SUFFICES ASSUME Nat \ S # {} PROVE FALSE
    OBVIOUS
  <1>1. PICK x \in Nat \ S : \A y \in Nat \ S : ~ (<<y, x>> \in OpToRel(<, Nat))
    <2>1. (Nat \ S) \subseteq Nat
      OBVIOUS
    <2> QED
      BY <2>1, NatLessThanWellFounded, WFMin
  <1>2. \A y \in Nat \ S : ~ (y < x)
    BY <1>1 DEF OpToRel
  <1>3. x # 0 /\ x - 1 \in Nat
    OBVIOUS
  <1>4. x - 1 \in S
    BY <1>2, <1>3
  <1> QED
    BY <1>3, <1>4

\* f is what n steps of G make of a: f[i] = G[i][f[i - 1]].
Iterates(A, a, n, G, f) ==
    /\ f \in [0 .. n -> A]
    /\ f[0] = a
    /\ \A i \in 1 .. n : f[i] = G[i][f[i - 1]]

\* Definition by recursion: such an f exists.
LEMMA IterationExists ==
  ASSUME NEW A, NEW a \in A, NEW n \in Nat, NEW G \in [1 .. n -> [A -> A]]
  PROVE  \E f : Iterates(A, a, n, G, f)
  <1> DEFINE S == {k \in Nat : k <= n => \E f : Iterates(A, a, k, G, f)}
  <1>1. 0 \in S
    <2>1. Iterates(A, a, 0, G, [i \in 0 .. 0 |-> a])
      BY DEF Iterates
    <2> QED
      BY <2>1
  <1>2. ASSUME NEW k \in Nat, k \in S PROVE k + 1 \in S
    <2>0. k + 1 \in Nat
      OBVIOUS
    <2>1. SUFFICES ASSUME k + 1 <= n PROVE \E f : Iterates(A, a, k + 1, G, f)
      BY <2>0, Zenon
    <2>2. k <= n /\ k + 1 \in 1 .. n
      BY <2>1
    <2>3. PICK f : Iterates(A, a, k, G, f)
      BY <1>2, <2>2
    <2> DEFINE g == [i \in 0 .. k + 1 |-> IF i = k + 1 THEN G[k + 1][f[k]] ELSE f[i]]
    <2>4. f[k] \in A /\ G[k + 1][f[k]] \in A
      BY <2>2, <2>3 DEF Iterates
    <2>5. g \in [0 .. k + 1 -> A] /\ g[0] = a /\ g[k + 1] = G[k + 1][g[k]]
      BY <2>3, <2>4 DEF Iterates
    <2>6. ASSUME NEW i \in 1 .. k PROVE g[i] = G[i][g[i - 1]]
      <3>1. i \in 0 .. k + 1 /\ i - 1 \in 0 .. k + 1 /\ i # k + 1 /\ i - 1 # k + 1
        OBVIOUS
      <3>2. g[i] = f[i] /\ g[i - 1] = f[i - 1]
        BY <3>1
      <3> QED
        BY <3>2, <2>3 DEF Iterates
    <2> HIDE DEF g
    <2>7. ASSUME NEW i \in 1 .. k + 1 PROVE g[i] = G[i][g[i - 1]]
      <3>1. CASE i = k + 1
        BY <2>5, <3>1
      <3>2. CASE i # k + 1
        BY <2>6, <3>2
      <3> QED
        BY <3>1, <3>2
    <2>8. Iterates(A, a, k + 1, G, g)
      BY <2>5, <2>7 DEF Iterates
    <2> QED
      BY <2>8
  <1> HIDE DEF S
  <1>3. Nat \subseteq S
    BY <1>1, <1>2, SetInduction
  <1> QED
    BY <1>3 DEF S

\* Anything that satisfies the same equations agrees with it.
LEMMA IterationUnique ==
  ASSUME NEW A, NEW a \in A, NEW n \in Nat, NEW G, NEW f, Iterates(A, a, n, G, f),
         NEW t, t[0] = a, \A i \in 1 .. n : t[i] = G[i][t[i - 1]]
  PROVE  \A i \in 0 .. n : t[i] = f[i]
  <1> DEFINE R == {k \in Nat : k <= n => t[k] = f[k]}
  <1>1. 0 \in R
    BY DEF Iterates
  <1>2. ASSUME NEW k \in Nat, k \in R PROVE k + 1 \in R
    <2>0. k + 1 \in Nat /\ (k + 1) - 1 = k
      OBVIOUS
    <2> SUFFICES ASSUME k + 1 <= n PROVE t[k + 1] = f[k + 1]
      BY <2>0, Zenon
    <2>1. k + 1 \in 1 .. n /\ k <= n
      OBVIOUS
    <2>4. t[k] = f[k]
      BY <1>2, <2>1
    <2>2. t[k + 1] = G[k + 1][t[k]]
      BY <2>0, <2>1
    <2>3. f[k + 1] = G[k + 1][f[k]]
      BY <2>0, <2>1 DEF Iterates
    <2> QED
      BY <2>2, <2>3, <2>4
  <1> HIDE DEF R
  <1>3. Nat \subseteq R
    BY <1>1, <1>2, SetInduction
  <1> QED
    BY <1>3 DEF R

\* What Sums returns are running totals.
LEMMA SumsFacts ==
  ASSUME NEW s \in Seq(Nat)
  PROVE  /\ Sums(s) \in [0 .. Len(s) -> Nat]
         /\ Sums(s)[0] = 0
         /\ \A i \in 1 .. Len(s) : Sums(s)[i] = Sums(s)[i - 1] + s[i]
  <1> DEFINE G == [i \in 1 .. Len(s) |-> [x \in Nat |-> x + s[i]]]
             t == Sums(s)
  <1>1. G \in [1 .. Len(s) -> [Nat -> Nat]]
    OBVIOUS
  <1>2. \A x \in Nat, i \in 1 .. Len(s) : G[i][x] = x + s[i]
    OBVIOUS
  <1> HIDE DEF G
  <1>0. Len(s) \in Nat /\ 0 \in Nat
    OBVIOUS
  <1>3. PICK f : Iterates(Nat, 0, Len(s), G, f)
    BY <1>0, <1>1, IterationExists, Zenon
  <1>4. f \in [0 .. Len(s) -> Nat] /\ f[0] = 0
    BY <1>3 DEF Iterates
  <1>5. ASSUME NEW i \in 1 .. Len(s) PROVE f[i] = f[i - 1] + s[i]
    <2>1. f[i] = G[i][f[i - 1]]
      BY <1>3 DEF Iterates
    <2>2. f[i - 1] \in Nat
      BY <1>4
    <2> QED
      BY <1>2, <2>1, <2>2
  <1>6. f = [i \in 0 .. Len(s) |-> IF i = 0 THEN 0 ELSE f[i - 1] + s[i]]
    BY <1>4, <1>5
  <1>7. t = [i \in 0 .. Len(s) |-> IF i = 0 THEN 0 ELSE t[i - 1] + s[i]]
    BY <1>6 DEF Sums
  <1> HIDE DEF t
  <1> DEFINE R == {k \in Nat : k <= Len(s) => t[k] \in Nat}
  <1>8. 0 \in R
    BY <1>7
  <1>9. \A i \in 1 .. Len(s) : i \in 0 .. Len(s) /\ i # 0
    OBVIOUS
  <1>10. \A i \in 1 .. Len(s) : t[i] = t[i - 1] + s[i]
    BY <1>7, <1>9
  <1>11. ASSUME NEW k \in Nat, k \in R PROVE k + 1 \in R
    BY <1>10, <1>11
  <1> HIDE DEF R
  <1>12. Nat \subseteq R
    BY <1>8, <1>11, SetInduction
  <1>13. \A i \in 0 .. Len(s) : t[i] \in Nat
    BY <1>12 DEF R
  <1>14. t \in [0 .. Len(s) -> Nat] /\ t[0] = 0
    BY <1>7, <1>13
  <1> QED
    BY <1>10, <1>14 DEF t

\* The same for products.
LEMMA ProductsFacts ==
  ASSUME NEW s \in Seq(Nat)
  PROVE  /\ Products(s) \in [0 .. Len(s) -> Nat]
         /\ Products(s)[0] = 1
         /\ \A i \in 1 .. Len(s) : Products(s)[i] = Products(s)[i - 1] * s[i]
  <1> DEFINE G == [i \in 1 .. Len(s) |-> [x \in Nat |-> x * s[i]]]
             t == Products(s)
  <1>1. G \in [1 .. Len(s) -> [Nat -> Nat]]
    OBVIOUS
  <1>2. \A x \in Nat, i \in 1 .. Len(s) : G[i][x] = x * s[i]
    OBVIOUS
  <1> HIDE DEF G
  <1>0. Len(s) \in Nat /\ 1 \in Nat
    OBVIOUS
  <1>3. PICK f : Iterates(Nat, 1, Len(s), G, f)
    BY <1>0, <1>1, IterationExists, Zenon
  <1>4. f \in [0 .. Len(s) -> Nat] /\ f[0] = 1
    BY <1>3 DEF Iterates
  <1>5. ASSUME NEW i \in 1 .. Len(s) PROVE f[i] = f[i - 1] * s[i]
    <2>1. f[i] = G[i][f[i - 1]]
      BY <1>3 DEF Iterates
    <2>2. f[i - 1] \in Nat
      BY <1>4
    <2> QED
      BY <1>2, <2>1, <2>2
  <1>6. f = [i \in 0 .. Len(s) |-> IF i = 0 THEN 1 ELSE f[i - 1] * s[i]]
    BY <1>4, <1>5
  <1>7. t = [i \in 0 .. Len(s) |-> IF i = 0 THEN 1 ELSE t[i - 1] * s[i]]
    BY <1>6 DEF Products
  <1> HIDE DEF t
  <1> DEFINE R == {k \in Nat : k <= Len(s) => t[k] \in Nat}
  <1>8. 0 \in R
    BY <1>7
  <1>9. \A i \in 1 .. Len(s) : i \in 0 .. Len(s) /\ i # 0
    OBVIOUS
  <1>10. \A i \in 1 .. Len(s) : t[i] = t[i - 1] * s[i]
    BY <1>7, <1>9
  <1>11. ASSUME NEW k \in Nat, k \in R PROVE k + 1 \in R
    BY <1>10, <1>11
  <1> HIDE DEF R
  <1>12. Nat \subseteq R
    BY <1>8, <1>11, SetInduction
  <1>13. \A i \in 0 .. Len(s) : t[i] \in Nat
    BY <1>12 DEF R
  <1>14. t \in [0 .. Len(s) -> Nat] /\ t[0] = 1
    BY <1>7, <1>13
  <1> QED
    BY <1>10, <1>14 DEF t

\* Joined up to i, the sequences of q are f[i].
Joins(X, q, f) ==
    /\ f \in [0 .. Len(q) -> Seq(X)]
    /\ f[0] = <<>>
    /\ \A i \in 1 .. Len(q) : f[i] = f[i - 1] \o q[i]

\* FlattenSeq joins: the library's recursion is defined on every list of
\* sequences, and ends in what its steps make.
LEMMA FlattenJoins ==
  ASSUME NEW X, NEW q \in Seq(Seq(X))
  PROVE  \E f : Joins(X, q, f) /\ FlattenSeq(q) = f[Len(q)]
  <1> DEFINE A == Seq(X)
             n == Len(q)
             G == [i \in 1 .. n |-> [x \in A |-> x \o q[i]]]
  <1>0. n \in Nat /\ <<>> \in A
    OBVIOUS
  <1>1. G \in [1 .. n -> [A -> A]]
    OBVIOUS
  <1>2. \A x \in A, i \in 1 .. n : G[i][x] = x \o q[i]
    OBVIOUS
  <1> HIDE DEF G
  <1>3. PICK f : Iterates(A, <<>>, n, G, f)
    <2> HIDE DEF A, n
    <2> QED
      BY <1>0, <1>1, IterationExists, Zenon
  <1>4. f \in [0 .. n -> A] /\ f[0] = <<>>
    BY <1>3 DEF Iterates
  <1>5. ASSUME NEW i \in 1 .. n PROVE f[i] = f[i - 1] \o q[i]
    <2>1. f[i] = G[i][f[i - 1]]
      BY <1>3 DEF Iterates
    <2>2. i - 1 \in 0 .. n
      OBVIOUS
    <2>3. f[i - 1] \in A
      BY <1>4, <2>2, Zenon
    <2> QED
      BY <1>2, <2>1, <2>3
  <1>6. Joins(X, q, f)
    BY <1>4, <1>5 DEF Joins
  <1>7. CASE n = 0
    <2>1. FlattenSeq(q) = q /\ q = <<>>
      BY <1>7 DEF FlattenSeq
    <2> QED
      BY <1>4, <1>6, <1>7, <2>1
  <1>8. CASE n # 0
    <2> DEFINE h == [i \in 1 .. n |-> f[i]]
               c == CHOOSE e : e = [i \in 1 .. n |-> IF i = 1 THEN q[i] ELSE e[i - 1] \o q[i]]
    <2>1. f[1] = q[1]
      <3>1. 1 \in 1 .. n /\ 1 - 1 = 0
        BY <1>0, <1>8
      <3>2. f[1] = <<>> \o q[1]
        BY <1>4, <1>5, <3>1
      <3>3. q[1] \in Seq(X)
        BY <3>1
      <3> QED
        BY <3>2, <3>3, ConcatEmptySeq
    <2>2. ASSUME NEW i \in 1 .. n
          PROVE  h[i] = IF i = 1 THEN q[i] ELSE h[i - 1] \o q[i]
      <3>1. CASE i = 1
        BY <2>1, <3>1
      <3>2. CASE i # 1
        <4>1. i - 1 \in 1 .. n
          BY <3>2
        <4> QED
          BY <1>5, <3>2, <4>1
      <3> QED
        BY <3>1, <3>2
    <2>3. h = [i \in 1 .. n |-> IF i = 1 THEN q[i] ELSE h[i - 1] \o q[i]]
      <3> HIDE DEF n
      <3>1. h = [i \in 1 .. n |-> h[i]]
        OBVIOUS
      <3> HIDE DEF h
      <3> QED
        BY <2>2, <3>1
    <2>4. c = [i \in 1 .. n |-> IF i = 1 THEN q[i] ELSE c[i - 1] \o q[i]]
      <3> HIDE DEF h, n
      <3> QED
        BY <2>3
    <2>5. FlattenSeq(q) = c[n]
      BY <1>8 DEF FlattenSeq
    <2> HIDE DEF c
    <2> DEFINE t == [i \in 0 .. n |-> IF i = 0 THEN <<>> ELSE c[i]]
               R == {k \in Nat : k + 1 <= n => c[k + 1] = f[k + 1]}
    <2>6. 0 \in R
      BY <1>8, <2>1, <2>4
    <2>7. ASSUME NEW k \in Nat, k \in R PROVE k + 1 \in R
      <3>0. k + 1 \in Nat
        OBVIOUS
      <3> SUFFICES ASSUME (k + 1) + 1 <= n PROVE c[(k + 1) + 1] = f[(k + 1) + 1]
        BY <3>0, Zenon
      <3>1. /\ k + 1 <= n
            /\ (k + 1) + 1 \in 1 .. n /\ (k + 1) + 1 # 1
            /\ ((k + 1) + 1) - 1 = k + 1
        OBVIOUS
      <3>2. c[k + 1] = f[k + 1]
        BY <2>7, <3>1
      <3>3. c[(k + 1) + 1] = c[k + 1] \o q[(k + 1) + 1]
        BY <2>4, <3>1
      <3>4. f[(k + 1) + 1] = f[k + 1] \o q[(k + 1) + 1]
        BY <1>5, <3>1
      <3> QED
        BY <3>2, <3>3, <3>4
    <2> HIDE DEF R
    <2>8. Nat \subseteq R
      BY <2>6, <2>7, SetInduction
    <2>9. n - 1 \in Nat /\ (n - 1) + 1 = n /\ n <= n
      BY <1>0, <1>8
    <2>10. c[n] = f[n]
      <3> HIDE DEF n
      <3>1. n - 1 \in R
        BY <2>8, <2>9
      <3>2. (n - 1) + 1 <= n => c[(n - 1) + 1] = f[(n - 1) + 1]
        BY <3>1, Zenon DEF R
      <3> QED
        BY <2>9, <3>2
    <2> QED
      BY <1>6, <2>5, <2>10
  <1> QED
    BY <1>7, <1>8

\* A function on 1 .. n is a sequence of length n.
LEMMA FcnIsSeq ==
  ASSUME NEW n \in Nat, NEW f, f = [i \in 1 .. n |-> f[i]]
  PROVE  f \in Seq({f[i] : i \in 1 .. n}) /\ Len(f) = n /\ DOMAIN f = 1 .. n
  <1>1. f \in [1 .. n -> {f[i] : i \in 1 .. n}]
    BY Zenon
  <1> QED
    BY <1>1, IsASeq, LenProperties

\* A function on 1 .. n is a sequence of length n.
LEMMA MapIsSeq ==
  ASSUME NEW S, NEW n \in Nat, NEW f \in [1 .. n -> S]
  PROVE  f \in Seq(S) /\ Len(f) = n /\ DOMAIN f = 1 .. n
  OBVIOUS

\* Adding a natural number keeps a bound.
LEMMA LeqPlus ==
  ASSUME NEW a \in Nat, NEW b \in Nat, NEW c \in Nat, a <= b
  PROVE  a <= b + c
  OBVIOUS

\* One step of joining.
JoinedAt(X, q, f, j) ==
    /\ f[j - 1] \in Seq(X) /\ q[j] \in Seq(X) /\ f[j] \in Seq(X)
    /\ Len(f[j]) = Len(f[j - 1]) + Len(q[j])
    /\ \A p \in 1 .. Len(f[j - 1]) : f[j][p] = f[j - 1][p]
    /\ \A p \in 1 .. Len(q[j]) : f[j][Len(f[j - 1]) + p] = q[j][p]

\* Joining one more sequence keeps what was joined and appends its elements.
LEMMA JoinsStep ==
  ASSUME NEW X, NEW q \in Seq(Seq(X)), NEW f, Joins(X, q, f), NEW j \in 1 .. Len(q)
  PROVE  JoinedAt(X, q, f, j)
  <1>1. j - 1 \in 0 .. Len(q) /\ j \in 0 .. Len(q)
    OBVIOUS
  <1>2. f[j - 1] \in Seq(X) /\ q[j] \in Seq(X) /\ f[j] \in Seq(X)
    <2>1. q[j] \in Seq(X)
      OBVIOUS
    <2>2. f[j - 1] \in Seq(X) /\ f[j] \in Seq(X)
      BY <1>1, Zenon DEF Joins
    <2> QED
      BY <2>1, <2>2
  <1>3. f[j] = f[j - 1] \o q[j]
    BY DEF Joins
  <1>4. ASSUME NEW a \in Seq(X), NEW b \in Seq(X)
        PROVE  /\ Len(a \o b) = Len(a) + Len(b)
               /\ \A p \in 1 .. Len(a) : (a \o b)[p] = a[p]
               /\ \A p \in 1 .. Len(b) : (a \o b)[Len(a) + p] = b[p]
    OBVIOUS
  <1>5. /\ Len(f[j - 1] \o q[j]) = Len(f[j - 1]) + Len(q[j])
        /\ \A p \in 1 .. Len(f[j - 1]) : (f[j - 1] \o q[j])[p] = f[j - 1][p]
        /\ \A p \in 1 .. Len(q[j]) : (f[j - 1] \o q[j])[Len(f[j - 1]) + p] = q[j][p]
    BY <1>2, <1>4, Zenon
  <1> QED
    BY <1>2, <1>3, <1>5, Zenon DEF JoinedAt

\* What was joined first stays in front.
InFront(f, i, j) ==
    /\ Len(f[i]) <= Len(f[j])
    /\ \A p \in 1 .. Len(f[i]) : f[j][p] = f[i][p]

\* What was joined first stays in front of everything joined later.
LEMMA JoinsPrefix ==
  ASSUME NEW X, NEW q \in Seq(Seq(X)), NEW f, Joins(X, q, f), NEW i \in 0 .. Len(q)
  PROVE  /\ f[i] \in Seq(X)
         /\ \A j \in i .. Len(q) : InFront(f, i, j)
  <1> DEFINE R == {k \in Nat : i + k <= Len(q) => InFront(f, i, i + k)}
  <1>1. \A j \in 0 .. Len(q) : f[j] \in Seq(X) /\ Len(f[j]) \in Nat
    BY DEF Joins
  <1>2. 0 \in R
    BY <1>1 DEF InFront
  <1>7. \A j \in 1 .. Len(q) :
          /\ Len(f[j]) = Len(f[j - 1]) + Len(q[j])
          /\ \A p \in 1 .. Len(f[j - 1]) : f[j][p] = f[j - 1][p]
    <2> TAKE j \in 1 .. Len(q)
    <2>1. JoinedAt(X, q, f, j)
      BY JoinsStep
    <2> QED
      BY <2>1, Zenon DEF JoinedAt
  <1>3. ASSUME NEW j \in 1 .. Len(q), InFront(f, i, j - 1) PROVE InFront(f, i, j)
    <2>1. j - 1 \in 0 .. Len(q)
      OBVIOUS
    <2>2. Len(f[i]) \in Nat /\ Len(f[j - 1]) \in Nat /\ Len(q[j]) \in Nat
      BY <1>1, <2>1
    <2>3. /\ Len(f[j]) = Len(f[j - 1]) + Len(q[j])
          /\ \A p \in 1 .. Len(f[j - 1]) : f[j][p] = f[j - 1][p]
      BY <1>7
    <2>4. Len(f[i]) <= Len(f[j - 1]) /\ \A p \in 1 .. Len(f[i]) : f[j - 1][p] = f[i][p]
      BY <1>3 DEF InFront
    <2>5. Len(f[i]) <= Len(f[j])
      BY <2>2, <2>3, <2>4, LeqPlus, Zenon
    <2>6. ASSUME NEW p \in 1 .. Len(f[i]) PROVE f[j][p] = f[i][p]
      <3>1. p \in 1 .. Len(f[j - 1])
        BY <2>2, <2>4
      <3> QED
        BY <2>4, <2>3, <3>1, Zenon
    <2> QED
      BY <2>5, <2>6, Zenon DEF InFront
  <1>4. ASSUME NEW k \in Nat, k \in R PROVE k + 1 \in R
    <2>0. k + 1 \in Nat
      OBVIOUS
    <2> SUFFICES ASSUME i + (k + 1) <= Len(q) PROVE InFront(f, i, i + (k + 1))
      BY <2>0, Zenon
    <2>1. i + k <= Len(q) /\ i + (k + 1) \in 1 .. Len(q) /\ (i + (k + 1)) - 1 = i + k
      OBVIOUS
    <2>2. InFront(f, i, i + k)
      BY <1>4, <2>1, Zenon
    <2> QED
      BY <1>3, <2>1, <2>2, Zenon
  <1> HIDE DEF R
  <1>5. Nat \subseteq R
    BY <1>2, <1>4, SetInduction
  <1>6. ASSUME NEW j \in i .. Len(q) PROVE InFront(f, i, j)
    <2>1. j - i \in Nat /\ i + (j - i) = j /\ j <= Len(q)
      OBVIOUS
    <2>2. i + (j - i) <= Len(q) => InFront(f, i, i + (j - i))
      BY <1>5, <2>1, Zenon DEF R
    <2> QED
      BY <2>1, <2>2
  <1> QED
    BY <1>1, <1>6 DEF InFront

\* A list of one-element sequences flattens to the list of the elements.
LEMMA FlattenSingles ==
  ASSUME NEW X, NEW s \in Seq(X)
  PROVE  FlattenSeq([i \in DOMAIN s |-> <<s[i]>>]) = s
  <1> DEFINE q == [i \in 1 .. Len(s) |-> <<s[i]>>]
  <1>1. q \in Seq(Seq(X)) /\ Len(q) = Len(s)
    <2>1. q \in [1 .. Len(s) -> Seq(X)]
      OBVIOUS
    <2> QED
      BY <2>1, IsASeq, LenProperties
  <1>2. \A i \in 1 .. Len(s) : q[i] = <<s[i]>>
    OBVIOUS
  <1> HIDE DEF q
  <1>3. PICK f : Joins(X, q, f) /\ FlattenSeq(q) = f[Len(q)]
    BY <1>1, FlattenJoins
  <1> DEFINE Same(k) == f[k] \in Seq(X) /\ Len(f[k]) = k /\ \A j \in 1 .. k : f[k][j] = s[j]
             R == {k \in Nat : k <= Len(s) => Same(k)}
  <1>4. 0 \in R
    BY <1>3 DEF Joins
  <1>5. ASSUME NEW k \in Nat, k \in R PROVE k + 1 \in R
    <2>0. k + 1 \in Nat
      OBVIOUS
    <2> SUFFICES ASSUME k + 1 <= Len(s) PROVE Same(k + 1)
      BY <2>0, Zenon
    <2>1. k <= Len(s) /\ k + 1 \in 1 .. Len(s) /\ (k + 1) - 1 = k
      OBVIOUS
    <2>2. Same(k)
      BY <1>5, <2>1
    <2>3. f[k + 1] = f[k] \o <<s[k + 1]>>
      BY <1>1, <1>2, <1>3, <2>1 DEF Joins
    <2>4. s[k + 1] \in X
      BY <2>1
    <2> QED
      BY <2>2, <2>3, <2>4
  <1> HIDE DEF R
  <1>6. Nat \subseteq R
    BY <1>4, <1>5, SetInduction
  <1>7. Same(Len(s))
    <2>1. Len(s) \in Nat /\ Len(s) <= Len(s)
      OBVIOUS
    <2> QED
      BY <1>6, <2>1, Zenon DEF R
  <1>8. f[Len(s)] = s
    BY <1>7
  <1>9. q = [i \in DOMAIN s |-> <<s[i]>>]
    BY DEF q
  <1> QED
    BY <1>1, <1>3, <1>8, <1>9

\* Labels that survive a line of labels.txt are read back as they were.
LEMMA CleanLabelsReadBack ==
  ASSUME NEW X, NEW ls \in Seq(X), \A i \in DOMAIN ls : Clean(ls[i])
  PROVE  ReadLabels(ls) = ls
  <1>1. Lines(ls) = ls
    <2>1. [i \in DOMAIN ls |-> Parts(ls[i])] = [i \in DOMAIN ls |-> <<ls[i]>>]
      BY DEF Clean
    <2> QED
      BY <2>1, FlattenSingles DEF Lines
  <1>2. [i \in DOMAIN ls |-> IF NotBlank(Trim(ls[i])) THEN <<Trim(ls[i])>> ELSE <<>>]
          = [i \in DOMAIN ls |-> <<ls[i]>>]
    BY DEF Clean, NotBlank
  <1> QED
    BY <1>1, <1>2, FlattenSingles DEF ReadLabels

\* The tensors of a manifest lie inside the bytes it declares, one after the
\* other.
LEMMA SumsFit ==
  ASSUME NEW s \in Seq(Nat), NEW i \in 1 .. Len(s)
  PROVE  /\ Sums(s)[i - 1] \in Nat /\ Total(s) \in Nat
         /\ Sums(s)[i - 1] + s[i] <= Total(s)
  <1> DEFINE t == Sums(s)
  <1>1. /\ t \in [0 .. Len(s) -> Nat]
        /\ \A j \in 1 .. Len(s) : t[j] = t[j - 1] + s[j]
    BY SumsFacts
  <1> HIDE DEF t
  <1> DEFINE R == {k \in Nat : i + k <= Len(s) => t[i] <= t[i + k]}
  <1>2. i - 1 \in 0 .. Len(s) /\ i \in 0 .. Len(s) /\ Len(s) \in 0 .. Len(s)
    OBVIOUS
  <1>3. 0 \in R
    <2>1. t[i] \in Nat /\ i + 0 = i
      BY <1>1, <1>2
    <2> QED
      BY <2>1
  <1>9. ASSUME NEW j \in 1 .. Len(s), t[i] <= t[j - 1] PROVE t[i] <= t[j]
    <2>1. j - 1 \in 0 .. Len(s)
      OBVIOUS
    <2>2. t[i] \in Nat /\ t[j - 1] \in Nat
      BY <1>1, <1>2, <2>1, Zenon
    <2>3. s[j] \in Nat
      OBVIOUS
    <2>4. t[j] = t[j - 1] + s[j]
      BY <1>1, Zenon
    <2> QED
      BY <1>9, <2>2, <2>3, <2>4, LeqPlus, Zenon
  <1>4. ASSUME NEW k \in Nat, k \in R PROVE k + 1 \in R
    <2>0. k + 1 \in Nat
      OBVIOUS
    <2> SUFFICES ASSUME i + (k + 1) <= Len(s) PROVE t[i] <= t[i + (k + 1)]
      BY <2>0, Zenon
    <2>1. i + k <= Len(s) /\ i + (k + 1) \in 1 .. Len(s) /\ (i + (k + 1)) - 1 = i + k
      OBVIOUS
    <2>2. t[i] <= t[i + k]
      BY <1>4, <2>1, Zenon
    <2> QED
      BY <1>9, <2>1, <2>2, Zenon
  <1> HIDE DEF R
  <1>5. Nat \subseteq R
    BY <1>3, <1>4, SetInduction
  <1>6. t[i] <= t[Len(s)]
    <2>1. Len(s) - i \in Nat /\ i + (Len(s) - i) = Len(s) /\ Len(s) <= Len(s)
      OBVIOUS
    <2>2. i + (Len(s) - i) <= Len(s) => t[i] <= t[i + (Len(s) - i)]
      BY <1>5, <2>1, Zenon DEF R
    <2> QED
      BY <2>1, <2>2
  <1>7. t[i - 1] \in Nat /\ t[Len(s)] \in Nat
    BY <1>1, <1>2
  <1>8. t[i - 1] + s[i] <= t[Len(s)]
    BY <1>1, <1>6
  <1> QED
    BY <1>7, <1>8 DEF t, Total


----------------------------------------------------------------------------
\* The inductive invariant of the pipeline.

Byte == STRING \X Nat

\* What labels are made of.  (That a literal is a STRING is not known to the
\* provers, so the ones that Parts and Trim return are listed.)
Text == STRING \cup {"two", "lines", "padded", ""}

\* The uploads in the order of the request, and what the first i of them hold
\* when they are joined.
Pieces(m) ==
    [i \in DOMAIN m.files |-> [j \in 1 .. m.sizes[m.files[i]] |-> <<m.files[i], j>>]]
Joined(m) ==
    CHOOSE f : Joins(Byte, Pieces(m), f) /\ Uploaded(m) = f[Len(Pieces(m))]

Published == {"published", "serving", "refused"}
Phases == {"idle", "failed", "parse", "stage", "read", "blob", "labels",
           "scan", "extract", "split", "train", "write"} \cup Published

\* Which kind of source is where, and that weights come late.
SourceOk ==
    /\ phase \in Phases
    /\ phase # "idle" => src \in Inputs
    /\ phase \in {"parse", "stage", "read", "blob", "labels"} => src.kind = "tfjs"
    /\ phase \in {"scan", "extract", "split", "train"} => src.kind = "dataset"
    /\ phase = "write" => src.kind \in {"tfjs", "dataset"}
    /\ phase \in Published => src.kind \in {"tfjs", "dataset", "bundled"}
    /\ phase \in {"idle", "parse", "stage", "read", "blob", "scan", "extract", "split",
                 "train"} => weights = NoWeights
    /\ phase \in {"idle", "parse", "stage"} => total = 0
    /\ phase \in {"idle", "parse"} => step = 0

\* The plan is the manifest's, and the tensors picked are entries of it.
PlanOk ==
    /\ phase \in {"stage", "blob"} => plan = Plan(src)
    /\ phase = "read" =>
         /\ plan.shards = PathsOf(src.groups) /\ plan.entries = Entries(src)
         /\ \E i \in DOMAIN Entries(src) : plan.kernel = Entries(src)[i]
         /\ \E i \in DOMAIN Entries(src) : plan.bias = Entries(src)[i]
    /\ phase \in {"stage", "read"} =>
         /\ Len(PathsOf(src.groups)) = Len(src.files)
         /\ step \in 0 .. Len(src.files)
    /\ phase = "blob" => Entries(src) # <<>> /\ src.files # <<>> /\ content = Shards(src)

\* No upload has changed.
Untouched == \A f \in ToSet(src.files) : f \in DOMAIN content /\ content[f] = Shards(src)[f]

\* The first k shards are staged: as a link to an upload or as a copy of it.
StagedUpTo(k) ==
    \A i \in 1 .. k :
        LET n == PathsOf(src.groups)[i] IN
        /\ n \in DOMAIN staged
        /\ staged[n] \in {src.files[i], n}
        /\ staged[n] \in DOMAIN content
        /\ content[staged[n]] = Shards(src)[src.files[i]]

StagingOk ==
    src.kind = "tfjs" /\ NamesDistinct(src) =>
        /\ phase \notin {"idle", "failed"} => Untouched
        /\ phase = "stage" =>
             /\ StagedUpTo(step)
             /\ \A n \in DOMAIN staged : n = "model.json" \/ \E i \in 1 .. step : n = PathsOf(src.groups)[i]
        /\ phase = "read" => StagedUpTo(Len(src.files))

\* What has been read of a tensor is in its place.
Sized(e, buf) == buf = [i \in 1 .. e.len |-> buf[i]]
Filled(e, buf, bytes, upto) ==
    \A i \in 1 .. e.len : e.off + i <= upto => buf[i] = bytes[e.off + i]

ReadingOk ==
    phase = "read" =>
        /\ Sized(plan.kernel, bufs.kernel) /\ Sized(plan.bias, bufs.bias)
        /\ NamesDistinct(src) =>
             /\ total = Len(Joined(src)[step])
             /\ Filled(plan.kernel, bufs.kernel, Uploaded(src), total)
             /\ Filled(plan.bias, bufs.bias, Uploaded(src), total)

\* A converted head has one size, finite weights and the manifest's bytes.
ConvertedOk ==
    phase \in {"labels", "write"} \cup Published /\ src.kind = "tfjs" =>
        /\ weights.classes \in 1 .. MaxClasses
        /\ Len(weights.kernel) = Dim * weights.classes
        /\ Len(weights.bias) = weights.classes
        /\ Finite(weights.kernel) /\ Finite(weights.bias)
        /\ NamesDistinct(src) =>
             /\ weights.kernel = Slice(src, plan.kernel)
             /\ weights.bias = Slice(src, plan.bias)

ConvertedLabels ==
    phase \in {"write", "published", "refused"} /\ src.kind = "tfjs" =>
        labels \in Seq(Text) /\ Len(labels) = weights.classes

\* The classes of a dataset are its folders, whose names are plain.
ClassesOk ==
    src.kind = "dataset" =>
        /\ phase \notin {"idle", "failed"} =>
             /\ \A n \in FolderNames(src) : Component(n)
             /\ src.cfg.quarters \in 0 .. 3
        /\ phase \in {"extract", "split", "train", "write"} \cup Published =>
             labels \in Seq(FolderNames(src)) /\ labels # <<>>
        /\ phase \in {"split", "train", "write"} \cup Published =>
             /\ \A i \in DOMAIN labels : Kept(i) # {}
             /\ Len(labels) <= MaxLoadable

\* A trained head: column i is that of label i, or training diverged.
Trained(finite) ==
    LET column(i) == IF finite THEN labels[i] ELSE "nan" IN
    [kernel |-> [i \in 1 .. Dim * Len(labels) |-> <<column(1 + ((i - 1) % Len(labels)))>>],
     bias |-> [i \in DOMAIN labels |-> <<column(i)>>],
     classes |-> Len(labels)]
TrainedOk ==
    phase \in {"write"} \cup Published /\ src.kind = "dataset" =>
        \E finite \in BOOLEAN : weights = Trained(finite)

\* A job's head file holds its weights.
FileOk ==
    phase \in Published /\ src.kind # "bundled" =>
        file = HeadFile(weights) /\ weights.classes \in 1 .. MaxLoadable

PipeInv ==
    /\ SourceOk /\ PlanOk /\ StagingOk /\ ReadingOk
    /\ ConvertedOk /\ ConvertedLabels
    /\ ClassesOk /\ TrainedOk /\ FileOk
    /\ SplitSound /\ PublishedHeadServes

----------------------------------------------------------------------------
\* What the conversion computes.

\* The sizes the head format fixes.
LEMMA SizesPositive == Dim \in Nat \ {0} /\ Word \in Nat \ {0} /\ HeaderSize \in Nat
  BY PipelineAssumption

\* A multiple of d divided by d.
LEMMA DivExact == ASSUME NEW d \in Nat \ {0}, NEW n \in Nat PROVE (d * n) \div d = n
  OBVIOUS

\* Every tensor of a manifest has its size and lies within the declared bytes,
\* which end where the last tensor ends.
LEMMA EntriesFit ==
  ASSUME NEW m \in Inputs, m.kind = "tfjs"
  PROVE  LET es == Entries(m)
             lens == [i \in DOMAIN es |-> es[i].len]
         IN /\ Len(es) \in Nat /\ DOMAIN es = 1 .. Len(es)
            /\ Total(lens) \in Nat
            /\ \A i \in DOMAIN es :
                 /\ es[i].shape \in Seq(Nat)
                 /\ es[i].len = BytesOf(es[i]) /\ es[i].len \in Nat
                 /\ es[i].off \in Nat /\ es[i].off + es[i].len <= Total(lens)
            /\ es # <<>> => Total(lens) = es[Len(es)].off + es[Len(es)].len
  <1> DEFINE ws == WeightsOf(m.groups)
             sizes == [i \in DOMAIN ws |-> BytesOf(ws[i])]
             es == Entries(m)
             lens == [i \in DOMAIN es |-> es[i].len]
  <1>1. ws \in Seq([name : STRING, dtype : STRING, shape : Seq(Nat)])
    BY InputsAssumption
  <1> HIDE DEF ws
  <1>2. DOMAIN ws = 1 .. Len(ws) /\ Len(ws) \in Nat
    BY <1>1
  <1>3. ASSUME NEW i \in DOMAIN ws PROVE BytesOf(ws[i]) \in Nat /\ ws[i].shape \in Seq(Nat)
    <2>0. ws[i] \in [name : STRING, dtype : STRING, shape : Seq(Nat)]
      BY <1>1, <1>2, ElementOfSeq
    <2>1. ws[i].shape \in Seq(Nat)
      BY <2>0
    <2>2. Products(ws[i].shape) \in [0 .. Len(ws[i].shape) -> Nat]
      BY <2>1, ProductsFacts
    <2>3. Len(ws[i].shape) \in 0 .. Len(ws[i].shape)
      BY <2>1
    <2>4. Products(ws[i].shape)[Len(ws[i].shape)] \in Nat
      BY <2>2, <2>3, Zenon
    <2> QED
      BY <2>1, <2>4, SizesPositive DEF BytesOf
  <1>4. sizes \in Seq(Nat) /\ Len(sizes) = Len(ws) /\ DOMAIN sizes = 1 .. Len(ws)
    <2>1. sizes \in [1 .. Len(ws) -> Nat]
      BY <1>2, <1>3
    <2> QED
      BY <1>2, <2>1, IsASeq, LenProperties
  <1>5. es = [i \in 1 .. Len(ws) |->
                [name |-> ws[i].name, shape |-> ws[i].shape, len |-> BytesOf(ws[i]),
                 off |-> Sums(sizes)[i - 1]]]
    BY <1>2 DEF Entries, ws
  <1> HIDE DEF es
  <1>6. \A i \in 1 .. Len(ws) : /\ es[i].shape = ws[i].shape /\ es[i].len = sizes[i]
                               /\ es[i].off = Sums(sizes)[i - 1]
                               /\ es[i].len = BytesOf(ws[i])
    BY <1>2, <1>5
  <1>7. Len(es) = Len(ws) /\ DOMAIN es = 1 .. Len(ws)
    <2>1. es = [i \in 1 .. Len(ws) |-> es[i]]
      BY <1>5
    <2> QED
      BY <1>2, <2>1, FcnIsSeq
  <1>8. lens = sizes
    BY <1>2, <1>6, <1>7
  <1>9. \A i \in 1 .. Len(ws) : es[i].len = BytesOf(es[i])
    BY <1>6 DEF BytesOf
  <1> HIDE DEF sizes
  <1>10. ASSUME NEW i \in 1 .. Len(ws)
         PROVE  /\ Sums(sizes)[i - 1] \in Nat /\ Total(sizes) \in Nat /\ sizes[i] \in Nat
                /\ Sums(sizes)[i - 1] + sizes[i] <= Total(sizes)
    BY <1>4, SumsFit
  <1>11. Total(sizes) \in Nat
    <2>1. Sums(sizes) \in [0 .. Len(sizes) -> Nat] /\ Len(sizes) \in 0 .. Len(sizes)
      BY <1>4, SumsFacts
    <2> QED
      BY <2>1, Zenon DEF Total
  <1>12. es # <<>> => Total(sizes) = es[Len(es)].off + es[Len(es)].len
    <2> SUFFICES ASSUME es # <<>> PROVE Total(sizes) = es[Len(es)].off + es[Len(es)].len
      OBVIOUS
    <2>1. Len(ws) # 0
      <3> SUFFICES ASSUME Len(ws) = 0 PROVE es = <<>>
        OBVIOUS
      <3> QED
        BY <1>5
    <2>2. Len(ws) \in 1 .. Len(ws)
      BY <1>2, <2>1
    <2>3. Sums(sizes)[Len(ws)] = Sums(sizes)[Len(ws) - 1] + sizes[Len(ws)]
      BY <1>4, <2>2, SumsFacts
    <2> QED
      BY <1>4, <1>6, <1>7, <2>2, <2>3 DEF Total
  <1>13. \A i \in DOMAIN es :
           /\ es[i].shape \in Seq(Nat)
           /\ es[i].len = BytesOf(es[i]) /\ es[i].len \in Nat
           /\ es[i].off \in Nat /\ es[i].off + es[i].len <= Total(sizes)
    BY <1>2, <1>3, <1>6, <1>7, <1>9, <1>10
  <1> QED
    BY <1>2, <1>7, <1>8, <1>11, <1>12, <1>13 DEF es

\* A kernel and a bias of one size have the bytes of Dim * n and n floats.
LEMMA PairLens ==
  ASSUME NEW k, NEW b, k.shape \in Seq(Nat), b.shape \in Seq(Nat), PairOk(k, b)
  PROVE  /\ k.shape[2] \in 1 .. MaxClasses
         /\ BytesOf(k) = Word * (Dim * k.shape[2])
         /\ BytesOf(b) = Word * k.shape[2]
  <1> DEFINE n == k.shape[2]
             pk == Products(k.shape)
             pb == Products(b.shape)
  <1>1. n \in 1 .. MaxClasses /\ n \in Nat /\ Len(k.shape) = 2 /\ k.shape[1] = Dim
    BY DEF PairOk
  <1>2. b.shape = <<n>> /\ Len(b.shape) = 1 /\ b.shape[1] = n
    BY DEF PairOk
  <1>3. pk[0] = 1 /\ pk[1] = pk[0] * k.shape[1] /\ pk[2] = pk[1] * k.shape[2]
    <2>1. pk[0] = 1 /\ \A i \in 1 .. 2 : pk[i] = pk[i - 1] * k.shape[i]
      BY <1>1, ProductsFacts
    <2> QED
      BY <2>1
  <1>4. pb[0] = 1 /\ pb[1] = pb[0] * b.shape[1]
    <2>1. pb[0] = 1 /\ \A i \in 1 .. 1 : pb[i] = pb[i - 1] * b.shape[i]
      BY <1>2, ProductsFacts
    <2> QED
      BY <2>1
  <1> HIDE DEF pk, pb
  <1>5. pk[2] = Dim * n
    BY <1>1, <1>3, SizesPositive
  <1>6. pb[1] = n
    BY <1>1, <1>2, <1>4
  <1> QED
    BY <1>1, <1>2, <1>5, <1>6 DEF BytesOf, pk, pb

\* Word bytes make a float.
LEMMA FloatsLen ==
  ASSUME NEW n \in Nat, NEW buf, Len(buf) = Word * n
  PROVE  Len(Floats(buf)) = n /\ DOMAIN Floats(buf) = 1 .. n
  <1>1. Len(buf) \div Word = n
    BY SizesPositive, DivExact
  <1>2. Floats(buf) = [i \in 1 .. n |-> Floats(buf)[i]]
    BY <1>1 DEF Floats
  <1> QED
    BY <1>2, FcnIsSeq

\* The uploads put together are what joining them one by one ends in.
LEMMA UploadsJoin ==
  ASSUME NEW m \in Inputs, m.kind = "tfjs"
  PROVE  /\ Pieces(m) \in Seq(Seq(Byte)) /\ Len(Pieces(m)) = Len(m.files) /\ Len(m.files) \in Nat
         /\ Joins(Byte, Pieces(m), Joined(m))
         /\ Uploaded(m) = Joined(m)[Len(m.files)]
         /\ \A i \in 1 .. Len(m.files) : /\ m.files[i] \in ToSet(m.files)
                                         /\ Pieces(m)[i] = Shards(m)[m.files[i]]
  <1>1. m.files \in Seq(STRING) /\ \A f \in ToSet(m.files) : m.sizes[f] \in Nat
    BY InputsAssumption
  <1>2. DOMAIN m.files = 1 .. Len(m.files) /\ Len(m.files) \in Nat
    BY <1>1
  <1>3. \A i \in 1 .. Len(m.files) : m.files[i] \in ToSet(m.files)
    BY <1>2 DEF ToSet
  <1>4. \A i \in 1 .. Len(m.files) :
          Pieces(m)[i] = [j \in 1 .. m.sizes[m.files[i]] |-> <<m.files[i], j>>]
    BY <1>2 DEF Pieces
  <1>5. ASSUME NEW i \in 1 .. Len(m.files) PROVE Pieces(m)[i] \in Seq(Byte)
    <2>1. m.files[i] \in STRING /\ m.sizes[m.files[i]] \in Nat
      BY <1>1, <1>3
    <2>2. [j \in 1 .. m.sizes[m.files[i]] |-> <<m.files[i], j>>]
            \in [1 .. m.sizes[m.files[i]] -> Byte]
      BY <2>1 DEF Byte
    <2>3. [j \in 1 .. m.sizes[m.files[i]] |-> <<m.files[i], j>>] \in Seq(Byte)
      BY <2>1, <2>2, MapIsSeq, Zenon
    <2> QED
      BY <1>4, <2>3, Zenon
  <1>6. Pieces(m) \in [1 .. Len(m.files) -> Seq(Byte)]
    BY <1>2, <1>5 DEF Pieces
  <1>7. Pieces(m) \in Seq(Seq(Byte)) /\ Len(Pieces(m)) = Len(m.files)
    BY <1>2, <1>6, IsASeq, LenProperties
  <1>8. Uploaded(m) = FlattenSeq(Pieces(m))
    BY DEF Uploaded, Pieces
  <1>9. \E f : Joins(Byte, Pieces(m), f) /\ Uploaded(m) = f[Len(Pieces(m))]
    BY <1>7, <1>8, FlattenJoins
  <1>10. Joins(Byte, Pieces(m), Joined(m)) /\ Uploaded(m) = Joined(m)[Len(Pieces(m))]
    BY <1>9, Zenon DEF Joined
  <1>11. \A i \in 1 .. Len(m.files) : Pieces(m)[i] = Shards(m)[m.files[i]]
    BY <1>3, <1>4 DEF Shards
  <1> QED
    BY <1>2, <1>3, <1>7, <1>10, <1>11

\* A position in a piece, moved behind what comes before the piece.
LEMMA PlusInRange ==
  ASSUME NEW a \in Nat, NEW b \in Nat, NEW c, c = a + b, NEW p \in 1 .. b
  PROVE  a + p \in 1 .. c
  OBVIOUS

\* Where the bytes of the next shard are in the uploads put together.
PieceAt(m, k) ==
    LET bytes == Shards(m)[m.files[k + 1]]
        start == Len(Joined(m)[k])
    IN /\ start \in Nat /\ Len(bytes) \in Nat
       /\ Len(Joined(m)[k + 1]) = start + Len(bytes)
       /\ start + Len(bytes) <= Len(Uploaded(m)) /\ Len(Uploaded(m)) \in Nat
       /\ \A p \in 1 .. Len(bytes) : Uploaded(m)[start + p] = bytes[p]

\* The next shard stands behind the uploads joined so far.
LEMMA NextPiece ==
  ASSUME NEW m \in Inputs, m.kind = "tfjs", NEW k \in 0 .. Len(m.files) - 1
  PROVE  PieceAt(m, k)
  <1> DEFINE f == Joined(m)
             q == Pieces(m)
             j == k + 1
  <1>1. /\ q \in Seq(Seq(Byte)) /\ Len(q) = Len(m.files) /\ Len(m.files) \in Nat
        /\ Joins(Byte, q, f) /\ Uploaded(m) = f[Len(m.files)]
        /\ \A i \in 1 .. Len(m.files) : q[i] = Shards(m)[m.files[i]]
    BY UploadsJoin
  <1>2. j \in 1 .. Len(q) /\ j \in 0 .. Len(q) /\ j - 1 = k /\ Len(q) \in j .. Len(q)
    BY <1>1
  <1> HIDE DEF f, q, j
  <1>3. JoinedAt(Byte, q, f, j)
    BY <1>1, <1>2, JoinsStep
  <1>4. /\ f[k] \in Seq(Byte) /\ q[j] \in Seq(Byte) /\ f[j] \in Seq(Byte)
        /\ Len(f[j]) = Len(f[k]) + Len(q[j])
        /\ \A p \in 1 .. Len(q[j]) : f[j][Len(f[k]) + p] = q[j][p]
    BY <1>2, <1>3, Zenon DEF JoinedAt
  <1>5. /\ Len(f[j]) <= Len(f[Len(q)])
        /\ \A p \in 1 .. Len(f[j]) : f[Len(q)][p] = f[j][p]
    <2>1. InFront(f, j, Len(q))
      BY <1>1, <1>2, JoinsPrefix, Zenon
    <2> QED
      BY <2>1, Zenon DEF InFront
  <1>6. f[Len(q)] \in Seq(Byte)
    <2>1. Len(q) \in 0 .. Len(q)
      BY <1>1
    <2> QED
      BY <1>1, <2>1, JoinsPrefix, Zenon
  <1>7. Len(f[k]) \in Nat /\ Len(q[j]) \in Nat /\ Len(f[Len(q)]) \in Nat
    BY <1>4, <1>6, LenProperties
  <1>8. ASSUME NEW p \in 1 .. Len(q[j]) PROVE f[Len(q)][Len(f[k]) + p] = q[j][p]
    <2>1. Len(f[k]) + p \in 1 .. Len(f[j])
      BY <1>4, <1>7, PlusInRange, Zenon
    <2> QED
      BY <1>4, <1>5, <2>1, Zenon
  <1>9. q[j] = Shards(m)[m.files[j]]
    BY <1>1, <1>2
  <1>10. Len(f[k]) + Len(q[j]) <= Len(f[Len(q)])
    BY <1>4, <1>5, Zenon
  <1> QED
    BY <1>1, <1>4, <1>7, <1>8, <1>9, <1>10 DEF f, j, PieceAt

\* The index arithmetic of Overlay: position i of the buffer is taken from
\* the shard exactly when its byte lies there.
Lands(off, start, n, from, copied, i) ==
    /\ off + i <= start => ~(i > from - off /\ i <= (from - off) + copied)
    /\ off + i > start /\ off + i <= start + n =>
         /\ i > from - off /\ i <= (from - off) + copied
         /\ (from - start) + (i - (from - off)) = (off + i) - start
         /\ (off + i) - start \in 1 .. n

\* read_one_shard's arithmetic: which bytes of a tensor a shard provides.
LEMMA OverlayIndex ==
  \A off, len, start, n \in Nat :
    \A from, to, copied :
      from = Most(off, start) /\ to = Least(off + len, start + n)
        /\ copied = (IF to > from THEN to - from ELSE 0)
      => \A i \in 1 .. len : Lands(off, start, n, from, copied, i)
  BY DEF Most, Least, Lands

\* One shard laid over a buffer: the buffer keeps its length, and what was in
\* place up to the start of the shard is in place up to its end.
LEMMA OverlayFills ==
  ASSUME NEW e, e.off \in Nat, e.len \in Nat, NEW start \in Nat,
         NEW bytes, Len(bytes) \in Nat, NEW U,
         NEW buf, Sized(e, buf), Filled(e, buf, U, start),
         \A p \in 1 .. Len(bytes) : U[start + p] = bytes[p]
  PROVE  Filled(e, Overlay(e, buf, bytes, start), U, start + Len(bytes))
  <1> DEFINE off == e.off
             len == e.len
             n == Len(bytes)
             from == Most(off, start)
             to == Least(off + len, start + n)
             copied == IF to > from THEN to - from ELSE 0
             new == Overlay(e, buf, bytes, start)
  <1>0. off \in Nat /\ len \in Nat /\ n \in Nat
    OBVIOUS
  <1>1. new = [i \in 1 .. len |-> IF i > from - off /\ i <= (from - off) + copied
                                  THEN bytes[(from - start) + (i - (from - off))]
                                  ELSE buf[i]]
    BY DEF Overlay, Sized
  <1> HIDE DEF new
  <1> SUFFICES ASSUME NEW i \in 1 .. len, off + i <= start + n PROVE new[i] = U[off + i]
    BY Zenon DEF new, Filled
  <1>2. new[i] = IF i > from - off /\ i <= (from - off) + copied
                 THEN bytes[(from - start) + (i - (from - off))]
                 ELSE buf[i]
    BY <1>1, Zenon
  <1>3. Lands(off, start, n, from, copied, i)
    <2>1. from = Most(off, start) /\ to = Least(off + len, start + n)
      OBVIOUS
    <2>2. copied = (IF to > from THEN to - from ELSE 0)
      OBVIOUS
    <2> HIDE DEF off, len, n, from, to, copied
    <2> QED
      BY <1>0, <2>1, <2>2, OverlayIndex, Zenon
  <1>4. CASE off + i <= start
    BY <1>2, <1>3, <1>4, Zenon DEF Lands, Filled
  <1>5. CASE off + i > start
    <2>1. new[i] = bytes[(off + i) - start] /\ (off + i) - start \in 1 .. n
      BY <1>2, <1>3, <1>5, Zenon DEF Lands
    <2>2. U[start + ((off + i) - start)] = bytes[(off + i) - start]
      BY <2>1, Zenon
    <2>3. start + ((off + i) - start) = off + i
      BY <1>0
    <2> QED
      BY <2>1, <2>2, <2>3, Zenon
  <1>6. off + i <= start \/ off + i > start
    BY <1>0
  <1> QED
    BY <1>4, <1>5, <1>6, Zenon

\* A shard leaves the length of a tensor's buffer alone.
LEMMA OverlayLength ==
  ASSUME NEW e, NEW bytes, NEW start, NEW buf, Sized(e, buf)
  PROVE  Sized(e, Overlay(e, buf, bytes, start))
  <1>1. DOMAIN buf = 1 .. e.len
    BY DEF Sized
  <1> QED
    BY <1>1, Zenon DEF Overlay, Sized

\* A buffer that is filled is the slice.
LEMMA FilledIsSlice ==
  ASSUME NEW U, U \in Seq(Byte), NEW e, e.off \in Nat, e.len \in Nat, e.off + e.len <= Len(U),
         NEW buf, Sized(e, buf), Filled(e, buf, U, Len(U))
  PROVE  buf = SubSeq(U, e.off + 1, e.off + e.len)
  <1> DEFINE s == SubSeq(U, e.off + 1, e.off + e.len)
  <1>1. s = [i \in 1 .. e.len |-> U[e.off + i]]
    <2>1. ASSUME NEW a \in Nat, NEW b \in Nat, a + b <= Len(U)
          PROVE  SubSeq(U, a + 1, a + b) = [i \in 1 .. b |-> U[a + i]]
      OBVIOUS
    <2> QED
      BY <2>1
  <1> HIDE DEF s
  <1>2. ASSUME NEW i \in 1 .. e.len PROVE buf[i] = U[e.off + i]
    <2>1. e.off + i <= Len(U)
      <3>1. Len(U) \in Nat
        OBVIOUS
      <3>2. \A a, b, c \in Nat : a + b <= c => \A j \in 1 .. b : a + j <= c
        OBVIOUS
      <3> QED
        BY <3>1, <3>2, Zenon
    <2> QED
      BY <2>1, Zenon DEF Filled
  <1>3. buf = [i \in 1 .. e.len |-> U[e.off + i]]
    BY <1>2, Zenon DEF Sized
  <1> QED
    BY <1>1, <1>3, Zenon DEF s

\* What flattening a list of sequences over X returns is a sequence over X.
LEMMA FlattenType ==
  ASSUME NEW X, NEW q \in Seq(Seq(X))
  PROVE  FlattenSeq(q) \in Seq(X)
  <1>1. PICK f : Joins(X, q, f) /\ FlattenSeq(q) = f[Len(q)]
    BY FlattenJoins
  <1>2. Len(q) \in 0 .. Len(q)
    OBVIOUS
  <1> QED
    BY <1>1, <1>2, Zenon DEF Joins

\* Sequences of at most two elements.
LEMMA ShortSeqs ==
  ASSUME NEW X
  PROVE  /\ <<>> \in Seq(X)
         /\ \A x \in X : <<x>> \in Seq(X)
         /\ \A x, y \in X : <<x, y>> \in Seq(X)
  OBVIOUS

\* Labels read back are labels.
LEMMA ReadLabelsType ==
  ASSUME NEW ls \in Seq(Text)
  PROVE  ReadLabels(ls) \in Seq(Text)
  <1> DEFINE q == [i \in DOMAIN ls |-> Parts(ls[i])]
             raw == Lines(ls)
             r == [i \in DOMAIN raw |-> IF NotBlank(Trim(raw[i])) THEN <<Trim(raw[i])>> ELSE <<>>]
  <1>1. \A l \in Text : Parts(l) \in Seq(Text) /\ Trim(l) \in Text
    <2> TAKE l \in Text
    <2>1. "two" \in Text /\ "lines" \in Text /\ "padded" \in Text /\ "" \in Text
      BY DEF Text
    <2>2. <<l>> \in Seq(Text) /\ <<"two", "lines">> \in Seq(Text)
      BY <2>1, ShortSeqs, Zenon
    <2>3. Parts(l) \in Seq(Text)
      BY <2>2, Zenon DEF Parts
    <2>4. Trim(l) \in Text
      BY <2>1 DEF Trim
    <2> QED
      BY <2>3, <2>4
  <1>2. q \in Seq(Seq(Text))
    <2>1. DOMAIN ls = 1 .. Len(ls) /\ Len(ls) \in Nat
      OBVIOUS
    <2>2. \A i \in 1 .. Len(ls) : ls[i] \in Text
      OBVIOUS
    <2>3. q \in [1 .. Len(ls) -> Seq(Text)]
      BY <1>1, <2>1, <2>2, Zenon
    <2> QED
      BY <2>1, <2>3, MapIsSeq, Zenon
  <1>3. raw \in Seq(Text)
    BY <1>2, FlattenType DEF Lines
  <1> HIDE DEF raw
  <1>4. r \in Seq(Seq(Text))
    <2>1. DOMAIN raw = 1 .. Len(raw) /\ Len(raw) \in Nat
      BY <1>3
    <2>2. \A i \in 1 .. Len(raw) : raw[i] \in Text
      BY <1>3
    <2>4. \A l \in Text : <<l>> \in Seq(Text) /\ <<>> \in Seq(Text)
      BY ShortSeqs, Zenon
    <2>5. ASSUME NEW i \in 1 .. Len(raw)
          PROVE  (IF NotBlank(Trim(raw[i])) THEN <<Trim(raw[i])>> ELSE <<>>) \in Seq(Text)
      BY <1>1, <2>2, <2>4
    <2>3. r \in [1 .. Len(raw) -> Seq(Text)]
      BY <2>1, <2>5, Zenon
    <2> QED
      BY <2>1, <2>3, MapIsSeq, Zenon
  <1>5. ReadLabels(ls) = FlattenSeq(r)
    BY DEF ReadLabels, raw
  <1> QED
    BY <1>4, <1>5, FlattenType

----------------------------------------------------------------------------
\* What the split computes.

\* The validation side of a class of n gets none without a split, and with
\* one leaves at least one example on either side.
Leaves(n, quarters) ==
    /\ ValidationSize(n, quarters) \in 0 .. n - 1
    /\ ValidationSize(n, quarters) > 0 <=> quarters > 0

\* The rounded and clamped validation size leaves both sides of a class non-empty.
LEMMA ValidationSizeBounds ==
  ASSUME NEW n \in Nat, n >= 1, NEW quarters \in 0 .. 3, quarters > 0 => n # 1
  PROVE  Leaves(n, quarters)
  <1>1. CASE quarters = 0
    <2>1. (2 * n * quarters + 4) \div 8 = 0
      BY <1>1
    <2> QED
      BY <1>1, <2>1 DEF ValidationSize, Least, Most, Leaves
  <1>2. CASE quarters > 0
    <2> DEFINE r == (2 * n * quarters + 4) \div 8
    <2>1. r \in Int
      <3>1. 2 * n * quarters + 4 \in Int
        OBVIOUS
      <3> QED
        BY <3>1
    <2> HIDE DEF r
    <2>2. ValidationSize(n, quarters) = Least(Most(r, 1), Most(n - 1, 1))
      BY <1>2 DEF ValidationSize, r
    <2> QED
      BY <1>2, <2>1, <2>2 DEF Least, Most, Leaves
  <1> QED
    BY <1>1, <1>2

\* The examples of a class are finitely many, and no example is of two.
LEMMA KeptFinite ==
  ASSUME src \in Inputs, src.kind = "dataset", NEW i, labels[i] \in FolderNames(src)
  PROVE  IsFiniteSet(Kept(i)) /\ \A x \in Kept(i) : x[1] = i
  <1> DEFINE good == {j \in DOMAIN src.folders[labels[i]].samples :
                        KeptSample(src.folders[labels[i]].samples[j])}
  <1>1. IsFiniteSet(DOMAIN src.folders[labels[i]].samples)
    BY InputsAssumption
  <1>2. IsFiniteSet(good)
    BY <1>1, FS_Subset, Zenon
  <1>3. Good(labels[i]) = Cardinality(good)
    BY DEF Good
  <1>4. Good(labels[i]) \in Nat
    BY <1>2, <1>3, FS_CardinalityType
  <1>5. IsFiniteSet(1 .. Good(labels[i])) /\ IsFiniteSet({i})
    <2>1. 1 \in Int /\ Good(labels[i]) \in Int
      BY <1>4
    <2> QED
      BY <2>1, FS_Interval, FS_Singleton, Zenon
  <1> QED
    BY <1>5, FS_Product DEF Kept

\* Cutting every class in two, as asked, is a sound split.
CutInTwo(C, kept, val, quarters) ==
    LET all == UNION {kept[i] : i \in C} IN
    /\ (all \ val) \cap val = {} /\ (all \ val) \cup val = all
    /\ \A i \in C : /\ (all \ val) \cap kept[i] # {}
                    /\ (val \cap kept[i] # {}) = (quarters > 0)

\* The union of the classes' validation sides cuts every class on its own.
LEMMA SplitCuts ==
  ASSUME NEW C, NEW kept, NEW pick, NEW quarters \in 0 .. 3, NEW val,
         val = UNION {pick[i] : i \in C},
         \A i \in C : /\ IsFiniteSet(kept[i]) /\ kept[i] # {}
                      /\ \A x \in kept[i] : x[1] = i
                      /\ quarters > 0 => Cardinality(kept[i]) # 1
                      /\ pick[i] \subseteq kept[i]
                      /\ Cardinality(pick[i]) = ValidationSize(Cardinality(kept[i]), quarters)
  PROVE  CutInTwo(C, kept, val, quarters)
  <1> DEFINE all == UNION {kept[i] : i \in C}
  <1>1. val \subseteq all
    OBVIOUS
  <1>2. ASSUME NEW i \in C
        PROVE  (all \ val) \cap kept[i] # {} /\ (val \cap kept[i] # {}) = (quarters > 0)
    <2>1. kept[i] \subseteq all /\ pick[i] \subseteq kept[i] /\ pick[i] \subseteq val
      OBVIOUS
    <2>2. val \cap kept[i] = pick[i]
      <3>1. \A j \in C : \A x \in pick[j] : x[1] = j
        OBVIOUS
      <3>2. \A x \in val : \E j \in C : x \in pick[j]
        OBVIOUS
      <3>3. \A x \in kept[i] : x[1] = i
        OBVIOUS
      <3>4. ASSUME NEW x \in val, x \in kept[i] PROVE x \in pick[i]
        BY <3>1, <3>2, <3>3, <3>4
      <3> QED
        BY <2>1, <3>4
    <2>3. /\ IsFiniteSet(kept[i]) /\ IsFiniteSet(pick[i])
          /\ Cardinality(kept[i]) \in Nat /\ Cardinality(kept[i]) # 0
      BY <2>1, FS_Subset, FS_CardinalityType, FS_EmptySet
    <2>4. /\ Cardinality(pick[i]) \in 0 .. Cardinality(kept[i]) - 1
          /\ Cardinality(pick[i]) > 0 <=> quarters > 0
      <3>1. Cardinality(kept[i]) >= 1
        BY <2>3
      <3>2. Cardinality(pick[i]) = ValidationSize(Cardinality(kept[i]), quarters)
        OBVIOUS
      <3>3. quarters > 0 => Cardinality(kept[i]) # 1
        OBVIOUS
      <3>4. Leaves(Cardinality(kept[i]), quarters)
        BY <2>3, <3>1, <3>3, ValidationSizeBounds, Zenon
      <3> QED
        BY <3>2, <3>4, Zenon DEF Leaves
    <2>5. pick[i] # kept[i]
      <3>1. Cardinality(pick[i]) # Cardinality(kept[i])
        BY <2>3, <2>4
      <3> QED
        BY <3>1
    <2>6. (pick[i] # {}) = (quarters > 0)
      <3>1. pick[i] = {} <=> Cardinality(pick[i]) = 0
        BY <2>3, FS_EmptySet
      <3>2. (Cardinality(pick[i]) # 0) <=> quarters > 0
        BY <2>4
      <3> QED
        BY <3>1, <3>2
    <2>7. \E x \in kept[i] : x \notin pick[i]
      BY <2>1, <2>5
    <2>8. (all \ val) \cap kept[i] # {}
      BY <2>1, <2>2, <2>7, Zenon
    <2> QED
      BY <2>2, <2>6, <2>8
  <1> QED
    BY <1>1, <1>2 DEF CutInTwo

----------------------------------------------------------------------------
\* The invariant is inductive.

\* Which parts say nothing where.
LEMMA FailedInv ==
  ASSUME phase' = "failed", src' \in Inputs
  PROVE  PipeInv'
  <1>1. SourceOk' /\ PlanOk' /\ StagingOk' /\ ReadingOk'
    BY DEF SourceOk, PlanOk, StagingOk, ReadingOk, Phases, Published
  <1>2. ConvertedOk' /\ ConvertedLabels' /\ ClassesOk' /\ TrainedOk' /\ FileOk'
    BY DEF ConvertedOk, ConvertedLabels, ClassesOk, TrainedOk, FileOk, Published
  <1>3. SplitSound' /\ PublishedHeadServes'
    BY DEF SplitSound, PublishedHeadServes
  <1> QED
    BY <1>1, <1>2, <1>3 DEF PipeInv

\* The parts that hold trivially because of the job's kind or its phase.
LEMMA OtherKinds ==
  /\ src'.kind = "tfjs" => ClassesOk' /\ TrainedOk' /\ SplitSound'
  /\ src'.kind # "tfjs" => StagingOk' /\ ConvertedOk' /\ ConvertedLabels'
  /\ phase' \notin Published => FileOk' /\ PublishedHeadServes'
  /\ phase' \notin {"stage", "read", "blob"} => PlanOk' /\ ReadingOk'
  /\ phase' \notin {"labels", "write"} \cup Published => ConvertedOk' /\ ConvertedLabels'
  <1>1. src'.kind = "tfjs" => ClassesOk' /\ TrainedOk' /\ SplitSound'
    BY DEF ClassesOk, TrainedOk, SplitSound
  <1>2. src'.kind # "tfjs" => StagingOk' /\ ConvertedOk' /\ ConvertedLabels'
    BY DEF StagingOk, ConvertedOk, ConvertedLabels
  <1>3. phase' \notin Published => FileOk' /\ PublishedHeadServes'
    BY DEF FileOk, PublishedHeadServes, Published
  <1>4. phase' \notin {"stage", "read", "blob"} => PlanOk' /\ ReadingOk'
    BY DEF PlanOk, ReadingOk
  <1>5. phase' \notin {"labels", "write"} \cup Published => ConvertedOk' /\ ConvertedLabels'
    BY DEF ConvertedOk, ConvertedLabels, Published
  <1> QED
    BY <1>1, <1>2, <1>3, <1>4, <1>5

\* Before the first job.
LEMMA PipeInitInv == PipeInit => PipeInv
  <1> SUFFICES ASSUME PipeInit PROVE PipeInv
    OBVIOUS
  <1> USE DEF PipeInit
  <1>1. SourceOk /\ PlanOk /\ StagingOk /\ ReadingOk
    BY DEF SourceOk, PlanOk, StagingOk, ReadingOk, Phases, Published
  <1>2. ConvertedOk /\ ConvertedLabels /\ ClassesOk /\ TrainedOk /\ FileOk
    BY DEF ConvertedOk, ConvertedLabels, ClassesOk, TrainedOk, FileOk, Published
  <1>3. SplitSound /\ PublishedHeadServes
    BY DEF SplitSound, PublishedHeadServes
  <1> QED
    BY <1>1, <1>2, <1>3 DEF PipeInv

\* The examples of a class depend on the source and the labels only.
LEMMA KeptSame ==
  ASSUME src' = src, labels' = labels
  PROVE  AllKept' = AllKept /\ \A i : Kept(i)' = Kept(i)
  <1>1. \A l : Good(l)' = Good(l)
    BY DEF Good
  <1>2. \A i : Kept(i)' = Kept(i)
    BY <1>1 DEF Kept
  <1> QED
    BY <1>2 DEF AllKept

\* Steps after the split leave the classes alone.
LEMMA ClassesFrame ==
  ASSUME ClassesOk, src' = src, labels' = labels, src.kind = "dataset",
         phase' \in {"train", "write"} \cup Published,
         phase \in {"split", "train", "write"} \cup Published
  PROVE  ClassesOk'
  BY KeptSame DEF ClassesOk, Published

\* Steps that leave the split alone keep it sound.
LEMMA SplitFrame ==
  ASSUME SplitSound, src' = src, labels' = labels, split' = split,
         phase' \in {"train", "write", "published", "serving"} =>
            phase \in {"train", "write", "published", "serving"}
  PROVE  SplitSound'
  BY KeptSame DEF SplitSound

\* A step that changes nothing, such as that of a job that ended.
LEMMA DoneInv == ASSUME PipeInv, UNCHANGED pipeVars PROVE PipeInv'
  <1>1. SourceOk' /\ PlanOk' /\ StagingOk' /\ ReadingOk'
    BY DEF PipeInv, pipeVars, SourceOk, PlanOk, StagingOk, ReadingOk, Untouched, StagedUpTo, Filled
  <1>2. ConvertedOk' /\ ConvertedLabels' /\ FileOk'
    BY DEF PipeInv, pipeVars, ConvertedOk, ConvertedLabels, FileOk, Finite
  <1>3. ClassesOk' /\ SplitSound'
    BY KeptSame, SplitFrame DEF PipeInv, pipeVars, ClassesOk
  <1>5. TrainedOk'
    BY DEF PipeInv, pipeVars, TrainedOk, Trained
  <1>4. PublishedHeadServes'
    BY DEF PipeInv, pipeVars, PublishedHeadServes, AllClean, IsFinite, Finite
  <1> QED
    BY <1>1, <1>2, <1>3, <1>4, <1>5 DEF PipeInv

\* Beginnings.  An upload is there as it was sent.
LEMMA UploadsAreThere ==
  ASSUME NEW m, src' = m, content' = Shards(m)
  PROVE  Untouched'
  BY DEF Untouched, Shards

\* A conversion job finds its files.
LEMMA ConvertBeginInv ==
  ASSUME PipeInv, phase = "idle", NEW m \in Inputs, ConvertBegin(m)
  PROVE  PipeInv'
  <1>1. CASE phase' = "failed"
    BY <1>1, FailedInv DEF ConvertBegin
  <1>2. CASE phase' = "parse"
    <2>1. SourceOk'
      BY <1>2 DEF PipeInv, SourceOk, ConvertBegin, Phases, Published
    <2>2. Untouched'
      BY UploadsAreThere DEF ConvertBegin
    <2>3. StagingOk'
      BY <1>2, <2>2 DEF StagingOk
    <2>4. src'.kind = "tfjs" /\ phase' \notin Published
      BY <1>2 DEF ConvertBegin, Published
    <2> QED
      BY <1>2, <2>1, <2>3, <2>4, OtherKinds DEF PipeInv, Published
  <1> QED
    BY <1>1, <1>2 DEF ConvertBegin

\* A training job begins.
LEMMA TrainBeginInv ==
  ASSUME PipeInv, phase = "idle", NEW m \in Inputs, TrainBegin(m)
  PROVE  PipeInv'
  <1>1. CASE phase' = "failed"
    BY <1>1, FailedInv DEF TrainBegin
  <1>2. CASE phase' = "scan"
    <2>1. SourceOk'
      BY <1>2 DEF PipeInv, SourceOk, TrainBegin, Phases, Published
    <2>2. src' = m /\ src'.kind = "dataset" /\ phase' \notin Published
      BY <1>2 DEF TrainBegin, Published
    <2>3. \A n \in FolderNames(m) : Component(n)
      <3>1. ASSUME NEW n, UploadAccepted(<<"datasets", n, "a.wav">>) PROVE Component(n)
        BY <3>1 DEF UploadAccepted
      <3> QED
        BY <3>1 DEF TrainBegin
    <2>4. m.cfg.quarters \in 0 .. 3
      BY <1>2 DEF TrainBegin, TrainingCfgOk
    <2>5. ClassesOk'
      BY <1>2, <2>2, <2>3, <2>4 DEF ClassesOk, Published
    <2>6. TrainedOk' /\ SplitSound'
      BY <1>2 DEF TrainedOk, SplitSound, Published
    <2> QED
      BY <1>2, <2>1, <2>2, <2>5, <2>6, OtherKinds DEF PipeInv
  <1> QED
    BY <1>1, <1>2 DEF TrainBegin

\* The bundled head is staged as found.
LEMMA BundledBeginInv ==
  ASSUME PipeInv, phase = "idle", NEW m \in Inputs, BundledBegin(m)
  PROVE  PipeInv'
  <1>1. CASE phase' = "failed"
    BY <1>1, FailedInv DEF BundledBegin
  <1>2. CASE phase' = "published"
    <2>1. src' = m /\ src'.kind = "bundled"
      BY DEF BundledBegin
    <2>2. SourceOk'
      BY <1>2, <2>1 DEF PipeInv, SourceOk, Phases, Published
    <2>3. ClassesOk' /\ TrainedOk' /\ SplitSound' /\ FileOk'
      BY <2>1 DEF ClassesOk, TrainedOk, SplitSound, FileOk
    <2>4. PublishedHeadServes'
      BY <1>2 DEF PublishedHeadServes
    <2> QED
      BY <1>2, <2>1, <2>2, <2>3, <2>4, OtherKinds DEF PipeInv
  <1> QED
    BY <1>1, <1>2 DEF BundledBegin

\* Training.
LEMMA TrainScanInv ==
  ASSUME PipeInv, TrainScan
  PROVE  PipeInv'
  <1>0. src' = src /\ src \in Inputs /\ src.kind = "dataset"
    BY DEF PipeInv, SourceOk, TrainScan
  <1>1. CASE phase' = "failed"
    BY <1>0, <1>1, FailedInv
  <1>2. CASE phase' = "extract"
    <2> DEFINE ns == FolderNames(src)
    <2>1. ScanOk(src) /\ labels' \in Sorted(ns)
      BY <1>2 DEF TrainScan
    <2>2. Cardinality(ns) \in Nat /\ Cardinality(ns) >= 2
      <3>1. IsFiniteSet(ns)
        BY <1>0, InputsAssumption
      <3> QED
        BY <2>1, <3>1, FS_CardinalityType DEF ScanOk
    <2>3. labels' \in [1 .. Cardinality(ns) -> ns]
      BY <2>1 DEF Sorted
    <2>4. labels' \in Seq(ns) /\ Len(labels') = Cardinality(ns)
      BY <2>2, <2>3, MapIsSeq, Zenon
    <2>5. labels' # <<>>
      BY <2>2, <2>4
    <2> HIDE DEF ns
    <2>6. ClassesOk'
      <3>1. (\A n \in ns : Component(n)) /\ src.cfg.quarters \in 0 .. 3
        BY <1>0 DEF PipeInv, ClassesOk, TrainScan, ns
      <3> QED
        BY <1>0, <1>2, <2>4, <2>5, <3>1 DEF ClassesOk, Published, ns
    <2>7. SourceOk'
      BY <1>0, <1>2 DEF PipeInv, SourceOk, TrainScan, Phases, Published
    <2>8. TrainedOk' /\ SplitSound'
      BY <1>2 DEF TrainedOk, SplitSound, Published
    <2> QED
      BY <1>0, <1>2, <2>6, <2>7, <2>8, OtherKinds DEF PipeInv, Published
  <1> QED
    BY <1>1, <1>2 DEF TrainScan

\* With an example in every class there are at most as many classes as
\* examples, so the cap on examples bounds the classes.
LEMMA ClassesUnderCap ==
  ASSUME src \in Inputs, src.kind = "dataset",
         labels \in Seq(FolderNames(src)), labels # <<>>,
         Cardinality(Examples) <= MaxExamples,
         \A i \in DOMAIN labels : Kept(i) # {}
  PROVE  Len(labels) <= MaxLoadable
  <1> DEFINE D == DOMAIN labels
             samples(i) == DOMAIN src.folders[labels[i]].samples
             part(i) == {i} \X samples(i)
             parts == {part(i) : i \in D}
  <1>1. D = 1 .. Len(labels) /\ Len(labels) \in Nat
    BY EmptySeq
  <1>2. IsFiniteSet(D) /\ Cardinality(D) = Len(labels)
    <2>1. 1 \in Int /\ Len(labels) \in Int
      BY <1>1
    <2>2. IsFiniteSet(1 .. Len(labels))
          /\ Cardinality(1 .. Len(labels)) = IF 1 > Len(labels) THEN 0 ELSE Len(labels) - 1 + 1
      BY <2>1, FS_Interval
    <2> QED
      BY <1>1, <2>2
  <1>3. \A i \in D : IsFiniteSet(samples(i))
    BY InputsAssumption
  <1>4. \A i \in D : samples(i) # {}
    <2> SUFFICES ASSUME NEW i \in D, samples(i) = {} PROVE FALSE
      OBVIOUS
    <2>1. {j \in samples(i) : KeptSample(src.folders[labels[i]].samples[j])} = {}
      OBVIOUS
    <2>2. Good(labels[i]) = 0
      BY <2>1, FS_EmptySet, Zenon DEF Good
    <2>3. 1 .. Good(labels[i]) = {}
      BY <2>2
    <2> QED
      BY <2>3 DEF Kept
  <1>5. \A i \in D : IsFiniteSet(part(i))
    BY <1>3, FS_Singleton, FS_Product
  <1>6. IsFiniteSet(parts)
    <2> DEFINE f == [i \in D |-> part(i)]
    <2>1. f \in Surjection(D, parts)
      BY DEF Surjection
    <2> HIDE DEF f
    <2> QED
      BY <1>2, <2>1, FS_Surjection
  <1>7. Examples = UNION parts
    BY DEF Examples
  <1>8. IsFiniteSet(Examples)
    <2>1. \A T \in parts : IsFiniteSet(T)
      BY <1>5
    <2> HIDE DEF parts
    <2> QED
      BY <1>6, <1>7, <2>1, FS_UNION
  <1>9. Cardinality(D) <= Cardinality(Examples)
    <2> DEFINE first == [x \in Examples |-> x[1]]
    <2>1. \A i \in D : \E x \in Examples : x[1] = i
      <3> SUFFICES ASSUME NEW i \in D PROVE \E x \in Examples : x[1] = i
        OBVIOUS
      <3>1. PICK j : j \in samples(i)
        BY <1>4
      <3>2. <<i, j>> \in Examples
        BY <3>1 DEF Examples
      <3> QED
        BY <3>2
    <2>2. \A x \in Examples : x[1] \in D
      BY DEF Examples
    <2> HIDE DEF D
    <2>3. first \in Surjection(Examples, D)
      BY <2>1, <2>2 DEF Surjection
    <2> HIDE DEF first
    <2> QED
      BY <1>8, <2>3, FS_Surjection
  <1>10. Cardinality(Examples) \in Nat
    BY <1>8, FS_CardinalityType
  <1> QED
    BY <1>1, <1>2, <1>9, <1>10, PipelineAssumption

\* The trainer goes on with what is left after the drops, or gives up.
LEMMA TrainExtractInv ==
  ASSUME PipeInv, TrainExtract
  PROVE  PipeInv'
  <1>0. src' = src /\ src \in Inputs /\ src.kind = "dataset" /\ phase = "extract" /\ labels' = labels
    BY DEF PipeInv, SourceOk, TrainExtract, Goto
  <1>1. CASE phase' = "failed"
    BY <1>0, <1>1, FailedInv
  <1>2. CASE phase' = "split"
    <2>1. \A i \in DOMAIN labels : Kept(i) # {}
      BY <1>2 DEF TrainExtract, Goto, QualityOk
    <2>2. Cardinality(Examples) <= MaxExamples
      BY <1>2 DEF TrainExtract, Goto
    <2>3. labels \in Seq(FolderNames(src)) /\ labels # <<>>
      BY <1>0 DEF PipeInv, ClassesOk
    <2>4. Len(labels) <= MaxLoadable
      BY <1>0, <2>1, <2>2, <2>3, ClassesUnderCap
    <2>5. ClassesOk'
      BY <1>0, <1>2, <2>1, <2>4, KeptSame DEF PipeInv, ClassesOk, Published
    <2>6. SourceOk'
      BY <1>0, <1>2 DEF PipeInv, SourceOk, TrainExtract, Phases, Published
    <2>7. TrainedOk' /\ SplitSound'
      BY <1>2 DEF TrainedOk, SplitSound, Published
    <2> QED
      BY <1>0, <1>2, <2>5, <2>6, <2>7, OtherKinds DEF PipeInv, Published
  <1> QED
    BY <1>1, <1>2 DEF TrainExtract, Goto

\* The trainer cuts the dataset.
LEMMA TrainSplitInv ==
  ASSUME PipeInv, TrainSplit
  PROVE  PipeInv'
  <1>0. src' = src /\ src \in Inputs /\ src.kind = "dataset" /\ phase = "split" /\ labels' = labels
    BY DEF PipeInv, SourceOk, TrainSplit
  <1>1. CASE phase' = "failed"
    BY <1>0, <1>1, FailedInv
  <1>2. CASE phase' = "train"
    <2> DEFINE C == DOMAIN labels
               quarters == src.cfg.quarters
               kept == [i \in C |-> Kept(i)]
               held(i) == {v \in SUBSET kept[i] :
                             Cardinality(v) = ValidationSize(Cardinality(kept[i]), quarters)}
    <2>1. PICK pick \in [C -> UNION {held(i) : i \in C}] :
            /\ \A i \in C : pick[i] \in held(i)
            /\ split' = [train |-> AllKept \ UNION {pick[i] : i \in C},
                         val |-> UNION {pick[i] : i \in C}]
      BY <1>2 DEF TrainSplit
    <2>2. ~(quarters > 0 /\ \E i \in C : Cardinality(kept[i]) = 1)
      BY <1>2 DEF TrainSplit
    <2>3. quarters \in 0 .. 3 /\ labels \in Seq(FolderNames(src)) /\ \A i \in C : Kept(i) # {}
      BY <1>0 DEF PipeInv, ClassesOk
    <2>4. \A i \in C : labels[i] \in FolderNames(src)
      BY <2>3
    <2>5. \A i \in C : IsFiniteSet(Kept(i)) /\ \A x \in Kept(i) : x[1] = i
      BY <1>0, <2>4, KeptFinite
    <2> DEFINE val == UNION {pick[i] : i \in C}
               all == UNION {kept[i] : i \in C}
    <2>6. \A i \in C : /\ IsFiniteSet(kept[i]) /\ kept[i] # {}
                       /\ \A x \in kept[i] : x[1] = i
                       /\ quarters > 0 => Cardinality(kept[i]) # 1
                       /\ pick[i] \subseteq kept[i]
                       /\ Cardinality(pick[i]) = ValidationSize(Cardinality(kept[i]), quarters)
      BY <2>1, <2>2, <2>3, <2>5
    <2>7. all = AllKept /\ \A i \in C : kept[i] = Kept(i)
      BY DEF AllKept
    <2>8. split' = [train |-> all \ val, val |-> val]
      BY <2>1, <2>7
    <2>9. quarters \in 0 .. 3 /\ val = UNION {pick[i] : i \in C} /\ all = UNION {kept[i] : i \in C}
      BY <2>3
    <2> HIDE DEF kept, quarters, C, val, all
    <2>10. /\ (all \ val) \cap val = {} /\ (all \ val) \cup val = all
           /\ \A i \in C : /\ (all \ val) \cap kept[i] # {}
                           /\ (val \cap kept[i] # {}) = (quarters > 0)
      <3>1. CutInTwo(C, kept, val, quarters)
        BY <2>6, <2>9, SplitCuts, Zenon
      <3> QED
        BY <2>9, <3>1, Zenon DEF CutInTwo
    <2>11. split'.train = all \ val /\ split'.val = val
      BY <2>8
    <2>12. SplitSound'
      <3>1. AllKept' = AllKept /\ \A i : Kept(i)' = Kept(i)
        BY <1>0, KeptSame
      <3>2. (split'.train \cap split'.val = {}) /\ (split'.train \cup split'.val = AllKept')
        BY <2>7, <2>10, <2>11, <3>1
      <3>3. ASSUME NEW i \in C
            PROVE  /\ split'.train \cap Kept(i)' # {}
                   /\ (split'.val \cap Kept(i)' # {}) = (quarters > 0)
        BY <2>7, <2>10, <2>11, <3>1, Zenon
      <3> QED
        BY <1>0, <3>2, <3>3 DEF SplitSound, C, quarters
    <2>13. ClassesOk'
      BY <1>0, <1>2, ClassesFrame DEF PipeInv
    <2>14. SourceOk'
      BY <1>0, <1>2 DEF PipeInv, SourceOk, TrainSplit, Phases, Published
    <2>15. TrainedOk'
      BY <1>2 DEF TrainedOk, Published
    <2> QED
      BY <1>0, <1>2, <2>12, <2>13, <2>14, <2>15, OtherKinds DEF PipeInv, Published
  <1> QED
    BY <1>1, <1>2 DEF TrainSplit

\* The trainer ends with the weights of its best epoch.
LEMMA TrainHeadInv ==
  ASSUME PipeInv, NEW finite \in BOOLEAN, TrainHead(finite)
  PROVE  PipeInv'
  <1>0. /\ src' = src /\ src \in Inputs /\ src.kind = "dataset"
        /\ phase = "train" /\ phase' = "write" /\ labels' = labels /\ split' = split
    BY DEF PipeInv, SourceOk, TrainHead, Goto
  <1>1. TrainedOk'
    <2>1. weights' = Trained(finite)
      BY DEF TrainHead, Trained
    <2>2. Trained(finite)' = Trained(finite)
      BY <1>0 DEF Trained
    <2> QED
      BY <2>1, <2>2 DEF TrainedOk
  <1>2. ClassesOk' /\ SplitSound'
    BY <1>0, ClassesFrame, SplitFrame DEF PipeInv
  <1>3. SourceOk'
    BY <1>0 DEF PipeInv, SourceOk, TrainHead, Phases, Published
  <1> QED
    BY <1>0, <1>1, <1>2, <1>3, OtherKinds DEF PipeInv, Published

\* Writing the head.
LEMMA StagingFrame ==
  ASSUME StagingOk, src' = src, content' = content,
         phase \notin {"idle", "failed"}, phase' \notin {"stage", "read"}
  PROVE  StagingOk'
  BY DEF StagingOk, Untouched

\* Steps after the conversion leave its weights alone.
LEMMA ConvertedFrame ==
  ASSUME ConvertedOk, src' = src, weights' = weights, plan' = plan,
         phase \in {"labels", "write"} \cup Published
  PROVE  ConvertedOk'
  <1>1. \A t : Finite(t)' <=> Finite(t)
    BY DEF Finite
  <1> QED
    BY <1>1 DEF ConvertedOk

\* Steps after the training leave its weights alone.
LEMMA TrainedFrame ==
  ASSUME TrainedOk, src' = src, weights' = weights, labels' = labels,
         phase \in {"write"} \cup Published
  PROVE  TrainedOk'
  <1>1. \A finite \in BOOLEAN : Trained(finite)' = Trained(finite)
    BY DEF Trained
  <1> QED
    BY <1>1 DEF TrainedOk

\* A product of positive numbers is positive.
LEMMA Times == ASSUME NEW a \in Nat \ {0}, NEW b \in Nat \ {0} PROVE a * b \in Nat /\ a * b >= 1
  OBVIOUS

\* The sizes of a trained head.
LEMMA TrainedShape ==
  ASSUME NEW X, labels \in Seq(X), labels # <<>>, NEW finite, NEW w, w = Trained(finite)
  PROVE  /\ Len(labels) \in Nat \ {0} /\ DOMAIN labels = 1 .. Len(labels)
         /\ Dim * Len(labels) \in Nat /\ Dim * Len(labels) >= 1
         /\ Len(w.kernel) = Dim * Len(labels) /\ DOMAIN w.kernel = 1 .. Dim * Len(labels)
         /\ Len(w.bias) = Len(labels) /\ DOMAIN w.bias = 1 .. Len(labels)
         /\ w.classes = Len(labels)
         /\ w = [kernel |-> w.kernel, bias |-> w.bias, classes |-> w.classes]
  <1>1. Len(labels) \in Nat \ {0} /\ DOMAIN labels = 1 .. Len(labels)
    BY EmptySeq
  <1>2. Dim * Len(labels) \in Nat /\ Dim * Len(labels) >= 1
    BY <1>1, SizesPositive, Times, Zenon
  <1> DEFINE n == Dim * Len(labels)
  <1>3. /\ w.kernel = [i \in 1 .. n |-> w.kernel[i]]
        /\ w.bias = [i \in 1 .. Len(labels) |-> w.bias[i]]
        /\ w.classes = Len(labels)
        /\ w = [kernel |-> w.kernel, bias |-> w.bias, classes |-> w.classes]
    BY <1>1 DEF Trained
  <1>4. n \in Nat /\ Len(labels) \in Nat
    BY <1>1, <1>2
  <1> HIDE DEF n
  <1>5. /\ Len(w.kernel) = n /\ DOMAIN w.kernel = 1 .. n
        /\ Len(w.bias) = Len(labels) /\ DOMAIN w.bias = 1 .. Len(labels)
    BY <1>3, <1>4, FcnIsSeq, Zenon
  <1> QED
    BY <1>1, <1>2, <1>3, <1>5 DEF n

\* The head file holds the weights of its job.
LEMMA WriteHeadInv ==
  ASSUME PipeInv, WriteHead
  PROVE  PipeInv'
  <1>0. /\ src' = src /\ src \in Inputs /\ src.kind \in {"tfjs", "dataset"} /\ phase = "write"
        /\ labels' = labels /\ split' = split /\ weights' = weights /\ plan' = plan
        /\ content' = content
    BY DEF PipeInv, SourceOk, WriteHead
  <1>1. CASE phase' = "failed"
    BY <1>0, <1>1, FailedInv
  <1>2. CASE phase' = "published"
    <2>2. CASE src.kind = "tfjs"
      <3>0. weights.classes \in 1 .. MaxLoadable
        BY <1>2, <2>2 DEF WriteHead, TryNew
      <3>1. file' = HeadFile(weights)
        BY <1>2, <2>2 DEF WriteHead
      <3>2. FileOk'
        BY <1>0, <3>0, <3>1 DEF FileOk, HeadFile, Payload
      <3>3. ConvertedLabels'
        BY <1>0, <1>2, <2>2 DEF PipeInv, ConvertedLabels
      <3>4. ConvertedOk' /\ StagingOk'
        BY <1>0, <1>2, ConvertedFrame, StagingFrame DEF PipeInv
      <3>5. SourceOk'
        BY <1>0, <1>2 DEF PipeInv, SourceOk, WriteHead, Phases, Published
      <3>6. PublishedHeadServes'
        BY <1>2 DEF PublishedHeadServes
      <3> QED
        BY <1>0, <1>2, <2>2, <3>2, <3>3, <3>4, <3>5, <3>6, OtherKinds DEF PipeInv, Published
    <2>3. CASE src.kind = "dataset"
      <3>1. file' = SaveMpk(weights)
        BY <1>2, <2>3 DEF WriteHead
      <3>2. PICK finite \in BOOLEAN : weights = Trained(finite)
        BY <1>0, <2>3 DEF PipeInv, TrainedOk
      <3>3. labels \in Seq(FolderNames(src)) /\ labels # <<>> /\ Len(labels) <= MaxLoadable
        BY <1>0, <2>3 DEF PipeInv, ClassesOk
      <3>4. /\ Len(labels) \in Nat \ {0} /\ Len(weights.kernel) = Dim * Len(labels)
            /\ weights.classes = Len(labels)
            /\ weights = [kernel |-> weights.kernel, bias |-> weights.bias,
                          classes |-> weights.classes]
        BY <3>2, <3>3, TrainedShape
      <3>5. Len(weights.kernel) \div Dim = weights.classes
        BY <3>4, SizesPositive, DivExact
      <3>6. file' = HeadFile(weights)
        <4>1. [weights EXCEPT !.classes = weights.classes] = weights
          BY <3>4
        <4> QED
          BY <3>1, <3>5, <4>1 DEF SaveMpk
      <3>7. FileOk'
        BY <1>0, <3>3, <3>4, <3>6 DEF FileOk, HeadFile, Payload
      <3>8. ClassesOk' /\ SplitSound' /\ TrainedOk'
        BY <1>0, <1>2, <2>3, ClassesFrame, SplitFrame, TrainedFrame DEF PipeInv, Published
      <3>9. SourceOk'
        BY <1>0, <1>2 DEF PipeInv, SourceOk, WriteHead, Phases, Published
      <3>10. PublishedHeadServes'
        BY <1>2 DEF PublishedHeadServes
      <3> QED
        BY <1>0, <1>2, <2>3, <3>7, <3>8, <3>9, <3>10, OtherKinds DEF PipeInv, Published
    <2> QED
      BY <1>0, <2>2, <2>3
  <1> QED
    BY <1>1, <1>2 DEF WriteHead

\* Activation.

\* A dataset's labels can be read back.
LEMMA DatasetLabelsClean ==
  ASSUME ClassesOk, src.kind = "dataset", phase \in {"write"} \cup Published
  PROVE  \A i \in DOMAIN labels : Clean(labels[i]) /\ labels[i] # "nan"
  <1>1. labels \in Seq(FolderNames(src)) /\ \A n \in FolderNames(src) : Component(n)
    BY DEF ClassesOk, Published
  <1>2. \A i \in DOMAIN labels : labels[i] \in FolderNames(src)
    BY <1>1
  <1>3. \A n : Component(n) => Clean(n) /\ n # "nan"
    BY DEF Component, Names, Clean, Parts, Trim
  <1> QED
    BY <1>1, <1>2, <1>3

\* Every column of a head whose training stayed finite is finite, and one
\* whose training did not is not.
LEMMA TrainedFinite ==
  ASSUME NEW X, labels \in Seq(X), labels # <<>>, src.kind = "dataset",
         \A i \in DOMAIN labels : labels[i] # "nan",
         NEW finite \in BOOLEAN, NEW w, w = Trained(finite)
  PROVE  /\ IsFinite(w.kernel) => finite
         /\ finite => IsFinite(w.bias)
         /\ finite => \A i \in DOMAIN w.kernel : w.kernel[i] = <<labels[1 + ((i - 1) % Len(labels))]>>
  <1>1. /\ Len(labels) \in Nat \ {0} /\ DOMAIN labels = 1 .. Len(labels)
        /\ Dim * Len(labels) \in Nat /\ Dim * Len(labels) >= 1
        /\ DOMAIN w.kernel = 1 .. Dim * Len(labels) /\ DOMAIN w.bias = 1 .. Len(labels)
    BY TrainedShape
  <1>2. ASSUME ~finite PROVE ~IsFinite(w.kernel)
    <2>1. 1 \in DOMAIN w.kernel
      BY <1>1
    <2>2. w.kernel = [i \in 1 .. Dim * Len(labels) |-> <<"nan">>]
      BY <1>2 DEF Trained
    <2>3. w.kernel[1] = <<"nan">>
      BY <1>1, <2>1, <2>2, Zenon
    <2> QED
      BY <2>1, <2>3 DEF IsFinite
  <1>3. ASSUME finite PROVE IsFinite(w.bias)
    <2>1. w.bias = [i \in DOMAIN labels |-> <<labels[i]>>]
      BY <1>3 DEF Trained
    <2>2. \A i \in DOMAIN w.bias : w.bias[i] # <<"nan">>
      BY <1>1, <2>1
    <2> QED
      BY <2>2 DEF IsFinite
  <1>4. ASSUME finite
        PROVE  \A i \in DOMAIN w.kernel : w.kernel[i] = <<labels[1 + ((i - 1) % Len(labels))]>>
    <2>1. w.kernel = [i \in 1 .. Dim * Len(labels) |-> <<labels[1 + ((i - 1) % Len(labels))]>>]
      BY <1>4 DEF Trained
    <2> QED
      BY <1>1, <2>1, Zenon
  <1> QED
    BY <1>2, <1>3, <1>4

\* A job's head whose labels survive and whose weights are finite loads.
LEMMA PublishedLoads ==
  ASSUME PipeInv, phase = "published", src.kind # "bundled", AllClean, IsFinite(weights.kernel)
  PROVE  HeadManifestOk(file.weights.classes, labels) /\ Loadable(file, labels)
  <1> DEFINE n == weights.classes
  <1>0. src.kind \in {"tfjs", "dataset"}
    BY DEF PipeInv, SourceOk, Published
  <1>1. file = HeadFile(weights) /\ n \in 1 .. MaxLoadable
    BY DEF PipeInv, FileOk, Published
  <1>2. /\ Len(weights.kernel) = Dim * n /\ Len(weights.bias) = n
        /\ Len(labels) = n /\ IsFinite(weights.bias)
        /\ \E X : labels \in Seq(X)
    <2>1. CASE src.kind = "tfjs"
      BY <2>1 DEF PipeInv, ConvertedOk, ConvertedLabels, Published, IsFinite
    <2>2. CASE src.kind = "dataset"
      <3>1. PICK finite \in BOOLEAN : weights = Trained(finite)
        BY <2>2 DEF PipeInv, TrainedOk, Published
      <3>2. labels \in Seq(FolderNames(src)) /\ labels # <<>>
        BY <2>2 DEF PipeInv, ClassesOk, Published
      <3>3. \A i \in DOMAIN labels : labels[i] # "nan"
        BY <2>2, DatasetLabelsClean DEF PipeInv, Published
      <3>4. (IsFinite(weights.kernel) => finite) /\ (finite => IsFinite(weights.bias))
        BY <2>2, <3>1, <3>2, <3>3, TrainedFinite, Zenon
      <3>5. /\ Len(weights.kernel) = Dim * Len(labels) /\ Len(weights.bias) = Len(labels)
            /\ n = Len(labels)
        BY <3>1, <3>2, TrainedShape
      <3> QED
        BY <3>2, <3>4, <3>5
    <2> QED
      BY <1>0, <2>1, <2>2
  <1> HIDE DEF n
  <1>3. ReadLabels(labels) = labels
    BY <1>2, CleanLabelsReadBack DEF AllClean
  <1>4. /\ file.weights = weights /\ file.size = HeaderSize + (Len(weights.kernel) + Len(weights.bias))
        /\ file.payload = Len(weights.kernel) + Len(weights.bias)
        /\ file.magic /\ file.version = 1 /\ file.crc /\ file.dim = Dim
    BY <1>1 DEF HeadFile, Payload
  <1>5. n \in Nat /\ Dim * n \in Nat /\ n # 0 /\ HeaderSize \in Nat
    <2>1. n \in Nat \ {0}
      BY <1>1
    <2> QED
      BY <2>1, SizesPositive, Times, Zenon
  <1>6. HeaderOk(file)
    <2> DEFINE a == Dim * n
    <2>1. a \in Nat /\ file.size = HeaderSize + (a + n) /\ file.payload = a + n
      BY <1>2, <1>4, <1>5
    <2> HIDE DEF a
    <2>2. file.size >= HeaderSize /\ file.size - HeaderSize = file.payload
      BY <1>5, <2>1
    <2>3. file.version <= 1
      BY <1>4
    <2> QED
      BY <1>4, <2>2, <2>3, Zenon DEF HeaderOk
  <1>7. ShapesOk(weights, labels)
    BY <1>1, <1>2 DEF ShapesOk, n
  <1>8. HeadManifestOk(weights.classes, labels)
    BY <1>2, <1>5 DEF HeadManifestOk, n
  <1> QED
    BY <1>2, <1>3, <1>4, <1>6, <1>7, <1>8 DEF Loadable

\* The loader accepts a published head, or leaves the engine alone.
LEMMA ActivateInv ==
  ASSUME PipeInv, Activate
  PROVE  PipeInv'
  <1>0. /\ src' = src /\ src \in Inputs /\ src.kind \in {"tfjs", "dataset", "bundled"}
        /\ phase = "published" /\ split' = split /\ weights' = weights /\ plan' = plan
        /\ content' = content /\ file' = file
    BY DEF PipeInv, SourceOk, Activate, Published
  <1>1. \A t : IsFinite(t)' <=> IsFinite(t)
    BY <1>0 DEF IsFinite, Finite
  <1>2. phase' \in {"serving", "refused"}
    BY DEF Activate
  <1>3. SourceOk'
    BY <1>0, <1>2 DEF PipeInv, SourceOk, Phases, Published
  <1>4. ConvertedOk' /\ StagingOk' /\ PlanOk' /\ ReadingOk'
    BY <1>0, <1>2, ConvertedFrame, StagingFrame, OtherKinds DEF PipeInv, Published
  <1>5. FileOk'
    BY <1>0 DEF PipeInv, FileOk, HeadFile, Payload, Published
  <1>6. ConvertedLabels'
    BY <1>0, <1>2 DEF PipeInv, ConvertedLabels, Activate
  <1>7. src.kind = "dataset" => labels' = labels
    <2> SUFFICES ASSUME src.kind = "dataset" PROVE labels' = labels
      OBVIOUS
    <2>1. \A i \in DOMAIN labels : Clean(labels[i])
      BY <1>0, DatasetLabelsClean DEF PipeInv, Published
    <2>2. labels \in Seq(FolderNames(src))
      BY <1>0 DEF PipeInv, ClassesOk, Published
    <2>3. ReadLabels(labels) = labels
      BY <2>1, <2>2, CleanLabelsReadBack
    <2> QED
      BY <2>3 DEF Activate
  <1>8. ClassesOk' /\ SplitSound' /\ TrainedOk'
    <2>1. CASE src.kind = "dataset"
      BY <1>0, <1>2, <1>7, <2>1, ClassesFrame, SplitFrame, TrainedFrame DEF PipeInv, Published
    <2>2. CASE src.kind # "dataset"
      BY <1>0, <2>2 DEF ClassesOk, SplitSound, TrainedOk
    <2> QED
      BY <2>1, <2>2
  <1>9. CASE phase' = "refused"
    <2>1. labels' = labels
      BY <1>9 DEF Activate
    <2>2. ~( /\ src.kind # "bundled" => HeadManifestOk(file.weights.classes, labels)
             /\ Loadable(file, labels))
      BY <1>9 DEF Activate
    <2>3. src.kind # "bundled" => ~AllClean \/ ~IsFinite(weights.kernel)
      BY <1>0, <2>2, PublishedLoads
    <2>4. AllClean' <=> AllClean
      BY <2>1 DEF AllClean
    <2>5. PublishedHeadServes'
      BY <1>0, <1>1, <1>9, <2>3, <2>4 DEF PublishedHeadServes
    <2> QED
      BY <1>3, <1>4, <1>5, <1>6, <1>8, <2>5 DEF PipeInv
  <1>10. CASE phase' = "serving"
    <2>1. Loadable(file, labels) /\ served' = file.weights /\ labels' = ReadLabels(labels)
      BY <1>10 DEF Activate
    <2>2. /\ Len(labels') = served'.classes
          /\ IsFinite(served'.kernel) /\ IsFinite(served'.bias)
      BY <2>1 DEF Loadable, ShapesOk
    <2>3. ASSUME src.kind = "dataset"
          PROVE  \A i \in DOMAIN served'.kernel :
                   served'.kernel[i] = <<labels'[1 + ((i - 1) % served'.classes)]>>
      <3>1. PICK finite \in BOOLEAN : weights = Trained(finite)
        BY <1>0, <2>3 DEF PipeInv, TrainedOk, Published
      <3>2. labels \in Seq(FolderNames(src)) /\ labels # <<>>
        BY <1>0, <2>3 DEF PipeInv, ClassesOk, Published
      <3>3. \A i \in DOMAIN labels : labels[i] # "nan"
        BY <1>0, <2>3, DatasetLabelsClean DEF PipeInv, Published
      <3>4. served' = weights
        BY <1>0, <2>1, <2>3 DEF PipeInv, FileOk, HeadFile, Published
      <3>5. /\ IsFinite(weights.kernel) => finite
            /\ finite => \A i \in DOMAIN weights.kernel :
                           weights.kernel[i] = <<labels[1 + ((i - 1) % Len(labels))]>>
        BY <2>3, <3>1, <3>2, <3>3, TrainedFinite, Zenon
      <3>6. labels' = labels /\ served'.classes = Len(labels)
        BY <1>7, <2>2, <2>3
      <3> QED
        BY <2>2, <3>4, <3>5, <3>6, Zenon
    <2>4. PublishedHeadServes'
      BY <1>0, <1>1, <1>10, <2>2, <2>3 DEF PublishedHeadServes
    <2> QED
      BY <1>3, <1>4, <1>5, <1>6, <1>8, <2>4 DEF PipeInv
  <1> QED
    BY <1>2, <1>9, <1>10

\* Conversion.
LEMMA NamesInjective ==
  ASSUME NEW m \in Inputs, m.kind = "tfjs", NamesDistinct(m)
  PROVE  LET ps == PathsOf(m.groups) IN
         /\ ps \in Seq(STRING) /\ DOMAIN ps = 1 .. Len(ps) /\ Len(ps) \in Nat
         /\ \A i \in 1 .. Len(ps) : ps[i] # "model.json" /\ ps[i] \notin ToSet(m.files)
         /\ \A i, j \in 1 .. Len(ps) : ps[i] = ps[j] => i = j
  <1> DEFINE ps == PathsOf(m.groups)
  <1>1. ps \in Seq(STRING) /\ ToSet(m.files) \cap ToSet(ps) = {}
    BY InputsAssumption
  <1> HIDE DEF ps
  <1>2. DOMAIN ps = 1 .. Len(ps) /\ Len(ps) \in Nat
    BY <1>1
  <1>3. \A i \in 1 .. Len(ps) : ps[i] \in ToSet(ps)
    BY <1>2 DEF ToSet
  <1>4. "model.json" \notin ToSet(ps) /\ IsInjective(ps)
    BY DEF NamesDistinct, ps
  <1>5. \A i, j \in 1 .. Len(ps) : ps[i] = ps[j] => i = j
    BY <1>2, <1>4 DEF IsInjective
  <1>6. \A i \in 1 .. Len(ps) : ps[i] # "model.json" /\ ps[i] \notin ToSet(m.files)
    BY <1>1, <1>3, <1>4
  <1> QED
    BY <1>1, <1>2, <1>5, <1>6 DEF ps

\* Every declared upload is one of the files.
LEMMA FileThere ==
  ASSUME NEW m \in Inputs, m.kind = "tfjs"
  PROVE  /\ Len(m.files) \in Nat
         /\ \A i \in 1 .. Len(m.files) : m.files[i] \in ToSet(m.files)
  BY UploadsJoin

\* The library entry for a model of one shard.
LEMMA ExtractBeginInv ==
  ASSUME PipeInv, phase = "idle", NEW m \in Inputs, ExtractBegin(m)
  PROVE  PipeInv'
  <1>0. src' = m /\ m.kind = "tfjs" /\ content' = Shards(m) /\ m.format = "single"
    BY DEF ExtractBegin
  <1>1. CASE phase' = "failed"
    BY <1>0, <1>1, FailedInv
  <1>2. CASE phase' = "blob"
    <2>1. SourceOk'
      BY <1>2 DEF PipeInv, SourceOk, ExtractBegin, Phases, Published
    <2>2. Untouched'
      BY <1>0, UploadsAreThere
    <2>3. StagingOk'
      BY <1>2, <2>2 DEF StagingOk
    <2>4. ManifestOk(m) /\ plan' = Plan(m)
      BY <1>2 DEF ExtractBegin
    <2>5. Entries(m) # <<>>
      <3>1. WeightsOf(m.groups) # <<>> /\ WeightsOf(m.groups) \in Seq([name : STRING, dtype : STRING, shape : Seq(Nat)])
        BY <1>0, <2>4, InputsAssumption DEF ManifestOk
      <3>2. 1 \in DOMAIN WeightsOf(m.groups)
        BY <3>1
      <3>3. DOMAIN Entries(m) = DOMAIN WeightsOf(m.groups)
        BY DEF Entries
      <3> QED
        BY <3>2, <3>3
    <2>6. m.files # <<>>
      BY <1>0, InputsAssumption
    <2>7. PlanOk' /\ ReadingOk'
      BY <1>0, <1>2, <2>4, <2>5, <2>6 DEF PlanOk, ReadingOk
    <2> QED
      BY <1>0, <1>2, <2>1, <2>3, <2>7, OtherKinds DEF PipeInv, Published
  <1> QED
    BY <1>1, <1>2 DEF ExtractBegin

\* The library entry for a directory: the shards are read in place.
LEMMA ConvertDirectoryInv ==
  ASSUME PipeInv, phase = "idle", NEW m \in Inputs, ConvertDirectory(m)
  PROVE  PipeInv'
  <1> DEFINE names == PathsOf(m.groups)
  <1>0. src' = m /\ m.kind = "tfjs" /\ content' = Shards(m)
    BY DEF ConvertDirectory
  <1>1. CASE phase' = "failed"
    BY <1>0, <1>1, FailedInv
  <1>2. CASE phase' = "stage"
    <2>1. SourceOk'
      BY <1>2 DEF PipeInv, SourceOk, ConvertDirectory, Phases, Published
    <2>2. Untouched'
      BY <1>0, UploadsAreThere
    <2>3. /\ plan' = Plan(m) /\ Len(names) = Len(m.files) /\ step' = Len(names)
          /\ staged' = [n \in ToSet(names) |->
                          m.files[CHOOSE i \in DOMAIN names : names[i] = n]]
      BY <1>2 DEF ConvertDirectory
    <2>4. Len(m.files) \in Nat /\ \A i \in 1 .. Len(m.files) : m.files[i] \in ToSet(m.files)
      BY <1>0, FileThere
    <2>5. PlanOk' /\ ReadingOk'
      BY <1>0, <1>2, <2>3, <2>4 DEF PlanOk, ReadingOk
    <2>6. ASSUME NamesDistinct(m)
          PROVE  /\ StagedUpTo(step)'
                 /\ \A n \in DOMAIN staged' : \E i \in 1 .. step' : n = names[i]
      <3>1. /\ DOMAIN names = 1 .. Len(names)
            /\ \A i, j \in 1 .. Len(names) : names[i] = names[j] => i = j
        BY <1>0, <2>6, NamesInjective
      <3> HIDE DEF names
      <3>2. ToSet(names) = {names[i] : i \in 1 .. Len(names)}
        BY <3>1 DEF ToSet
      <3>3. ASSUME NEW i \in 1 .. Len(names)
            PROVE  names[i] \in DOMAIN staged' /\ staged'[names[i]] = m.files[i]
        <4>1. names[i] \in ToSet(names)
          BY <3>2
        <4>2. (CHOOSE j \in DOMAIN names : names[j] = names[i]) = i
          BY <3>1
        <4>3. staged'[names[i]] = m.files[CHOOSE j \in DOMAIN names : names[j] = names[i]]
          BY <2>3, <4>1, Zenon
        <4> QED
          BY <2>3, <4>1, <4>2, <4>3
      <3>4. ASSUME NEW i \in 1 .. Len(names)
            PROVE  m.files[i] \in DOMAIN content' /\ content'[m.files[i]] = Shards(m)[m.files[i]]
        BY <1>0, <2>3, <2>4 DEF Shards
      <3>5. StagedUpTo(step)'
        <4>1. ASSUME NEW i \in 1 .. Len(names)
              PROVE  /\ names[i] \in DOMAIN staged'
                     /\ staged'[names[i]] \in {m.files[i], names[i]}
                     /\ staged'[names[i]] \in DOMAIN content'
                     /\ content'[staged'[names[i]]] = Shards(m)[m.files[i]]
          BY <3>3, <3>4
        <4> QED
          BY <1>0, <2>3, <4>1, Zenon DEF StagedUpTo, names
      <3> QED
        BY <2>3, <3>2, <3>5
    <2>7. StagingOk'
      BY <1>0, <1>2, <2>2, <2>6 DEF StagingOk
    <2> QED
      BY <1>0, <1>2, <2>1, <2>5, <2>7, OtherKinds DEF PipeInv, Published
  <1> QED
    BY <1>1, <1>2 DEF ConvertDirectory

\* The manifest of the uploads becomes the plan.
LEMMA ConvertParseInv ==
  ASSUME PipeInv, ConvertParse
  PROVE  PipeInv'
  <1>0. /\ src' = src /\ src \in Inputs /\ src.kind = "tfjs" /\ phase = "parse"
        /\ content' = content /\ step' = step /\ step = 0
    BY DEF PipeInv, SourceOk, ConvertParse
  <1>1. CASE phase' = "failed"
    BY <1>0, <1>1, FailedInv
  <1>2. CASE phase' = "stage"
    <2>1. SourceOk'
      BY <1>0, <1>2 DEF PipeInv, SourceOk, ConvertParse, Phases, Published
    <2>2. /\ plan' = Plan(src) /\ Len(PathsOf(src.groups)) = Len(src.files)
          /\ staged' = [n \in {"model.json"} |-> "model.json"]
      BY <1>2 DEF ConvertParse
    <2>3. Len(src.files) \in Nat
      BY <1>0, FileThere
    <2>4. PlanOk' /\ ReadingOk'
      BY <1>0, <1>2, <2>2, <2>3 DEF PlanOk, ReadingOk
    <2>5. NamesDistinct(src) => Untouched'
      BY <1>0 DEF PipeInv, StagingOk, Untouched
    <2>6. StagedUpTo(step)' /\ \A n \in DOMAIN staged' : n = "model.json"
      BY <1>0, <2>2 DEF StagedUpTo
    <2>7. StagingOk'
      BY <1>0, <1>2, <2>5, <2>6 DEF StagingOk
    <2> QED
      BY <1>0, <1>2, <2>1, <2>4, <2>7, OtherKinds DEF PipeInv, Published
  <1> QED
    BY <1>1, <1>2 DEF ConvertParse

\* The shards and entries of a plan are those of the manifest.
LEMMA PlanFields ==
  ASSUME NEW m
  PROVE  Plan(m).shards = PathsOf(m.groups) /\ Plan(m).entries = Entries(m)
  BY DEF Plan, NoPlan

\* Staging links or copies one upload under the name the manifest gives it.
LEMMA StageShardInv ==
  ASSUME PipeInv, NEW links \in BOOLEAN, StageShard(links)
  PROVE  PipeInv'
  <1> DEFINE names == PathsOf(src.groups)
             files == src.files
             k == step + 1
             n == names[k]
             f == files[k]
  <1>0. /\ src' = src /\ src \in Inputs /\ src.kind = "tfjs" /\ phase = "stage" /\ phase' = "stage"
        /\ plan' = plan /\ step' = k /\ step < Len(files) /\ plan = Plan(src)
        /\ Len(names) = Len(files) /\ step \in 0 .. Len(files)
    BY DEF PipeInv, SourceOk, PlanOk, StageShard
  <1>1. plan.shards = names
    BY <1>0, PlanFields
  <1>2. Len(files) \in Nat /\ \A i \in 1 .. Len(files) : files[i] \in ToSet(files)
    BY <1>0, FileThere
  <1>3. k \in 1 .. Len(files) /\ step \in Nat
    BY <1>0, <1>2
  <1>4. PlanOk' /\ ReadingOk'
    BY <1>0, <1>2, <1>3 DEF PlanOk, ReadingOk
  <1>5. SourceOk'
    BY <1>0 DEF PipeInv, SourceOk, StageShard, Phases, Published
  <1>6. ASSUME NamesDistinct(src)
        PROVE  /\ Untouched' /\ StagedUpTo(step)'
               /\ \A x \in DOMAIN staged' : x = "model.json" \/ \E i \in 1 .. k : x = names[i]
    <2>1. /\ \A i \in 1 .. Len(names) : names[i] # "model.json" /\ names[i] \notin ToSet(files)
          /\ \A i, j \in 1 .. Len(names) : names[i] = names[j] => i = j
      BY <1>0, <1>6, NamesInjective
    <2>2. /\ Untouched /\ StagedUpTo(step)
          /\ \A x \in DOMAIN staged : x = "model.json" \/ \E i \in 1 .. step : x = names[i]
      BY <1>0, <1>6 DEF PipeInv, StagingOk
    <2>3. \A i \in 1 .. step : i \in 1 .. Len(names) /\ i # k /\ i \in 1 .. Len(files) /\ i \in 1 .. k
      BY <1>0, <1>3
    <2>4. n \notin DOMAIN staged /\ n \notin ToSet(files)
      <3>1. n # "model.json" /\ n \notin ToSet(files) /\ \A i \in 1 .. step : n # names[i]
        BY <1>0, <1>3, <2>1, <2>3
      <3> QED
        BY <2>2, <3>1
    <2>5. f \in ToSet(files) /\ f # n
      BY <1>2, <1>3, <2>4
    <2>6. \A g \in ToSet(files) : g \in DOMAIN content /\ content[g] = Shards(src)[g]
      BY <2>2 DEF Untouched
    <2>7. \A i \in 1 .. step : /\ names[i] \in DOMAIN staged
                               /\ staged[names[i]] \in {files[i], names[i]}
                               /\ staged[names[i]] \in DOMAIN content
                               /\ content[staged[names[i]]] = Shards(src)[files[i]]
      BY <2>2, Zenon DEF StagedUpTo
    <2>8. \A i \in 1 .. step : names[i] # n /\ files[i] # n /\ staged[names[i]] # n
      BY <1>2, <2>1, <2>3, <2>4, <2>7
    <2>9. \/ staged' = Put(staged, n, f) /\ content' = content
          \/ staged' = Put(staged, n, n) /\ content' = Put(content, n, content[f])
      BY <1>1, <2>4, <2>5 DEF StageShard
    <2> HIDE DEF names, files, k, n, f
    <2>18. /\ DOMAIN staged' = DOMAIN staged \cup {n}
           /\ \A y \in DOMAIN staged : y # n => staged'[y] = staged[y]
           /\ DOMAIN content \subseteq DOMAIN content'
           /\ \A y \in DOMAIN content : y # n => content'[y] = content[y]
           /\ \/ staged'[n] = f /\ content' = content
              \/ staged'[n] = n /\ n \in DOMAIN content' /\ content'[n] = content[f]
      <3>1. CASE staged' = Put(staged, n, f) /\ content' = content
        BY <3>1 DEF Put
      <3>2. CASE staged' = Put(staged, n, n) /\ content' = Put(content, n, content[f])
        BY <3>2 DEF Put
      <3> QED
        BY <2>9, <3>1, <3>2
    <2>10. \A g \in ToSet(files) : g \in DOMAIN content' /\ content'[g] = Shards(src)[g]
      BY <2>4, <2>6, <2>18
    <2>11. \A i \in 1 .. step : /\ names[i] \in DOMAIN staged' /\ staged'[names[i]] = staged[names[i]]
                                /\ staged[names[i]] \in DOMAIN content'
                                /\ content'[staged[names[i]]] = content[staged[names[i]]]
      BY <2>7, <2>8, <2>18
    <2>12. /\ n \in DOMAIN staged' /\ staged'[n] \in {f, n}
           /\ staged'[n] \in DOMAIN content' /\ content'[staged'[n]] = Shards(src)[f]
      <3>1. f \in DOMAIN content /\ content[f] = Shards(src)[f]
        BY <2>5, <2>6
      <3> QED
        BY <2>18, <3>1
    <2>13. \A x \in DOMAIN staged' : x = n \/ x \in DOMAIN staged
      BY <2>18
    <2>14. ASSUME NEW i \in 1 .. k
           PROVE  /\ names[i] \in DOMAIN staged'
                  /\ staged'[names[i]] \in {files[i], names[i]}
                  /\ staged'[names[i]] \in DOMAIN content'
                  /\ content'[staged'[names[i]]] = Shards(src)[files[i]]
      <3>1. CASE i = k
        BY <2>12, <3>1 DEF n, f
      <3>2. CASE i # k
        <4>1. i \in 1 .. step
          BY <1>3, <3>2 DEF k
        <4> QED
          BY <2>7, <2>11, <4>1
      <3> QED
        BY <3>1, <3>2
    <2>15. StagedUpTo(step)'
      BY <1>0, <2>14, Zenon DEF StagedUpTo, names, files
    <2>16. Untouched'
      BY <1>0, <2>10 DEF Untouched, files
    <2>17. ASSUME NEW x \in DOMAIN staged'
           PROVE  x = "model.json" \/ \E i \in 1 .. k : x = names[i]
      <3>1. CASE x = n
        <4>1. k \in 1 .. k
          BY <1>3
        <4> QED
          BY <3>1, <4>1 DEF n
      <3>2. CASE x \in DOMAIN staged
        BY <2>2, <2>3, <3>2 DEF names
      <3> QED
        BY <2>13, <3>1, <3>2
    <2> QED
      BY <2>15, <2>16, <2>17
  <1>7. StagingOk'
    BY <1>0, <1>6 DEF StagingOk
  <1> QED
    BY <1>0, <1>4, <1>5, <1>7, OtherKinds DEF PipeInv, Published

\* The tensors picked are entries of the manifest.
LEMMA PickedAreEntries ==
  ASSUME NEW es, NEW p \in Pick(es)
  PROVE  p[1] \in DOMAIN es /\ p[2] \in DOMAIN es
  BY DEF Pick, First

\* An entry of the manifest of a source.
EntryFits(m, e) ==
    /\ e.shape \in Seq(Nat) /\ e.len = BytesOf(e) /\ e.len \in Nat /\ e.off \in Nat
    /\ Total([i \in DOMAIN Entries(m) |-> Entries(m)[i].len]) \in Nat
    /\ e.off + e.len <= Total([i \in DOMAIN Entries(m) |-> Entries(m)[i].len])

\* Every entry of a manifest fits the declared bytes.
LEMMA EntryFitsAll ==
  ASSUME NEW m \in Inputs, m.kind = "tfjs"
  PROVE  \A i \in DOMAIN Entries(m) : EntryFits(m, Entries(m)[i])
  BY EntriesFit, Zenon DEF EntryFits

\* The kernel and the bias are picked, or the manifest has none.
LEMMA ConvertPickInv ==
  ASSUME PipeInv, ConvertPick
  PROVE  PipeInv'
  <1> DEFINE es == Entries(src)
  <1>0. /\ src' = src /\ src \in Inputs /\ src.kind = "tfjs" /\ phase = "stage"
        /\ content' = content /\ staged' = staged /\ step' = 0 /\ step = Len(src.files)
        /\ total' = total /\ total = 0 /\ plan = Plan(src)
        /\ Len(PathsOf(src.groups)) = Len(src.files)
    BY DEF PipeInv, SourceOk, PlanOk, ConvertPick
  <1>1. CASE phase' = "failed"
    BY <1>0, <1>1, FailedInv
  <1>2. CASE phase' = "read"
    <2>1. plan.entries = es /\ plan.shards = PathsOf(src.groups)
      BY <1>0, PlanFields
    <2>2. PICK p \in Pick(es) :
            /\ plan' = [plan EXCEPT !.kernel = es[p[1]], !.bias = es[p[2]]]
            /\ bufs' = [kernel |-> [i \in 1 .. es[p[1]].len |-> Zero],
                        bias |-> [i \in 1 .. es[p[2]].len |-> Zero]]
      BY <1>2, <2>1 DEF ConvertPick
    <2>3. p[1] \in DOMAIN es /\ p[2] \in DOMAIN es
      BY PickedAreEntries
    <2> DEFINE k == es[p[1]]
               b == es[p[2]]
    <2>4. /\ plan'.kernel = k /\ plan'.bias = b
          /\ plan'.shards = plan.shards /\ plan'.entries = plan.entries
      BY <1>0, <2>2 DEF Plan, NoPlan
    <2>5. EntryFits(src, k) /\ EntryFits(src, b)
      BY <1>0, <2>3, EntryFitsAll
    <2> HIDE DEF es, k, b
    <2>6. k.off \in Nat /\ b.off \in Nat /\ k.len \in Nat /\ b.len \in Nat
      BY <2>5 DEF EntryFits
    <2>7. Len(src.files) \in Nat
      BY <1>0, FileThere
    <2>8. PlanOk'
      BY <1>0, <1>2, <2>1, <2>3, <2>4, <2>7 DEF PlanOk, k, b, es
    <2>9. Sized(k, bufs'.kernel) /\ Sized(b, bufs'.bias)
      BY <2>2 DEF k, b, Sized
    <2>10. total' = Len(Joined(src)[0])
      <3>1. Joins(Byte, Pieces(src), Joined(src))
        BY <1>0, UploadsJoin
      <3>2. Joined(src)[0] = <<>>
        BY <3>1 DEF Joins
      <3> QED
        BY <1>0, <3>2
    <2>11. Filled(k, bufs'.kernel, Uploaded(src), 0) /\ Filled(b, bufs'.bias, Uploaded(src), 0)
      <3>1. \A i \in 1 .. k.len : ~(k.off + i <= 0)
        BY <2>6
      <3>2. \A i \in 1 .. b.len : ~(b.off + i <= 0)
        BY <2>6
      <3> QED
        BY <3>1, <3>2, Zenon DEF Filled
    <2>12. ReadingOk'
      BY <1>0, <2>4, <2>9, <2>10, <2>11 DEF ReadingOk
    <2>13. StagingOk'
      <3>1. ASSUME NamesDistinct(src) PROVE Untouched' /\ StagedUpTo(Len(src.files))'
        <4>1. Untouched /\ StagedUpTo(step)
          BY <1>0, <3>1 DEF PipeInv, StagingOk
        <4> QED
          BY <1>0, <4>1 DEF Untouched, StagedUpTo
      <3> QED
        BY <1>0, <1>2, <3>1 DEF StagingOk
    <2>14. SourceOk'
      BY <1>0, <1>2 DEF PipeInv, SourceOk, ConvertPick, Phases, Published
    <2> QED
      BY <1>0, <1>2, <2>8, <2>12, <2>13, <2>14, OtherKinds DEF PipeInv, Published
  <1> QED
    BY <1>1, <1>2 DEF ConvertPick

\* One shard is read and the bytes of both tensors in it are put in place.
LEMMA ReadShardInv ==
  ASSUME PipeInv, ReadShard
  PROVE  PipeInv'
  <1> DEFINE k == plan.kernel
             b == plan.bias
             bytes == content[staged[plan.shards[step + 1]]]
  <1>0. /\ src' = src /\ src \in Inputs /\ src.kind = "tfjs" /\ phase = "read" /\ phase' = "read"
        /\ content' = content /\ staged' = staged /\ step' = step + 1 /\ step < Len(src.files)
        /\ plan' = plan /\ total' = total + Len(bytes)
        /\ bufs' = [kernel |-> Overlay(k, bufs.kernel, bytes, total),
                    bias |-> Overlay(b, bufs.bias, bytes, total)]
    BY DEF PipeInv, SourceOk, ReadShard
  <1>1. /\ plan.shards = PathsOf(src.groups) /\ step \in 0 .. Len(src.files)
        /\ Sized(k, bufs.kernel) /\ Sized(b, bufs.bias)
    BY <1>0 DEF PipeInv, PlanOk, ReadingOk
  <1>2. EntryFits(src, k) /\ EntryFits(src, b)
    BY <1>0, EntryFitsAll DEF PipeInv, PlanOk
  <1>3. k.off \in Nat /\ b.off \in Nat /\ k.len \in Nat /\ b.len \in Nat
    BY <1>2 DEF EntryFits
  <1>4. Len(src.files) \in Nat /\ step \in 0 .. Len(src.files) - 1 /\ step + 1 \in 1 .. Len(src.files)
    BY <1>0, <1>1, FileThere
  <1> HIDE DEF k, b, bytes
  <1>5. SourceOk'
    BY <1>0 DEF PipeInv, SourceOk, ReadShard, Phases, Published
  <1>6. PlanOk'
    BY <1>0, <1>4 DEF PipeInv, PlanOk
  <1>7. StagingOk'
    BY <1>0 DEF PipeInv, StagingOk, Untouched, StagedUpTo
  <1>8. Sized(k, bufs'.kernel) /\ Sized(b, bufs'.bias)
    <2>1. bufs'.kernel = Overlay(k, bufs.kernel, bytes, total)
      BY <1>0
    <2>2. bufs'.bias = Overlay(b, bufs.bias, bytes, total)
      BY <1>0
    <2> QED
      BY <1>1, <2>1, <2>2, OverlayLength, Zenon
  <1>9. ASSUME NamesDistinct(src)
        PROVE  /\ total' = Len(Joined(src)[step + 1])
               /\ Filled(k, bufs'.kernel, Uploaded(src), total')
               /\ Filled(b, bufs'.bias, Uploaded(src), total')
    <2>1. StagedUpTo(Len(src.files))
      BY <1>0, <1>9 DEF PipeInv, StagingOk
    <2>2. bytes = Shards(src)[src.files[step + 1]]
      BY <1>1, <1>4, <2>1 DEF StagedUpTo, bytes
    <2>3. /\ total = Len(Joined(src)[step])
          /\ Filled(k, bufs.kernel, Uploaded(src), total)
          /\ Filled(b, bufs.bias, Uploaded(src), total)
      BY <1>0, <1>9 DEF PipeInv, ReadingOk, k, b
    <2>4. /\ total \in Nat /\ Len(bytes) \in Nat
          /\ Len(Joined(src)[step + 1]) = total + Len(bytes)
          /\ \A p \in 1 .. Len(bytes) : Uploaded(src)[total + p] = bytes[p]
      BY <1>0, <1>4, <2>2, <2>3, NextPiece DEF PieceAt
    <2> DEFINE U == Uploaded(src)
    <2>5. /\ Filled(k, bufs.kernel, U, total) /\ Filled(b, bufs.bias, U, total)
          /\ \A p \in 1 .. Len(bytes) : U[total + p] = bytes[p]
      BY <2>3, <2>4
    <2> HIDE DEF U
    <2>6. Filled(k, Overlay(k, bufs.kernel, bytes, total), U, total + Len(bytes))
      BY <1>1, <1>3, <2>4, <2>5, OverlayFills, Zenon
    <2>7. Filled(b, Overlay(b, bufs.bias, bytes, total), U, total + Len(bytes))
      BY <1>1, <1>3, <2>4, <2>5, OverlayFills, Zenon
    <2>8. /\ bufs'.kernel = Overlay(k, bufs.kernel, bytes, total)
          /\ bufs'.bias = Overlay(b, bufs.bias, bytes, total)
      BY <1>0
    <2> QED
      BY <1>0, <2>4, <2>6, <2>7, <2>8 DEF U
  <1>10. ReadingOk'
    BY <1>0, <1>8, <1>9, Zenon DEF ReadingOk, k, b
  <1> QED
    BY <1>0, <1>5, <1>6, <1>7, <1>10, OtherKinds DEF PipeInv, Published

\* What is converted from a kernel and a bias of one size has that size.
LEMMA ConvertedSizes ==
  ASSUME NEW m, NEW k, NEW b, EntryFits(m, k), EntryFits(m, b), PairOk(k, b),
         NEW kb, Len(kb) = k.len, NEW bb, Len(bb) = b.len
  PROVE  /\ k.shape[2] \in 1 .. MaxClasses
         /\ Len(Floats(kb)) = Dim * k.shape[2] /\ Len(Floats(bb)) = k.shape[2]
  <1> DEFINE n == k.shape[2]
  <1>1. /\ k.shape \in Seq(Nat) /\ k.len = BytesOf(k)
        /\ b.shape \in Seq(Nat) /\ b.len = BytesOf(b)
    BY DEF EntryFits
  <1>2. n \in 1 .. MaxClasses /\ BytesOf(k) = Word * (Dim * n) /\ BytesOf(b) = Word * n
    BY <1>1, PairLens, Zenon
  <1> HIDE DEF n
  <1>3. n \in Nat \ {0}
    BY <1>2
  <1>4. n \in Nat /\ Dim * n \in Nat
    BY <1>3, SizesPositive, Times
  <1>5. Len(Floats(kb)) = Dim * n /\ Len(Floats(bb)) = n
    BY <1>1, <1>2, <1>4, FloatsLen, Zenon
  <1> QED
    BY <1>2, <1>5 DEF n

\* The filled buffers become weights once the declared bytes were read.
LEMMA ConvertWeightsInv ==
  ASSUME PipeInv, ConvertWeights
  PROVE  PipeInv'
  <1> DEFINE k == plan.kernel
             b == plan.bias
             es == Entries(src)
             declared == Total([i \in DOMAIN es |-> es[i].len])
  <1>0. /\ src' = src /\ src \in Inputs /\ src.kind = "tfjs" /\ phase = "read"
        /\ content' = content /\ plan' = plan /\ step = Len(src.files)
    BY DEF PipeInv, SourceOk, ConvertWeights
  <1>1. CASE phase' = "failed"
    BY <1>0, <1>1, FailedInv
  <1>2. CASE phase' = "labels"
    <2>1. plan.entries = es
      BY <1>0 DEF PipeInv, PlanOk
    <2>2. /\ total = declared /\ PairOk(k, b)
          /\ Finite(Floats(bufs.kernel)) /\ Finite(Floats(bufs.bias))
          /\ weights' = [kernel |-> Floats(bufs.kernel), bias |-> Floats(bufs.bias),
                         classes |-> k.shape[2]]
      BY <1>2, <2>1 DEF ConvertWeights
    <2>3. EntryFits(src, k) /\ EntryFits(src, b)
      BY <1>0, EntryFitsAll DEF PipeInv, PlanOk
    <2>4. Sized(k, bufs.kernel) /\ Sized(b, bufs.bias)
      BY <1>0 DEF PipeInv, ReadingOk
    <2>5. Len(bufs.kernel) = k.len /\ Len(bufs.bias) = b.len
      BY <2>3, <2>4, FcnIsSeq, Zenon DEF EntryFits, Sized
    <2> HIDE DEF k, b, es, declared
    <2>6. /\ k.shape[2] \in 1 .. MaxClasses
          /\ Len(Floats(bufs.kernel)) = Dim * k.shape[2]
          /\ Len(Floats(bufs.bias)) = k.shape[2]
      BY <2>2, <2>3, <2>5, ConvertedSizes
    <2>7. ASSUME NamesDistinct(src)
          PROVE  Floats(bufs.kernel) = Slice(src, k) /\ Floats(bufs.bias) = Slice(src, b)
      <3> DEFINE U == Uploaded(src)
      <3>1. /\ Len(Pieces(src)) = Len(src.files) /\ Len(src.files) \in Nat
            /\ Joins(Byte, Pieces(src), Joined(src)) /\ U = Joined(src)[Len(src.files)]
        BY <1>0, UploadsJoin
      <3>2. U \in Seq(Byte)
        BY <3>1 DEF Joins
      <3>3. /\ total = Len(U) /\ Filled(k, bufs.kernel, U, total) /\ Filled(b, bufs.bias, U, total)
        BY <1>0, <2>7, <3>1 DEF PipeInv, ReadingOk, k, b
      <3>4. /\ k.off \in Nat /\ k.len \in Nat /\ k.off + k.len <= Len(U)
            /\ b.off \in Nat /\ b.len \in Nat /\ b.off + b.len <= Len(U)
        BY <2>2, <2>3, <3>3 DEF EntryFits, declared, es
      <3> HIDE DEF U
      <3>5. /\ bufs.kernel = SubSeq(U, k.off + 1, k.off + k.len)
            /\ bufs.bias = SubSeq(U, b.off + 1, b.off + b.len)
        BY <2>4, <3>2, <3>3, <3>4, FilledIsSlice, Zenon
      <3> QED
        BY <3>5 DEF Slice, U
    <2>8. ConvertedOk'
      <3>1. \A t : Finite(t)' <=> Finite(t)
        BY <1>0 DEF Finite
      <3>2. /\ weights'.kernel = Floats(bufs.kernel) /\ weights'.bias = Floats(bufs.bias)
            /\ weights'.classes = k.shape[2] /\ plan'.kernel = k /\ plan'.bias = b
        BY <1>0, <2>2 DEF k, b
      <3> QED
        BY <1>0, <2>2, <2>6, <2>7, <3>1, <3>2 DEF ConvertedOk
    <2>9. StagingOk'
      BY <1>0, <1>2, StagingFrame DEF PipeInv
    <2>10. SourceOk'
      BY <1>0, <1>2 DEF PipeInv, SourceOk, Phases, Published
    <2>11. ConvertedLabels'
      BY <1>2 DEF ConvertedLabels
    <2> QED
      BY <1>0, <1>2, <2>8, <2>9, <2>10, <2>11, OtherKinds DEF PipeInv, Published
  <1> QED
    BY <1>1, <1>2 DEF ConvertWeights

\* A sequence over a set is one over a larger set.
LEMMA SeqOfLarger == ASSUME NEW S, NEW T, S \subseteq T, NEW s \in Seq(S) PROVE s \in Seq(T)
  OBVIOUS

\* The labels are read and checked against the number of rows.
LEMMA ConvertLabelsInv ==
  ASSUME PipeInv, ConvertLabels
  PROVE  PipeInv'
  <1> DEFINE ls == IF src.format = "lines" THEN ReadLabels(src.labels) ELSE src.labels
  <1>0. /\ src' = src /\ src \in Inputs /\ src.kind = "tfjs" /\ phase = "labels"
        /\ content' = content /\ plan' = plan /\ weights' = weights /\ labels' = ls
    BY DEF PipeInv, SourceOk, ConvertLabels
  <1>1. CASE phase' = "failed"
    BY <1>0, <1>1, FailedInv
  <1>2. CASE phase' = "write"
    <2>1. src.labels \in Seq(Text)
      <3>1. src.labels \in Seq(STRING) /\ STRING \subseteq Text
        BY <1>0, InputsAssumption DEF Text
      <3> QED
        BY <3>1, SeqOfLarger, Zenon
    <2>2. ls \in Seq(Text)
      BY <2>1, ReadLabelsType
    <2>3. ConvertedLabels'
      BY <1>0, <1>2, <2>2 DEF ConvertLabels, ConvertedLabels
    <2>4. ConvertedOk' /\ StagingOk'
      BY <1>0, <1>2, ConvertedFrame, StagingFrame DEF PipeInv
    <2>5. SourceOk'
      BY <1>0, <1>2 DEF PipeInv, SourceOk, Phases, Published
    <2> QED
      BY <1>0, <1>2, <2>3, <2>4, <2>5, OtherKinds DEF PipeInv, Published
  <1> QED
    BY <1>1, <1>2 DEF ConvertLabels

\* The first upload is what the uploads put together begin with.
LEMMA FirstUpload ==
  ASSUME NEW m \in Inputs, m.kind = "tfjs", m.files # <<>>
  PROVE  LET blob == Shards(m)[m.files[1]] IN
         /\ m.files[1] \in ToSet(m.files)
         /\ Uploaded(m) \in Seq(Byte) /\ Len(blob) \in Nat /\ Len(blob) <= Len(Uploaded(m))
         /\ blob \in Seq(Byte)
         /\ \A p \in 1 .. Len(blob) : Uploaded(m)[p] = blob[p]
  <1>1. /\ Pieces(m) \in Seq(Seq(Byte)) /\ Len(Pieces(m)) = Len(m.files) /\ Len(m.files) \in Nat
        /\ Joins(Byte, Pieces(m), Joined(m)) /\ Uploaded(m) = Joined(m)[Len(m.files)]
        /\ \A i \in 1 .. Len(m.files) : m.files[i] \in ToSet(m.files) /\ Pieces(m)[i] = Shards(m)[m.files[i]]
    BY UploadsJoin
  <1>2. m.files \in Seq(STRING)
    BY InputsAssumption
  <1>3. 0 \in 0 .. Len(m.files) - 1 /\ 1 \in 1 .. Len(m.files) /\ 0 + 1 = 1
    BY <1>1, <1>2
  <1>4. Joined(m)[0] = <<>> /\ Uploaded(m) \in Seq(Byte)
    BY <1>1 DEF Joins
  <1> DEFINE blob == Shards(m)[m.files[1]]
             start == Len(Joined(m)[0])
  <1>5. start = 0
    BY <1>4
  <1>6. /\ Len(blob) \in Nat
        /\ start + Len(blob) <= Len(Uploaded(m)) /\ Len(Uploaded(m)) \in Nat
        /\ \A p \in 1 .. Len(blob) : Uploaded(m)[start + p] = blob[p]
    <2>1. PieceAt(m, 0)
      BY <1>3, NextPiece, Zenon
    <2>2. PieceAt(m, 0) => /\ Len(Shards(m)[m.files[0 + 1]]) \in Nat
                           /\ start + Len(Shards(m)[m.files[0 + 1]]) <= Len(Uploaded(m))
                           /\ Len(Uploaded(m)) \in Nat
                           /\ \A p \in 1 .. Len(Shards(m)[m.files[0 + 1]]) :
                                Uploaded(m)[start + p] = Shards(m)[m.files[0 + 1]][p]
      BY Zenon DEF PieceAt
    <2> QED
      BY <1>3, <2>1, <2>2, Zenon
  <1>7. blob \in Seq(Byte) /\ m.files[1] \in ToSet(m.files)
    BY <1>1, <1>3
  <1> HIDE DEF blob, start
  <1>8. ASSUME NEW p \in 1 .. Len(blob) PROVE Uploaded(m)[p] = blob[p]
    <2>1. start + p = p
      BY <1>5, <1>6
    <2> QED
      BY <1>6, <2>1
  <1>9. Len(blob) <= Len(Uploaded(m))
    BY <1>5, <1>6
  <1> QED
    BY <1>4, <1>6, <1>7, <1>8, <1>9 DEF blob

\* A slice within the front of a sequence is the slice of the front.
LEMMA SliceOfFront ==
  ASSUME NEW X, NEW s \in Seq(X), NEW t \in Seq(X), Len(t) <= Len(s),
         \A p \in 1 .. Len(t) : s[p] = t[p],
         NEW a \in Nat, NEW b \in Nat, a + b <= Len(t)
  PROVE  /\ SubSeq(s, a + 1, a + b) = SubSeq(t, a + 1, a + b)
         /\ Len(SubSeq(t, a + 1, a + b)) = b
  <1>1. a + b <= Len(s)
    OBVIOUS
  <1>2. ASSUME NEW u \in Seq(X), a + b <= Len(u)
        PROVE  SubSeq(u, a + 1, a + b) = [i \in 1 .. b |-> u[a + i]]
    BY <1>2
  <1>3. \A i \in 1 .. b : a + i \in 1 .. Len(t)
    OBVIOUS
  <1>4. [i \in 1 .. b |-> s[a + i]] = [i \in 1 .. b |-> t[a + i]]
    BY <1>3
  <1>5. /\ SubSeq(t, a + 1, a + b) = [i \in 1 .. b |-> t[a + i]]
        /\ SubSeq(s, a + 1, a + b) = [i \in 1 .. b |-> s[a + i]]
    BY <1>1, <1>2
  <1>6. [i \in 1 .. b |-> t[a + i]] \in [1 .. b -> X]
    BY <1>3
  <1>7. Len([i \in 1 .. b |-> t[a + i]]) = b
    BY <1>6, MapIsSeq, Zenon
  <1> QED
    BY <1>4, <1>5, <1>7, Zenon

\* The tensors of a single upload are cut out of it.
LEMMA ExtractBlobInv ==
  ASSUME PipeInv, ExtractBlob
  PROVE  PipeInv'
  <1> DEFINE es == Entries(src)
             blob == Shards(src)[src.files[1]]
             part(e) == SubSeq(blob, e.off + 1, e.off + e.len)
             declared == Total([i \in DOMAIN es |-> es[i].len])
  <1>0. /\ src' = src /\ src \in Inputs /\ src.kind = "tfjs" /\ phase = "blob"
        /\ content' = content /\ content = Shards(src) /\ plan = Plan(src)
        /\ es # <<>> /\ src.files # <<>>
    BY DEF PipeInv, SourceOk, PlanOk, ExtractBlob
  <1>1. CASE phase' = "failed"
    BY <1>0, <1>1, FailedInv
  <1>2. CASE phase' = "labels"
    <2>1. plan.entries = es
      BY <1>0, PlanFields
    <2>2. PICK p \in Pick(es) :
            /\ Len(blob) = es[Len(es)].off + es[Len(es)].len
            /\ PairOk(es[p[1]], es[p[2]])
            /\ Finite(Floats(part(es[p[1]]))) /\ Finite(Floats(part(es[p[2]])))
            /\ plan' = [plan EXCEPT !.kernel = es[p[1]], !.bias = es[p[2]]]
            /\ weights' = [kernel |-> Floats(part(es[p[1]])), bias |-> Floats(part(es[p[2]])),
                           classes |-> es[p[1]].shape[2]]
      BY <1>0, <1>2, <2>1 DEF ExtractBlob
    <2> DEFINE k == es[p[1]]
               b == es[p[2]]
    <2>3. EntryFits(src, k) /\ EntryFits(src, b)
      BY <1>0, PickedAreEntries, EntryFitsAll
    <2>4. plan'.kernel = k /\ plan'.bias = b
      BY <1>0, <2>2 DEF Plan, NoPlan
    <2>5. Len(blob) = declared
      BY <1>0, <2>2, EntriesFit
    <2>6. /\ PairOk(k, b) /\ Finite(Floats(part(k))) /\ Finite(Floats(part(b)))
          /\ weights'.kernel = Floats(part(k)) /\ weights'.bias = Floats(part(b))
          /\ weights'.classes = k.shape[2]
      BY <2>2
    <2>7. /\ k.off \in Nat /\ k.len \in Nat /\ k.off + k.len <= Len(blob)
          /\ b.off \in Nat /\ b.len \in Nat /\ b.off + b.len <= Len(blob)
      BY <2>3, <2>5 DEF EntryFits
    <2> DEFINE U == Uploaded(src)
    <2>8. /\ U \in Seq(Byte) /\ Len(blob) \in Nat /\ Len(blob) <= Len(U) /\ blob \in Seq(Byte)
          /\ \A i \in 1 .. Len(blob) : U[i] = blob[i]
      BY <1>0, FirstUpload
    <2> HIDE DEF es, k, b, blob, U, declared
    <2>9. /\ SubSeq(U, k.off + 1, k.off + k.len) = part(k) /\ Len(part(k)) = k.len
          /\ SubSeq(U, b.off + 1, b.off + b.len) = part(b) /\ Len(part(b)) = b.len
      <3>1. ASSUME NEW x \in Nat, NEW y \in Nat, x + y <= Len(blob)
            PROVE  /\ SubSeq(U, x + 1, x + y) = SubSeq(blob, x + 1, x + y)
                   /\ Len(SubSeq(blob, x + 1, x + y)) = y
        BY <2>8, <3>1, SliceOfFront
      <3> QED
        BY <2>7, <3>1, Zenon
    <2>10. Floats(part(k)) = Slice(src, k) /\ Floats(part(b)) = Slice(src, b)
      BY <2>9, Zenon DEF Slice, U
    <2>11. /\ k.shape[2] \in 1 .. MaxClasses
           /\ Len(Floats(part(k))) = Dim * k.shape[2] /\ Len(Floats(part(b))) = k.shape[2]
      BY <2>3, <2>6, <2>9, ConvertedSizes, Zenon
    <2>12. ConvertedOk'
      <3>1. \A t : Finite(t)' <=> Finite(t)
        BY <1>0 DEF Finite
      <3> HIDE DEF part
      <3> QED
        BY <1>0, <2>4, <2>6, <2>10, <2>11, <3>1 DEF ConvertedOk
    <2>13. StagingOk'
      BY <1>0, <1>2, StagingFrame DEF PipeInv
    <2>14. SourceOk'
      BY <1>0, <1>2 DEF PipeInv, SourceOk, Phases, Published
    <2>15. ConvertedLabels'
      BY <1>2 DEF ConvertedLabels
    <2> QED
      BY <1>0, <1>2, <2>12, <2>13, <2>14, <2>15, OtherKinds DEF PipeInv, Published
  <1> QED
    BY <1>1, <1>2 DEF ExtractBlob

\* Every step of a job keeps the invariant.
LEMMA PipeStep ==
  ASSUME PipeInv, [PipeNext]_pipeVars
  PROVE  PipeInv'
  <1>1. CASE UNCHANGED pipeVars
    BY <1>1, DoneInv
  <1>2. ASSUME phase = "idle", NEW m \in Inputs,
               \/ ConvertBegin(m) \/ ConvertDirectory(m) \/ ExtractBegin(m)
               \/ TrainBegin(m) \/ BundledBegin(m)
        PROVE  PipeInv'
    BY <1>2, ConvertBeginInv, ConvertDirectoryInv, ExtractBeginInv, TrainBeginInv, BundledBeginInv
  <1>3. CASE ConvertParse \/ ExtractBlob
    BY <1>3, ConvertParseInv, ExtractBlobInv
  <1>4. ASSUME NEW links \in BOOLEAN, StageShard(links) PROVE PipeInv'
    BY <1>4, StageShardInv
  <1>5. CASE ConvertPick \/ ReadShard \/ ConvertWeights \/ ConvertLabels
    BY <1>5, ConvertPickInv, ReadShardInv, ConvertWeightsInv, ConvertLabelsInv
  <1>6. CASE TrainScan \/ TrainExtract \/ TrainSplit
    BY <1>6, TrainScanInv, TrainExtractInv, TrainSplitInv
  <1>7. ASSUME NEW finite \in BOOLEAN, TrainHead(finite) PROVE PipeInv'
    BY <1>7, TrainHeadInv
  <1>8. CASE WriteHead \/ Activate
    BY <1>8, WriteHeadInv, ActivateInv
  <1>9. CASE Done
    BY <1>9, DoneInv DEF Done
  <1> QED
    BY <1>1, <1>2, <1>3, <1>4, <1>5, <1>6, <1>7, <1>8, <1>9, Zenon DEF PipeNext

\* Converter, trainer, head writer and loader: PipeInv holds in every state of a
\* conversion, a training and the installation of a bundled head, whatever the
\* uploads, the manifest and the dataset are.
THEOREM PipelineInvariant == PipeSpec => []PipeInv
  <1>1. PipeInv /\ [PipeNext]_pipeVars => PipeInv'
    BY PipeStep
  <1> QED
    BY PipeInitInv, <1>1, PTL DEF PipeSpec

\* Trainer: for every dataset and every configuration accepted, the two
\* sides of the split share no example, lose none, and hold every class when
\* a split was asked for (stratified_split_indices).
THEOREM SplitIsSound == PipeSpec => []SplitSound
  BY PipelineInvariant, PTL DEF PipeInv

\* Trainer, converter and loader: a published head is refused only for a
\* label that a line cannot carry or a weight that is not finite, and what
\* serves has a name per column, the right one for a trained head.
THEOREM PublishedHeadsServe == PipeSpec => []PublishedHeadServes
  BY PipelineInvariant, PTL DEF PipeInv

\* Converter: whatever the shards, their boundaries and how they were staged,
\* the tensors are the declared slices of the uploads put together, and no
\* upload changed.
THEOREM StreamingIsExact == PipeSpec => []StreamedIsSlice
  <1>1. PipeInv => StreamedIsSlice
    <2> SUFFICES ASSUME PipeInv, Converting, phase # "failed", NamesDistinct(src)
                 PROVE  /\ weights.kernel = Slice(src, plan.kernel)
                        /\ weights.bias = Slice(src, plan.bias)
                        /\ \A f \in ToSet(src.files) : content[f] = [i \in 1 .. src.sizes[f] |-> <<f, i>>]
      BY DEF StreamedIsSlice
    <2>1. src.kind = "tfjs" /\ weights.classes > 0
      BY DEF Converting
    <2>2. weights # NoWeights
      BY <2>1 DEF NoWeights
    <2>3. phase \in {"labels", "write"} \cup Published
      BY <2>1, <2>2 DEF PipeInv, SourceOk, Phases
    <2>4. Untouched
      BY <2>1, <2>3 DEF PipeInv, StagingOk, Published
    <2>5. ASSUME NEW f \in ToSet(src.files)
          PROVE  content[f] = [i \in 1 .. src.sizes[f] |-> <<f, i>>]
      BY <2>4 DEF Untouched, Shards
    <2> QED
      BY <2>1, <2>3, <2>5 DEF PipeInv, ConvertedOk
  <1> QED
    BY PipelineInvariant, <1>1, PTL

=============================================================================
