------------------------ MODULE UnwiredAnalyzeProofs ------------------------
(***************************************************************************)
(* Proofs about UnwiredAnalyze for any program, any package loads and any  *)
(* order of them.  The argument for the report: a count is positive        *)
(* exactly when a load counted so far has a use of its kind (CountsAre),   *)
(* so that after the last load it does not matter which loads there were;  *)
(* and what was collected is a matter of the collected loads alone.        *)
(***************************************************************************)
EXTENDS UnwiredAnalyze, FiniteSetTheorems, TLAPS

\* The loads whose uses have been counted, and those that have been collected.
CountedLoads ==
  IF phase = "count" THEN Loads \ todo
  ELSE IF phase \in {"outside", "collect", "done"} THEN Loads ELSE {}
CollectedLoads ==
  IF phase = "collect" THEN Loads \ todo ELSE IF phase = "done" THEN Loads ELSE {}

\* Uses that some of the loads count: as a read, as a read that is not a receiver,
\* as a use by the test of another package.
ReadIn(P, d) == \E l \in P, u \in uses : u.decl = d /\ u.file \in Counted(l) /\ ~IsWrite(u)
ValueIn(P, d) ==
  \E l \in P, u \in uses : u.decl = d /\ u.file \in Counted(l) /\ ~IsWrite(u) /\ u.how # "recv"
TestedIn(P, d) == \E l \in P, u \in uses : u.decl = d /\ TestUse(l, u)

CountsAre(P) ==
  /\ \A d \in Decls : /\ reads[d] > 0 <=> ReadIn(P, d)
                      /\ recvUses[d] <= reads[d]
                      /\ reads[d] - recvUses[d] > 0 <=> ValueIn(P, d)
                      /\ testReads[d] > 0 <=> TestedIn(P, d)
  /\ \A p : p \in prodImports <=> \E l \in P \ TestMains, i \in imports : i[1] \in FilesOf[l] \ TestFiles /\ i[2] = p
  /\ \A p : p \in testImports <=> \E l \in P \ TestMains, i \in imports : i[1] \in FilesOf[l] \cap TestFiles /\ i[2] = p

\* What a method is credited with once the counts are complete.
ViaInterface(d) == \E s \in Satisfies : s[1] = d /\ ReadIn(Loads, s[2])
ViaOutside(d) == d \in OutsideMethods /\ ValueIn(Loads, RecvOf[d])
CreditsAre ==
  /\ phase = "outside" => \A d \in Decls : via[d] > 0 <=> ViaInterface(d)
  /\ phase \in {"collect", "done"} =>
       \A d \in Decls : reads[d] + via[d] > 0 <=> ReadIn(Loads, d) \/ ViaInterface(d) \/ ViaOutside(d)

CollectedIs(P) ==
  /\ \A p : p \in seen <=> \E l \in P \ ConsumerLoads : p = PathOf[l]
  /\ \A d : d \in decls <=> \E l \in P \ ConsumerLoads : d \in Collectable(l)

Counters == \A c \in {reads, writes, testReads, recvUses, via} : c \in [Decls -> Nat]

ProgramLoaded ==
  /\ uses \subseteq FixedUses \cup PossibleUses
  /\ imports \subseteq FixedImports \cup PossibleImports
  /\ phase \in Phases /\ todo \subseteq Loads

\* The invariant of the report.
Inv ==
  /\ ProgramLoaded /\ Counters
  /\ CountsAre(CountedLoads)
  /\ CreditsAre
  /\ CollectedIs(CollectedLoads)
  /\ report = IF phase = "done" THEN {d \in decls : TotalReads(d) = 0} ELSE {}

-----------------------------------------------------------------------------
(* Counting *)

LEMMA PositiveCardinality ==
  ASSUME NEW S, IsFiniteSet(S)
  PROVE  Cardinality(S) \in Nat /\ (Cardinality(S) > 0 <=> S # {})
BY FS_CardinalityType, FS_EmptySet

\* One load more adds its uses to the counts of the loads before it.
LEMMA CountStep ==
  ASSUME NEW l \in Loads, Inv, CountPackage(l)
  PROVE  Counters' /\ CountsAre(Loads \ todo)'
<1> DEFINE P == Loads \ todo
           here == {u \in uses : u.file \in Counted(l)}
           read(d) == {u \in {v \in here : ~IsWrite(v)} : u.decl = d}
           write(d) == {u \in {v \in here : IsWrite(v)} : u.decl = d}
           recv(d) == {u \in {v \in here : v.how = "recv"} : u.decl = d}
           test(d) == {u \in {v \in uses : TestUse(l, v)} : u.decl = d}
<1>1. phase = "count" /\ l \in todo /\ todo' = todo \ {l} /\ UNCHANGED <<opts, uses, imports>> /\ via' = via
  BY DEF CountPackage, input
<1>2. CountsAre(P) /\ Counters BY <1>1 DEF Inv, CountedLoads
<1>3. Loads \ todo' = P \cup {l} BY <1>1 DEF Inv, ProgramLoaded
<1>4. \A f : (f \in Counted(l))' <=> f \in Counted(l) BY <1>1 DEF Counted, Skipped
<1>5. IsFiniteSet(uses) BY FS_Subset, UsesAssumption DEF Inv, ProgramLoaded
<1>6. ASSUME NEW d \in Decls
      PROVE  /\ IsFiniteSet(read(d)) /\ IsFiniteSet(write(d)) /\ IsFiniteSet(recv(d)) /\ IsFiniteSet(test(d))
             /\ recv(d) \subseteq read(d)
  <2>1. recv(d) \subseteq read(d) BY DEF IsWrite
  <2>2. read(d) \subseteq uses /\ write(d) \subseteq uses /\ recv(d) \subseteq uses /\ test(d) \subseteq uses OBVIOUS
  <2> QED BY <1>5, <2>1, <2>2, FS_Subset
<1>7. /\ reads' = [d \in Decls |-> reads[d] + Cardinality(read(d))]
      /\ writes' = [d \in Decls |-> writes[d] + Cardinality(write(d))]
      /\ recvUses' = [d \in Decls |-> recvUses[d] + Cardinality(recv(d))]
      /\ testReads' = [d \in Decls |-> testReads[d] + Cardinality(test(d))]
  BY DEF CountPackage
<1>8. \A d \in Decls : /\ Cardinality(read(d)) \in Nat /\ Cardinality(write(d)) \in Nat
                       /\ Cardinality(recv(d)) \in Nat /\ Cardinality(test(d)) \in Nat
  BY <1>6, FS_CardinalityType
<1>9. Counters'
  <2>1. /\ reads \in [Decls -> Nat] /\ writes \in [Decls -> Nat] /\ recvUses \in [Decls -> Nat]
        /\ testReads \in [Decls -> Nat] /\ via' \in [Decls -> Nat]
    BY <1>1, <1>2 DEF Counters
  <2> HIDE DEF read, write, recv, test
  <2>2. /\ reads' \in [Decls -> Nat] /\ writes' \in [Decls -> Nat]
        /\ recvUses' \in [Decls -> Nat] /\ testReads' \in [Decls -> Nat]
    BY <1>7, <1>8, <2>1
  <2> QED BY <2>1, <2>2 DEF Counters
<1>10. ASSUME NEW d \in Decls
       PROVE  /\ reads'[d] > 0 <=> ReadIn(P, d) \/ read(d) # {}
              /\ recvUses'[d] <= reads'[d]
              /\ reads'[d] - recvUses'[d] > 0 <=> ValueIn(P, d) \/ read(d) \ recv(d) # {}
              /\ testReads'[d] > 0 <=> TestedIn(P, d) \/ test(d) # {}
  <2> DEFINE r == Cardinality(read(d))
             v == Cardinality(recv(d))
             t == Cardinality(test(d))
  <2>1. r \in Nat /\ v \in Nat /\ t \in Nat BY <1>8
  <2>2. (r > 0 <=> read(d) # {}) /\ (t > 0 <=> test(d) # {}) BY <1>6, PositiveCardinality
  <2>3. v <= r /\ (r = v <=> read(d) = recv(d)) BY <1>6, FS_Subset
  <2>4. r - v > 0 <=> read(d) \ recv(d) # {}
    <3>1. recv(d) \subseteq read(d) BY <1>6
    <3> HIDE DEF r, v, read, recv
    <3>2. r - v > 0 <=> r # v BY <2>1, <2>3
    <3>3. read(d) \ recv(d) # {} <=> read(d) # recv(d) BY <3>1
    <3> QED BY <2>3, <3>2, <3>3
  <2>5. /\ reads'[d] = reads[d] + r /\ recvUses'[d] = recvUses[d] + v /\ testReads'[d] = testReads[d] + t
    BY <1>7
  <2>6. reads[d] \in Nat /\ recvUses[d] \in Nat /\ testReads[d] \in Nat BY <1>2 DEF Counters
  <2>7. /\ reads[d] > 0 <=> ReadIn(P, d)
        /\ recvUses[d] <= reads[d]
        /\ reads[d] - recvUses[d] > 0 <=> ValueIn(P, d)
        /\ testReads[d] > 0 <=> TestedIn(P, d)
    BY <1>2 DEF CountsAre
  <2> HIDE DEF r, v, t, read, recv, test
  <2> QED BY <2>1, <2>2, <2>3, <2>4, <2>5, <2>6, <2>7
<1>11. ASSUME NEW d \in Decls
       PROVE  /\ ReadIn(P, d) \/ read(d) # {} <=> ReadIn(Loads \ todo, d)'
              /\ ValueIn(P, d) \/ read(d) \ recv(d) # {} <=> ValueIn(Loads \ todo, d)'
              /\ TestedIn(P, d) \/ test(d) # {} <=> TestedIn(Loads \ todo, d)'
  <2>1. \A m, f : (f \in Counted(m))' <=> f \in Counted(m) BY <1>1 DEF Counted, Skipped
  <2>2. \A m, u : TestUse(m, u)' <=> TestUse(m, u) BY <1>1 DEF TestUse, IsTestUse, Skipped
  <2>3. ReadIn(Loads \ todo, d)' <=> \E m \in P \cup {l}, u \in uses : u.decl = d /\ u.file \in Counted(m) /\ ~IsWrite(u)
    BY <1>1, <1>3, <2>1 DEF ReadIn
  <2>4. ValueIn(Loads \ todo, d)' <=>
          \E m \in P \cup {l}, u \in uses : u.decl = d /\ u.file \in Counted(m) /\ ~IsWrite(u) /\ u.how # "recv"
    BY <1>1, <1>3, <2>1 DEF ValueIn
  <2>5. TestedIn(Loads \ todo, d)' <=> \E m \in P \cup {l}, u \in uses : u.decl = d /\ TestUse(m, u)
    BY <1>1, <1>3, <2>2 DEF TestedIn
  <2>6. ReadIn(P, d) \/ read(d) # {} <=> ReadIn(Loads \ todo, d)' BY <2>3 DEF ReadIn
  <2>7. ValueIn(P, d) \/ read(d) \ recv(d) # {} <=> ValueIn(Loads \ todo, d)' BY <2>4 DEF ValueIn
  <2>8. TestedIn(P, d) \/ test(d) # {} <=> TestedIn(Loads \ todo, d)' BY <2>5 DEF TestedIn
  <2> QED BY <2>6, <2>7, <2>8
<1>12. \A p : p \in prodImports' <=>
         \E m \in (P \cup {l}) \ TestMains, i \in imports : i[1] \in FilesOf[m] \ TestFiles /\ i[2] = p
  <2>1. prodImports' = prodImports \cup Imported((IF l \in TestMains THEN {} ELSE FilesOf[l]) \ TestFiles)
    BY DEF CountPackage
  <2>2. \A p : p \in prodImports <=> \E m \in P \ TestMains, i \in imports : i[1] \in FilesOf[m] \ TestFiles /\ i[2] = p
    BY <1>2 DEF CountsAre
  <2> QED BY <2>1, <2>2 DEF Imported
<1>13. \A p : p \in testImports' <=>
         \E m \in (P \cup {l}) \ TestMains, i \in imports : i[1] \in FilesOf[m] \cap TestFiles /\ i[2] = p
  <2>1. testImports' = testImports \cup Imported((IF l \in TestMains THEN {} ELSE FilesOf[l]) \cap TestFiles)
    BY DEF CountPackage
  <2>2. \A p : p \in testImports <=> \E m \in P \ TestMains, i \in imports : i[1] \in FilesOf[m] \cap TestFiles /\ i[2] = p
    BY <1>2 DEF CountsAre
  <2> QED BY <2>1, <2>2 DEF Imported
<1>14. CountsAre(Loads \ todo)' BY <1>1, <1>3, <1>10, <1>11, <1>12, <1>13 DEF CountsAre
<1> QED BY <1>9, <1>14

-----------------------------------------------------------------------------
(* Collecting, and the report *)

\* A receiver names no field and no method.
LEMMA NoReceivers ==
  ASSUME ProgramLoaded
  PROVE  \A d \in Fields \cup {s[2] : s \in Satisfies} : ~NamedByReceivers(d)
BY UsesAssumption DEF ProgramLoaded, NamedByReceivers

\* When every load is counted and collected, the counts of a declaration say whether
\* code names it, by itself, in a receiver or through an interface, and whether other
\* tests use it.
LEMMA CountsAreExact ==
  ASSUME Inv, phase \in {"collect", "done"}, CollectedIs(Loads), NEW d \in decls
  PROVE  /\ d \in Decls /\ InScope(d)
         /\ reads[d] \in Nat /\ via[d] \in Nat /\ testReads[d] \in Nat
         /\ reads[d] + via[d] > 0
              <=> Named(d) \/ NamedByReceivers(d) \/ CalledThroughInterface(d) \/ CalledFromOutside(d)
         /\ PkgOf[d] \in TestSupport /\ testReads[d] > 0 <=> UsedByOtherTests(d)
<1>1. d \in Decls /\ InScope(d) /\ PkgOf[d] \in seen
  BY LoadsAssumption, DeclsAssumption DEF CollectedIs, Collectable, InScope, Skipped
<1>2. CountsAre(Loads) /\ CreditsAre /\ ProgramLoaded BY DEF Inv, CountedLoads
<1>3. uses \subseteq [file : UNION {FilesOf[l] : l \in Loads}, decl : Decls, how : {"read", "write", "key", "recv"}]
  BY <1>2, UsesAssumption DEF ProgramLoaded
<1>4. \A u \in uses, l \in Loads : u.file \in Counted(l) <=> u.file \in FilesOf[l] /\ ReadFile(u.file)
  BY LoadsAssumption DEF Counted, Skipped, ReadFile, ConsumerFiles
<1>5. \A u \in uses : \E l \in Loads : u.file \in FilesOf[l] BY <1>3
<1>6. \A e \in Decls : ReadIn(Loads, e) <=> Named(e) \/ NamedByReceivers(e)
  BY <1>3, <1>4, <1>5 DEF ReadIn, Named, NamedByReceivers, IsWrite
<1>7. \A e \in Decls : ValueIn(Loads, e) <=> Named(e)
  BY <1>3, <1>4, <1>5 DEF ValueIn, Named, IsWrite
<1>8. reads[d] + via[d] > 0
        <=> Named(d) \/ NamedByReceivers(d) \/ CalledThroughInterface(d) \/ CalledFromOutside(d)
  <2>0. \A s \in Satisfies : ~NamedByReceivers(s[2])
    BY <1>2, NoReceivers
  <2>1. ViaInterface(d) <=> CalledThroughInterface(d)
    BY <1>6, <2>0, SatisfiesAssumption DEF ViaInterface, CalledThroughInterface
  <2>2. ViaOutside(d) <=> CalledFromOutside(d)
    BY <1>7, DeclsAssumption DEF ViaOutside, CalledFromOutside
  <2> QED BY <1>1, <1>2, <1>6, <2>1, <2>2 DEF CreditsAre
<1>9. PkgOf[d] \in TestSupport /\ testReads[d] > 0 <=> UsedByOtherTests(d)
  <2> DEFINE importers == {i[1] : i \in {j \in imports : j[2] = PkgOf[d]}} \ UNION {FilesOf[l] : l \in TestMains}
  <2>1. \A i \in imports : \E l \in Loads : i[1] \in FilesOf[l]
    BY <1>2, UsesAssumption DEF ProgramLoaded
  <2>2. \A f, l : l \in Loads /\ f \in FilesOf[l] =>
          (l \in TestMains <=> f \in UNION {FilesOf[m] : m \in TestMains})
    BY LoadsAssumption
  <2>3. PkgOf[d] \in testImports <=> importers \cap TestFiles # {}
    BY <1>2, <2>1, <2>2 DEF CountsAre
  <2>4. PkgOf[d] \in prodImports <=> importers \ TestFiles # {}
    BY <1>2, <2>1, <2>2 DEF CountsAre
  <2>5. PkgOf[d] \in TestSupport <=> importers # {} /\ importers \subseteq TestFiles
    BY <1>1, <2>3, <2>4 DEF TestSupport
  <2>6. testReads[d] > 0 <=> \E u \in uses, l \in Loads :
          /\ u.decl = d /\ u.file \in FilesOf[l] \cap TestFiles
          /\ u.file \in GeneratedFiles => opts.generated
          /\ BaseOf[l] # PkgOf[d]
    BY <1>1, <1>2 DEF CountsAre, TestedIn, TestUse, IsTestUse, Skipped
  <2> QED BY <2>5, <2>6 DEF UsedByOtherTests
<1>10. reads[d] \in Nat /\ via[d] \in Nat /\ testReads[d] \in Nat BY <1>1 DEF Inv, Counters
<1> QED BY <1>1, <1>8, <1>9, <1>10

\* So what has no read is what has no use, and no methods.
LEMMA TotalIsExact ==
  ASSUME Inv, phase \in {"collect", "done"}, CollectedIs(Loads), NEW d \in decls
  PROVE  d \in Decls /\ InScope(d) /\ (TotalReads(d) = 0 <=> ~Used(d) /\ ~NamedByReceivers(d))
<1>1. TotalReads(d) = 0 <=> ~(reads[d] + via[d] > 0) /\ d \notin Tagged /\ ~(PkgOf[d] \in TestSupport /\ testReads[d] > 0)
  BY CountsAreExact DEF TotalReads, ReadsViaReflection
<1> QED BY <1>1, CountsAreExact DEF Used

\* And a field has no read but by its tag where no code reads it.
LEMMA FieldIsExact ==
  ASSUME Inv, phase \in {"collect", "done"}, CollectedIs(Loads), NEW d \in decls \cap Fields
  PROVE  TotalReads(d) = ReadsViaReflection(d) <=> ~Named(d) /\ ~UsedByOtherTests(d)
<1>1. ~CalledThroughInterface(d) /\ ~CalledFromOutside(d) /\ ~NamedByReceivers(d)
  BY NoReceivers, DeclsAssumption, SatisfiesAssumption
  DEF CalledThroughInterface, CalledFromOutside, Inv
<1>2. TotalReads(d) = ReadsViaReflection(d)
        <=> ~(reads[d] + via[d] > 0) /\ ~(PkgOf[d] \in TestSupport /\ testReads[d] > 0)
  BY CountsAreExact DEF TotalReads, ReadsViaReflection
<1> QED BY <1>1, <1>2, CountsAreExact

-----------------------------------------------------------------------------
(* The invariant *)

LEMMA InvInit == Init => Inv
<1> SUFFICES ASSUME Init PROVE Inv OBVIOUS
<1> USE DEF Init
<1>1. ProgramLoaded /\ Counters BY DEF ProgramLoaded, Phases, Counters, Zero
<1>2. CountsAre({}) BY DEF CountsAre, Zero, ReadIn, ValueIn, TestedIn
<1>3. CollectedIs({}) BY DEF CollectedIs
<1>4. CountedLoads = {} /\ CollectedLoads = {} BY DEF CountedLoads, CollectedLoads
<1> QED BY <1>1, <1>2, <1>3, <1>4 DEF Inv, CreditsAre

\* The counts are about the program, the options and the loads only.
LEMMA CountsKept ==
  ASSUME CountsAre(CountedLoads), UNCHANGED <<input, counts>>, CountedLoads' = CountedLoads
  PROVE  CountsAre(CountedLoads)'
<1> DEFINE P == CountedLoads
<1>1. UNCHANGED <<opts, uses, imports, reads, writes, testReads, recvUses, prodImports, testImports>>
  BY DEF input, counts
<1>2. \A m, f : (f \in Counted(m))' <=> f \in Counted(m) BY <1>1 DEF Counted, Skipped
<1>3. \A m, u : TestUse(m, u)' <=> TestUse(m, u) BY <1>1 DEF TestUse, IsTestUse, Skipped
<1>4. P' = P OBVIOUS
<1> HIDE DEF P
<1>5. \A d : ReadIn(P, d)' <=> ReadIn(P, d) BY <1>1, <1>2, <1>4 DEF ReadIn
<1>6. \A d : ValueIn(P, d)' <=> ValueIn(P, d) BY <1>1, <1>2, <1>4 DEF ValueIn
<1>7. \A d : TestedIn(P, d)' <=> TestedIn(P, d) BY <1>1, <1>3, <1>4 DEF TestedIn
<1>8. CountsAre(P) BY DEF P
<1>9. CountsAre(P)' BY <1>1, <1>4, <1>5, <1>6, <1>7, <1>8 DEF CountsAre
<1> QED BY <1>9 DEF P

\* So are the credits.
LEMMA CreditsKept ==
  ASSUME UNCHANGED <<opts, uses>>
  PROVE  \A d : /\ ReadIn(Loads, d)' <=> ReadIn(Loads, d)
                /\ ViaInterface(d)' <=> ViaInterface(d)
                /\ ViaOutside(d)' <=> ViaOutside(d)
<1>1. \A m, f : (f \in Counted(m))' <=> f \in Counted(m) BY DEF Counted, Skipped
<1>2. \A d : ReadIn(Loads, d)' <=> ReadIn(Loads, d) BY <1>1 DEF ReadIn
<1>3. \A d : ValueIn(Loads, d)' <=> ValueIn(Loads, d) BY <1>1 DEF ValueIn
<1> QED BY <1>2, <1>3 DEF ViaInterface, ViaOutside

\* What is collected is about the options and the loads only.
LEMMA CollectedKept ==
  ASSUME CollectedIs(CollectedLoads), UNCHANGED <<opts, collected>>, CollectedLoads' = CollectedLoads
  PROVE  CollectedIs(CollectedLoads)'
<1> DEFINE P == CollectedLoads
<1>1. UNCHANGED <<opts, seen, decls>> BY DEF collected
<1>2. \A l, d : (d \in Collectable(l))' <=> d \in Collectable(l) BY <1>1 DEF Collectable, Skipped
<1>3. CollectedIs(P) /\ P' = P OBVIOUS
<1> HIDE DEF P
<1>4. CollectedIs(P)' BY <1>1, <1>2, <1>3 DEF CollectedIs
<1> QED BY <1>4 DEF P

LEMMA InvStep ==
  ASSUME Inv, [Next]_vars
  PROVE  Inv'
<1> USE DEF Inv
\* The steps before the program is loaded.
<1>1. CASE Begin \/ ReadModule \/ MakeTempDir \/ WriteGoWork
  <2>1. /\ phase \in {"start", "modules", "gowork"}
        /\ phase' \in {"modules", "gowork", "load", "failed"}
        /\ UNCHANGED <<input, todo, counts, via, collected, report>>
    BY <1>1 DEF Begin, ReadModule, MakeTempDir, WriteGoWork, Go, Fail, Unloaded
  <2>2. CountedLoads = {} /\ CountedLoads' = {} /\ CollectedLoads = {} /\ CollectedLoads' = {}
    BY <2>1 DEF CountedLoads, CollectedLoads
  <2>3. ProgramLoaded' /\ Counters'
    BY <2>1 DEF ProgramLoaded, Counters, input, counts, Phases
  <2>4. CountsAre(CountedLoads)' BY <2>1, <2>2, CountsKept
  <2>5. CollectedIs(CollectedLoads)' BY <2>1, <2>2, CollectedKept DEF input
  <2> QED BY <2>1, <2>3, <2>4, <2>5 DEF CreditsAre
<1>2. CASE Load
  <2>1. /\ phase = "load" /\ phase' \in {"count", "failed"} /\ opts' = opts
        /\ UNCHANGED <<counts, via, collected, report>>
        /\ phase' = "count" => todo' = Loads
        /\ todo' \subseteq Loads
    BY <1>2 DEF Load, Go, Fail, ProgramLoaded
  <2>2. CountedLoads = {} /\ CountedLoads' = {} /\ CollectedLoads = {} /\ CollectedLoads' = {}
    BY <2>1 DEF CountedLoads, CollectedLoads
  <2>3. uses' \subseteq FixedUses \cup PossibleUses /\ imports' \subseteq FixedImports \cup PossibleImports
    BY <1>2 DEF Load, ProgramLoaded
  <2>4. ProgramLoaded' /\ Counters'
    BY <2>1, <2>3 DEF ProgramLoaded, Counters, counts, Phases
  <2>5. CountsAre({}) BY <2>2
  <2>6. CountsAre({})' BY <2>1, <2>5 DEF CountsAre, counts, ReadIn, ValueIn, TestedIn
  <2>7. CollectedIs(CollectedLoads)' BY <2>1, <2>2, CollectedKept
  <2> QED BY <2>1, <2>2, <2>4, <2>6, <2>7 DEF CreditsAre
<1>3. ASSUME NEW l \in Loads, CountPackage(l) PROVE Inv'
  <2>1. /\ phase = "count" /\ phase' = "count" /\ todo' = todo \ {l}
        /\ UNCHANGED <<input, via, collected, report>>
    BY <1>3 DEF CountPackage
  <2>2. ProgramLoaded' BY <2>1 DEF ProgramLoaded, input
  <2>3. CountsAre(CountedLoads)' BY <1>3, <2>1, CountStep DEF CountedLoads
  <2>4. CollectedLoads = {} /\ CollectedLoads' = {} BY <2>1 DEF CollectedLoads
  <2>5. CollectedIs(CollectedLoads)' BY <2>1, <2>4, CollectedKept DEF input
  <2> QED BY <1>3, <2>1, <2>2, <2>3, <2>5, CountStep DEF CreditsAre
<1>4. CASE CreditInterfaceMethods
  <2>1. /\ phase = "count" /\ todo = {} /\ phase' = "outside"
        /\ UNCHANGED <<input, todo, counts, collected, report>>
        /\ via' = [d \in Decls |-> IF \E s \in Satisfies : s[1] = d /\ reads[s[2]] > 0 THEN 1 ELSE 0]
    BY <1>4 DEF CreditInterfaceMethods, Go
  <2>2. CountedLoads = Loads /\ CountedLoads' = Loads /\ CollectedLoads = {} /\ CollectedLoads' = {}
    BY <2>1 DEF CountedLoads, CollectedLoads
  <2>3. ProgramLoaded' BY <2>1 DEF ProgramLoaded, input, Phases
  <2>4. Counters'
    <3>1. via' \in [Decls -> Nat] BY <2>1
    <3> QED BY <2>1, <3>1 DEF Counters, counts
  <2>5. CountsAre(CountedLoads)' BY <2>1, <2>2, CountsKept
  <2>6. \A d \in Decls : via'[d] > 0 <=> ViaInterface(d)
    <3>1. \A s \in Satisfies : reads[s[2]] > 0 <=> ReadIn(Loads, s[2])
      BY <2>2, SatisfiesAssumption DEF CountsAre
    <3> QED BY <2>1, <3>1 DEF ViaInterface
  <2>7. CreditsAre' BY <2>1, <2>6, CreditsKept DEF CreditsAre, input
  <2>8. CollectedIs(CollectedLoads)' BY <2>1, <2>2, CollectedKept DEF input
  <2> QED BY <2>1, <2>3, <2>4, <2>5, <2>7, <2>8
<1>5. CASE CreditOutsideInterfaces
  <2>1. /\ phase = "outside" /\ phase' = "collect" /\ todo' = Loads
        /\ UNCHANGED <<input, counts, collected, report>>
        /\ via' = [d \in Decls |->
              IF d \in OutsideMethods /\ Alive(RecvOf[d]) /\ reads[d] = 0 /\ via[d] = 0
              THEN 1 ELSE via[d]]
    BY <1>5 DEF CreditOutsideInterfaces, Go
  <2>2. CountedLoads = Loads /\ CountedLoads' = Loads /\ CollectedLoads = {} /\ CollectedLoads' = {}
    BY <2>1 DEF CountedLoads, CollectedLoads
  <2>3. ProgramLoaded' BY <2>1 DEF ProgramLoaded, input, Phases
  <2>4. via \in [Decls -> Nat] /\ reads \in [Decls -> Nat] BY DEF Counters
  <2>5. Counters'
    <3>1. via' \in [Decls -> Nat] BY <2>1, <2>4
    <3> QED BY <2>1, <3>1 DEF Counters, counts
  <2>6. CountsAre(CountedLoads)' BY <2>1, <2>2, CountsKept
  <2>7. ASSUME NEW d \in Decls
        PROVE  reads[d] + via'[d] > 0 <=> ReadIn(Loads, d) \/ ViaInterface(d) \/ ViaOutside(d)
    <3>1. reads[d] \in Nat /\ via[d] \in Nat BY <2>4
    <3>2. reads[d] > 0 <=> ReadIn(Loads, d) BY <2>2 DEF CountsAre
    <3>3. via[d] > 0 <=> ViaInterface(d) BY <2>1 DEF CreditsAre
    <3>4. d \in OutsideMethods => RecvOf[d] \in Decls BY DeclsAssumption
    <3>5. d \in OutsideMethods => (Alive(RecvOf[d]) <=> ValueIn(Loads, RecvOf[d]))
      BY <2>2, <3>4 DEF Alive, CountsAre
    <3> QED BY <2>1, <3>1, <3>2, <3>3, <3>5 DEF ViaOutside
  <2>8. CreditsAre' BY <2>1, <2>7, CreditsKept DEF CreditsAre, input, counts
  <2>9. CollectedIs(CollectedLoads)'
    <3>1. CollectedLoads' = CollectedLoads BY <2>1, <2>2 DEF CollectedLoads
    <3> QED BY <2>1, <3>1, CollectedKept DEF input
  <2> QED BY <2>1, <2>3, <2>5, <2>6, <2>8, <2>9
<1>6. ASSUME NEW l \in Loads, CollectPackage(l) PROVE Inv'
  <2>1. /\ phase = "collect" /\ phase' = "collect" /\ l \in todo /\ todo' = todo \ {l}
        /\ UNCHANGED <<input, counts, via, report>>
    BY <1>6 DEF CollectPackage
  <2>2. CountedLoads = Loads /\ CountedLoads' = Loads BY <2>1 DEF CountedLoads
  <2>3. ProgramLoaded' /\ Counters' BY <2>1 DEF ProgramLoaded, Counters, input, counts
  <2>4. CountsAre(CountedLoads)' BY <2>1, <2>2, CountsKept
  <2>5. CreditsAre' BY <2>1, CreditsKept DEF CreditsAre, input, counts
  <2>6. CollectedLoads = Loads \ todo /\ CollectedLoads' = (Loads \ todo) \cup {l}
    BY <2>1 DEF CollectedLoads, ProgramLoaded
  <2>7. \A m, d : (d \in Collectable(m))' <=> d \in Collectable(m)
    BY <2>1 DEF Collectable, Skipped, input
  <2>8. CASE l \in ConsumerLoads
    <3>1. seen' = seen /\ decls' = decls BY <1>6, <2>8 DEF CollectPackage, collected
    <3>2. CollectedIs(CollectedLoads)' BY <2>6, <2>7, <2>8, <3>1 DEF CollectedIs
    <3> QED BY <2>1, <2>3, <2>4, <2>5, <3>2
  <2>9. CASE l \notin ConsumerLoads
    <3>1. seen' = seen \cup {PathOf[l]} /\ decls' = decls \cup Collectable(l)
      BY <1>6, <2>9 DEF CollectPackage
    <3>2. CollectedIs(CollectedLoads)' BY <2>6, <2>7, <2>9, <3>1 DEF CollectedIs
    <3> QED BY <2>1, <2>3, <2>4, <2>5, <3>2
  <2> QED BY <2>8, <2>9
<1>7. CASE Report
  <2>1. /\ phase = "collect" /\ phase' = "done" /\ todo = {}
        /\ UNCHANGED <<input, todo, counts, via, collected>>
        /\ report' = {d \in decls : TotalReads(d) = 0}
    BY <1>7 DEF Report, Go
  <2>2. CountedLoads = Loads /\ CountedLoads' = Loads /\ CollectedLoads = Loads /\ CollectedLoads' = Loads
    BY <2>1 DEF CountedLoads, CollectedLoads
  <2>3. ProgramLoaded' /\ Counters' BY <2>1 DEF ProgramLoaded, Counters, input, counts, Phases
  <2>4. CountsAre(CountedLoads)' BY <2>1, <2>2, CountsKept
  <2>5. CreditsAre' BY <2>1, CreditsKept DEF CreditsAre, input, counts
  <2>6. CollectedIs(CollectedLoads)' BY <2>1, <2>2, CollectedKept DEF input
  <2>7. \A d : TotalReads(d)' = TotalReads(d)
    BY <2>1 DEF TotalReads, ReadsViaReflection, TestSupport, counts, collected
  <2>8. report' = {d \in decls' : TotalReads(d)' = 0} BY <2>1, <2>7 DEF collected
  <2> QED BY <2>1, <2>3, <2>4, <2>5, <2>6, <2>8
<1>8. CASE UNCHANGED vars
  <2>1. UNCHANGED <<input, phase, todo, counts, via, collected, report>> BY <1>8 DEF vars
  <2>2. CountedLoads' = CountedLoads /\ CollectedLoads' = CollectedLoads
    BY <2>1 DEF CountedLoads, CollectedLoads
  <2>3. ProgramLoaded' /\ Counters' BY <2>1 DEF ProgramLoaded, Counters, input, counts
  <2>4. CountsAre(CountedLoads)' BY <2>1, <2>2, CountsKept
  <2>5. CreditsAre' BY <2>1, CreditsKept DEF CreditsAre, input, counts
  <2>6. CollectedIs(CollectedLoads)' BY <2>1, <2>2, CollectedKept DEF input
  <2>7. \A d : TotalReads(d)' = TotalReads(d)
    BY <2>1 DEF TotalReads, ReadsViaReflection, TestSupport, counts, collected
  <2>8. report' = IF phase' = "done" THEN {d \in decls' : TotalReads(d)' = 0} ELSE {}
    BY <2>1, <2>7 DEF collected
  <2> QED BY <2>3, <2>4, <2>5, <2>6, <2>8
<1> QED BY <1>1, <1>2, <1>3, <1>4, <1>5, <1>6, <1>7, <1>8 DEF Next

\* Whatever the program, the loads and their order, the report names exactly the
\* declarations in scope that nothing uses and no receiver names: a type without
\* methods is reported exactly when nothing uses it, one with methods never is.
THEOREM ReportAlwaysExact == Spec => []ReportIsExact
<1>1. ASSUME Inv PROVE ReportIsExact
  <2>1. SUFFICES ASSUME phase = "done"
                 PROVE  report = {d \in Decls : InScope(d) /\ ~Used(d) /\ ~NamedByReceivers(d)}
    BY DEF ReportIsExact
  <2>2. CollectedIs(Loads) BY <1>1, <2>1 DEF Inv, CollectedLoads
  <2>3. \A d \in Decls : InScope(d) => d \in decls
    BY <2>2 DEF InScope, CollectedIs, Collectable, Skipped
  <2>4. \A d \in decls :
          d \in Decls /\ InScope(d) /\ (TotalReads(d) = 0 <=> ~Used(d) /\ ~NamedByReceivers(d))
    BY <1>1, <2>1, <2>2, TotalIsExact
  <2> QED BY <1>1, <2>1, <2>3, <2>4 DEF Inv
<1> QED BY <1>1, InvInit, InvStep, PTL DEF Spec

\* Whatever the program, the loads and their order, what cmd/crdfields takes for the
\* readers of a field are its readers in code, however it is tagged.
THEOREM FieldReadsAlwaysExact == Spec => []FieldReadsAreExact
<1>1. ASSUME Inv PROVE FieldReadsAreExact
  <2> SUFFICES ASSUME phase = "done", NEW d \in Fields
               PROVE  /\ d \in decls <=> InScope(d)
                      /\ d \in decls => (TotalReads(d) = ReadsViaReflection(d) <=> ~Named(d) /\ ~UsedByOtherTests(d))
    BY DEF FieldReadsAreExact
  <2>1. CollectedIs(Loads) BY <1>1 DEF Inv, CollectedLoads
  <2>2. d \in Decls BY DeclsAssumption
  <2>3. InScope(d) => d \in decls BY <2>1, <2>2 DEF InScope, CollectedIs, Collectable, Skipped
  <2>4. d \in decls => InScope(d) BY <1>1, <2>1, CountsAreExact
  <2> QED BY <1>1, <2>1, <2>3, <2>4, FieldIsExact
<1> QED BY <1>1, InvInit, InvStep, PTL DEF Spec

-----------------------------------------------------------------------------
(* Types, and the life of the workspace *)

\* Each path counts once.
PackagesAre ==
  /\ seen \subseteq {PathOf[l] : l \in Loads}
  /\ pkgCount = Cardinality(seen)

LEMMA PackagesStep ==
  ASSUME PackagesAre, NEW l \in Loads, CollectPackage(l)
  PROVE  PackagesAre'
<1>1. IsFiniteSet(seen) BY FS_Subset, LoadsAssumption DEF PackagesAre
<1>2. CASE l \in ConsumerLoads BY <1>2 DEF CollectPackage, collected, PackagesAre
<1>3. CASE l \notin ConsumerLoads
  <2>1. /\ seen' = seen \cup {PathOf[l]}
        /\ pkgCount' = pkgCount + (IF PathOf[l] \notin seen THEN 1 ELSE 0)
    BY <1>3 DEF CollectPackage, NewPath
  <2>2. Cardinality(seen \cup {PathOf[l]}) = IF PathOf[l] \in seen THEN Cardinality(seen) ELSE Cardinality(seen) + 1
    BY <1>1, FS_AddElement
  <2>3. Cardinality(seen) \in Nat BY <1>1, FS_CardinalityType
  <2> QED BY <2>1, <2>2, <2>3 DEF PackagesAre
<1> QED BY <1>2, <1>3

\* Type correctness, for any program and any loads.
THEOREM TypeCorrect == Spec => []TypeOK
<1> DEFINE Paths == {PathOf[l] : l \in Loads}
           Loading == /\ opts \in OptSet /\ tempDir \in {"none", "made", "removed"}
                      /\ mods \in Seq(GoMods) /\ goVersion \in GoMods \cup {NoVersion}
<1>1. ASSUME Init PROVE Loading /\ PackagesAre
  BY <1>1, FS_EmptySet DEF Init, PackagesAre
<1>2. ASSUME Loading, PackagesAre, [Next]_vars PROVE Loading' /\ PackagesAre'
  <2>1. CASE Begin \/ MakeTempDir \/ WriteGoWork
    BY <1>2, <2>1 DEF Begin, MakeTempDir, WriteGoWork, Fail, workspace, input, Unloaded, collected, PackagesAre
  <2>2. CASE ReadModule
    <3>1. mods' \in Seq(GoMods) /\ goVersion' \in GoMods \cup {NoVersion}
      BY <1>2, <2>2 DEF ReadModule, Fail
    <3> QED BY <1>2, <2>2, <3>1 DEF ReadModule, Fail, input, Unloaded, collected, PackagesAre
  <2>3. CASE Load
    BY <1>2, <2>3 DEF Load, Fail, collected, PackagesAre
  <2>4. ASSUME NEW l \in Loads, CountPackage(l) PROVE Loading' /\ PackagesAre'
    BY <1>2, <2>4 DEF CountPackage, workspace, input, collected, PackagesAre
  <2>5. ASSUME NEW l \in Loads, CollectPackage(l) PROVE Loading' /\ PackagesAre'
    <3>1. PackagesAre' BY <1>2, <2>5, PackagesStep
    <3> QED BY <1>2, <2>5, <3>1 DEF CollectPackage, workspace, input
  <2>6. CASE CreditInterfaceMethods \/ CreditOutsideInterfaces
    BY <1>2, <2>6 DEF CreditInterfaceMethods, CreditOutsideInterfaces, workspace, input, collected, PackagesAre
  <2>7. CASE Report
    BY <1>2, <2>7 DEF Report, workspace, input, collected, PackagesAre
  <2>8. CASE UNCHANGED vars
    BY <1>2, <2>8 DEF vars, workspace, input, collected, PackagesAre
  <2> QED BY <1>2, <2>1, <2>2, <2>3, <2>4, <2>5, <2>6, <2>7, <2>8 DEF Next
<1>3. ASSUME Inv, Loading, PackagesAre PROVE TypeOK
  <2>1. \A d \in decls : d \in Decls BY <1>3 DEF Inv, CollectedIs, Collectable
  <2>2. report \subseteq decls BY <1>3 DEF Inv
  <2>3. IsFiniteSet(Paths) /\ seen \subseteq Paths BY <1>3, LoadsAssumption DEF PackagesAre
  <2>4. Cardinality(seen) <= Cardinality(Paths) BY <2>3, FS_Subset
  <2>5. Cardinality(seen) \in Nat /\ Cardinality(Paths) \in Nat BY <2>3, FS_Subset, FS_CardinalityType
  <2>6. pkgCount \in 0..Cardinality(Paths) BY <1>3, <2>4, <2>5 DEF PackagesAre
  <2> QED BY <1>3, <2>1, <2>2, <2>6 DEF TypeOK, Inv, ProgramLoaded, Counters
<1> QED BY <1>1, <1>2, <1>3, InvInit, InvStep, PTL DEF Spec

\* However an analysis ends, its temporary workspace is gone.
THEOREM WorkspaceAlwaysRemoved == Spec => []WorkspaceRemoved
<1>1. Init => WorkspaceRemoved BY DEF Init, WorkspaceRemoved
<1>2. ASSUME WorkspaceRemoved, [Next]_vars PROVE WorkspaceRemoved'
  <2> USE <1>2 DEF WorkspaceRemoved
  <2>1. CASE Begin \/ ReadModule \/ MakeTempDir \/ WriteGoWork \/ Load
    BY <2>1 DEF Begin, ReadModule, MakeTempDir, WriteGoWork, Load, Go, Fail, workspace
  <2>2. CASE \E l \in Loads : CountPackage(l) \/ CollectPackage(l)
    BY <2>2 DEF CountPackage, CollectPackage, workspace
  <2>3. CASE CreditInterfaceMethods \/ CreditOutsideInterfaces \/ Report
    BY <2>3 DEF CreditInterfaceMethods, CreditOutsideInterfaces, Report, Go, workspace
  <2>4. CASE UNCHANGED vars BY <2>4 DEF vars, workspace
  <2> QED BY <2>1, <2>2, <2>3, <2>4 DEF Next
<1> QED BY <1>1, <1>2, PTL DEF Spec

\* A module that asks for a release, neither for a language version nor for a candidate.
Released(m) == m.patch \notin {Language, Candidate}
NoNewer(m, n) == m.minor < n.minor \/ (m.minor = n.minor /\ m.patch <= n.patch)

\* The version so far serves the modules so far.
VersionServes ==
  mods # <<>> /\ (\A i \in DOMAIN mods : Released(mods[i])) =>
    /\ goVersion \in GoMods /\ Released(goVersion)
    /\ \A i \in DOMAIN mods : NoNewer(mods[i], goVersion)
ModulesRead ==
  /\ mods \in Seq(GoMods)
  /\ phase = "modules" => NConsumers > 0
  /\ phase \in {"gowork", "load"} /\ NConsumers > 0 => Len(mods) = NConsumers + 1
  /\ VersionServes

\* Among releases a comparison decides which of two serves the other.
LEMMA NewerIsOrder ==
  ASSUME NEW m \in GoMods, NEW n \in GoMods, Released(m), Released(n)
  PROVE  /\ Newer(m, n) => NoNewer(n, m)
         /\ ~Newer(m, n) => NoNewer(m, n)
         /\ \A k \in GoMods : Released(k) /\ NoNewer(k, n) /\ NoNewer(n, m) => NoNewer(k, m)
BY GoModsAssumption DEF Released, Newer, NoNewer, SemverPatch, Language, Candidate

LEMMA ReadModuleServes ==
  ASSUME NEW m \in GoMods, ModulesRead, mods' = Append(mods, m),
         goVersion' = IF mods = <<>> \/ Newer(m, goVersion) THEN m ELSE goVersion
  PROVE  VersionServes'
<1> SUFFICES ASSUME \A i \in DOMAIN mods' : Released(mods'[i])
             PROVE  /\ goVersion' \in GoMods /\ Released(goVersion')
                    /\ \A i \in DOMAIN mods' : NoNewer(mods'[i], goVersion')
  BY DEF VersionServes
<1>1. /\ mods \in Seq(GoMods) /\ Len(mods) \in Nat /\ DOMAIN mods = 1..Len(mods)
      /\ DOMAIN mods' = 1..(Len(mods) + 1) /\ mods'[Len(mods) + 1] = m
      /\ \A i \in DOMAIN mods : mods'[i] = mods[i] /\ mods[i] \in GoMods
  BY DEF ModulesRead
<1>2. Released(m) /\ \A i \in DOMAIN mods : Released(mods[i]) BY <1>1
<1>3. NoNewer(m, m) BY GoModsAssumption, <1>2 DEF NoNewer, Released, Language, Candidate
<1>4. CASE mods = <<>>
  <2>1. Len(mods) = 0 BY <1>4
  <2> QED BY <1>1, <1>2, <1>3, <1>4, <2>1
<1>5. CASE mods # <<>>
  <2>1. goVersion \in GoMods /\ Released(goVersion) /\ \A i \in DOMAIN mods : NoNewer(mods[i], goVersion)
    BY <1>2, <1>5 DEF ModulesRead, VersionServes
  <2>2. CASE Newer(m, goVersion)
    <3>1. goVersion' = m /\ NoNewer(goVersion, m) BY <1>2, <2>1, <2>2, NewerIsOrder
    <3>2. \A i \in DOMAIN mods : NoNewer(mods[i], m) BY <1>1, <1>2, <2>1, <3>1, NewerIsOrder
    <3> QED BY <1>1, <1>2, <1>3, <3>1, <3>2
  <2>3. CASE ~Newer(m, goVersion)
    <3>1. goVersion' = goVersion /\ NoNewer(m, goVersion) BY <1>2, <1>5, <2>1, <2>3, NewerIsOrder
    <3> QED BY <1>1, <2>1, <3>1
  <2> QED BY <2>2, <2>3
<1> QED BY <1>4, <1>5

\* Whatever the consumers, a go.work over modules that ask for releases serves them all.
THEOREM GoWorkAlwaysServes == Spec => []GoWorkServes
<1>1. Init => ModulesRead BY DEF Init, ModulesRead, VersionServes
<1>2. ASSUME ModulesRead, [Next]_vars PROVE ModulesRead'
  <2> USE <1>2 DEF ModulesRead
  <2>1. CASE Begin BY <2>1, LoadsAssumption DEF Begin, Go, Fail, VersionServes
  <2>2. CASE ReadModule
    <3>1. CASE UNCHANGED <<mods, goVersion>> /\ phase' = "failed" BY <3>1 DEF VersionServes
    <3>2. CASE \E m \in GoMods : /\ mods' = Append(mods, m) /\ UNCHANGED phase
                                 /\ goVersion' = IF mods = <<>> \/ Newer(m, goVersion) THEN m ELSE goVersion
      <4>1. PICK m \in GoMods : /\ mods' = Append(mods, m) /\ UNCHANGED phase
                                /\ goVersion' = IF mods = <<>> \/ Newer(m, goVersion) THEN m ELSE goVersion
        BY <3>2
      <4>2. VersionServes' BY <4>1, ReadModuleServes
      <4>3. mods' \in Seq(GoMods) BY <4>1
      <4>4. phase = "modules" BY <2>2 DEF ReadModule
      <4> QED BY <4>1, <4>2, <4>3, <4>4
    <3> QED BY <2>2, <3>1, <3>2 DEF ReadModule, Fail, Go
  <2>3. CASE MakeTempDir \/ WriteGoWork
    BY <2>3 DEF MakeTempDir, WriteGoWork, Go, Fail, VersionServes
  <2>4. CASE Load
    BY <2>4 DEF Load, Go, Fail, VersionServes
  <2>5. CASE \E l \in Loads : CountPackage(l) \/ CollectPackage(l)
    BY <2>5 DEF CountPackage, CollectPackage, workspace, VersionServes
  <2>6. CASE CreditInterfaceMethods \/ CreditOutsideInterfaces \/ Report
    BY <2>6 DEF CreditInterfaceMethods, CreditOutsideInterfaces, Report, Go, workspace, VersionServes
  <2>7. CASE UNCHANGED vars BY <2>7 DEF vars, workspace, VersionServes
  <2> QED BY <2>1, <2>2, <2>3, <2>4, <2>5, <2>6, <2>7 DEF Next
<1>3. ASSUME ModulesRead PROVE GoWorkServes
  <2>1. SUFFICES ASSUME phase = "load", NConsumers > 0 PROVE GoWorkServes BY DEF GoWorkServes
  <2>2. Len(mods) = NConsumers + 1 /\ mods # <<>>
    BY <1>3, <2>1, LoadsAssumption DEF ModulesRead
  <2> QED BY <1>3, <2>1, <2>2 DEF ModulesRead, VersionServes, GoWorkServes, Released, NoNewer
<1> QED BY <1>1, <1>2, <1>3, PTL DEF Spec
=============================================================================
