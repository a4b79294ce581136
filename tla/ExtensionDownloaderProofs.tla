---------------------- MODULE ExtensionDownloaderProofs ----------------------
(***************************************************************************)
(* The counting of ExtensionDownloader, for any list of archives, any      *)
(* failures and any number of runs: the count never runs ahead of the      *)
(* extractions, and a run that exits has read every archive to its end.    *)
(***************************************************************************)
EXTENDS ExtensionDownloader, FiniteSetTheorems, SequenceTheorems, TLAPS

Installed == {x \in Index : phase[x] = "installed"}

(* What is written to is being extracted; what is not yet extracted is     *)
(* kept, as long as the program runs; the count is exact.                  *)
Extraction ==
    /\ \A x \in Index : x >= i => phase[x] = "none"
    /\ \A x \in streaming : phase[x] = "extracting" /\ entriesRead[x] >= 1
    /\ \A x \in Index : phase[x] = "installed" => entriesRead[x] = Len(Zip[x])
    /\ \A x \in Index : Running /\ phase[x] = "downloading" => x \in archives
    /\ \A x \in Index : phase[x] \in {"opening", "extracting"} => x \in archives
    /\ done = Cardinality(Installed)
    /\ main = "exited" => done = Len(Zip)

IInv == TypeOK /\ Extraction

-----------------------------------------------------------------------------
LEMMA ZipFacts ==
  /\ Len(Zip) \in Nat /\ Len(Zip) >= 1 /\ Index = 1 .. Len(Zip)
  /\ IsFiniteSet(Index) /\ Cardinality(Index) = Len(Zip)
  /\ \A x \in Index : /\ Len(Zip[x]) \in Nat
                      /\ \A n \in 1 .. Len(Zip[x]) : Zip[x][n].length \in Nat
  <1>1. /\ Len(Zip) \in Nat /\ Len(Zip) >= 1 /\ Index = 1 .. Len(Zip)
        /\ \A x \in Index : Zip[x] \in Seq(Entry)
    BY ZipAssumption, LenProperties, EmptySeq DEF Index
  <1>2. IsFiniteSet(Index) /\ Cardinality(Index) = Len(Zip)
    BY <1>1, FS_Interval
  <1>3. ASSUME NEW x \in Index
        PROVE  /\ Len(Zip[x]) \in Nat
               /\ \A n \in 1 .. Len(Zip[x]) : Zip[x][n].length \in Nat
    <2>1. /\ Len(Zip[x]) \in Nat
          /\ \A n \in 1 .. Len(Zip[x]) : Zip[x][n] \in Entry
      BY <1>1, LenProperties
    <2> QED BY <2>1 DEF Entry
  <1> QED BY <1>1, <1>2, <1>3

LEMMA Counted ==
  ASSUME NEW S \in SUBSET Index
  PROVE  /\ IsFiniteSet(S) /\ Cardinality(S) \in 0 .. Len(Zip)
         /\ Cardinality(S) = Len(Zip) => S = Index
  <1>1. /\ IsFiniteSet(S) /\ Cardinality(S) <= Cardinality(Index)
        /\ Cardinality(S) = Cardinality(Index) => S = Index
    BY ZipFacts, FS_Subset
  <1>2. Cardinality(S) \in Nat
    BY <1>1, FS_CardinalityType
  <1> QED BY <1>1, <1>2, ZipFacts

(* A step that installs nothing.                                           *)
LEMMA SameInstalled ==
  ASSUME IInv, \A x \in Index : (phase'[x] = "installed") <=> (phase[x] = "installed"),
         UNCHANGED done
  PROVE  done' = Cardinality(Installed') /\ done' \in 0 .. Len(Zip)
  <1>1. Installed' = Installed
    BY DEF Installed
  <1> QED BY <1>1 DEF IInv, Extraction, TypeOK

(* A step that brings the program down.                                    *)
LEMMA CrashKeeps ==
  ASSUME IInv, main' = "crashed", flushing' = {},
         archives' \subseteq archives,
         \A x \in archives \ archives' : phase[x] = "downloading",
         UNCHANGED <<i, phase, entriesRead, streaming, written, folder, lastIndex, done, runs>>
  PROVE  IInv'
  <1>1. TypeOK'
    BY DEF IInv, TypeOK, Slot
  <1>2. Extraction'
    BY DEF IInv, Extraction, Installed, Running
  <1> QED BY <1>1, <1>2 DEF IInv

LEMMA InitIInv == Init => IInv
  <1> SUFFICES ASSUME Init PROVE IInv
    OBVIOUS
  <1>1. Installed = {}
    BY DEF Init, Installed
  <1>2. TypeOK
    BY ZipFacts, RunAssumption DEF Init, TypeOK, Phase
  <1>3. Extraction
    BY <1>1, FS_EmptySet DEF Init, Extraction
  <1> QED BY <1>2, <1>3 DEF IInv

LEMMA StartDownloadKeeps == IInv /\ StartDownload => IInv'
  <1> SUFFICES ASSUME IInv, StartDownload PROVE IInv'
    OBVIOUS
  <1>0. /\ TypeOK /\ Extraction /\ main = "loop" /\ i \in 1 .. Len(Zip) /\ i \in Index
        /\ phase' = [phase EXCEPT ![i] = "downloading"]
        /\ archives' = archives \cup {i} /\ i' = i + 1
        /\ main' = (IF i = Len(Zip) THEN "awaiting" ELSE "loop")
        /\ UNCHANGED <<entriesRead, streaming, flushing, written, folder, lastIndex, done, runs>>
    BY ZipFacts DEF IInv, TypeOK, StartDownload
  <1>1. phase[i] = "none" /\ i \notin streaming
    BY <1>0 DEF Extraction
  <1>2. /\ phase' \in [Index -> Phase] /\ phase'[i] = "downloading"
        /\ \A x \in Index : x # i => phase'[x] = phase[x]
    BY <1>0 DEF TypeOK, Phase
  <1>3. done' = Cardinality(Installed')
    BY <1>0, <1>1, <1>2, SameInstalled
  <1>4. TypeOK'
    BY <1>0, <1>2 DEF TypeOK, Slot
  <1>5. \A x \in Index : x >= i' => x >= i /\ x # i
    BY <1>0, ZipFacts
  <1>6. Extraction'
    BY <1>0, <1>1, <1>2, <1>3, <1>5 DEF Extraction, Running
  <1> QED BY <1>4, <1>6 DEF IInv

LEMMA PhaseKeeps ==
  ASSUME IInv, NEW x \in Index, NEW to \in {"opening", "extracting", "cut"},
         Running, phase[x] \in {"downloading", "opening"},
         phase' = [phase EXCEPT ![x] = to],
         UNCHANGED <<main, i, entriesRead, streaming, flushing, written, archives,
                     folder, lastIndex, done, runs>>
  PROVE  IInv'
  <1>0. TypeOK /\ Extraction
    BY DEF IInv
  <1>1. phase' \in [Index -> Phase]
    BY <1>0 DEF TypeOK, Phase
  <1>2. /\ phase'[x] = to /\ \A y \in Index : y # x => phase'[y] = phase[y]
        /\ x \in archives /\ x \notin streaming
    BY <1>0 DEF TypeOK, Extraction
  <1>3. done' = Cardinality(Installed')
    BY <1>2, SameInstalled
  <1>4. TypeOK'
    BY <1>0, <1>1 DEF TypeOK, Slot
  <1>5. Extraction'
    BY <1>0, <1>2, <1>3 DEF TypeOK, Extraction, Running
  <1> QED BY <1>4, <1>5 DEF IInv

LEMMA OnEntryKeeps ==
  ASSUME IInv, NEW x \in Index, OnEntry(x)
  PROVE  IInv'
  <1> DEFINE entry == Zip[x][entriesRead[x] + 1]
  <1>0. /\ TypeOK /\ Extraction /\ phase[x] = "extracting" /\ entriesRead[x] < Len(Zip[x])
        /\ streaming' = (IF IsFolder(entry) THEN streaming ELSE streaming \cup {x})
        /\ lastIndex' = AfterTest(entry)
        /\ entriesRead' = [entriesRead EXCEPT ![x] = entriesRead[x] + 1]
        /\ UNCHANGED <<main, i, phase, flushing, written, archives, folder, done, runs>>
    BY DEF IInv, OnEntry
  <1>1. entriesRead[x] + 1 \in 1 .. Len(Zip[x])
    BY <1>0, ZipFacts DEF TypeOK
  <1>2. lastIndex' \in Nat
    BY <1>0, <1>1, ZipFacts DEF AfterTest
  <1>3. \A y \in Index : entriesRead'[y] \in 0 .. Len(Zip[y])
    <2> SUFFICES ASSUME NEW y \in Index PROVE entriesRead'[y] \in 0 .. Len(Zip[y])
      OBVIOUS
    <2>1. CASE y = x
      BY <1>0, <1>1, <2>1 DEF TypeOK
    <2>2. CASE y # x
      BY <1>0, <2>2 DEF TypeOK
    <2> QED BY <2>1, <2>2
  <1>4. streaming' \subseteq streaming \cup {x}
    BY <1>0
  <1>5. done' = Cardinality(Installed')
    BY <1>0, SameInstalled
  <1>6. TypeOK'
    BY <1>0, <1>2, <1>3, <1>4 DEF TypeOK, Slot
  <1>7. /\ \A y \in Index : y # x => entriesRead'[y] = entriesRead[y]
        /\ entriesRead'[x] >= 1
    BY <1>0, <1>1 DEF TypeOK
  <1>8. Extraction'
    BY <1>0, <1>4, <1>5, <1>7 DEF TypeOK, Extraction, Running
  <1> QED BY <1>6, <1>8 DEF IInv

LEMMA OnEndKeeps ==
  ASSUME IInv, NEW x \in Index, OnEnd(x)
  PROVE  IInv'
  <1>0. /\ TypeOK /\ Extraction /\ phase[x] = "extracting" /\ Running /\ x \in streaming
        /\ entriesRead[x] >= 1
        /\ streaming' = streaming \ {x} /\ flushing' = flushing \cup {<<x, entriesRead[x]>>}
        /\ UNCHANGED <<main, i, entriesRead, written, folder, lastIndex, runs>>
    BY DEF IInv, Extraction, OnEnd, Busy
  <1>1. flushing' \subseteq Slot
    <2>1. entriesRead[x] \in 1 .. Len(Zip[x])
      BY <1>0, ZipFacts DEF TypeOK
    <2> QED BY <1>0, <2>1 DEF TypeOK, Slot
  <1>2. CASE /\ entriesRead[x] = Len(Zip[x])
             /\ archives' = archives \ {x}
             /\ phase' = [phase EXCEPT ![x] = "installed"]
             /\ done' = done + 1
    <2>1. /\ phase' \in [Index -> Phase] /\ phase'[x] = "installed"
          /\ \A y \in Index : y # x => phase'[y] = phase[y]
      BY <1>0, <1>2 DEF TypeOK, Phase
    <2>2. Installed' = Installed \cup {x} /\ x \notin Installed
      BY <1>0, <2>1 DEF Installed
    <2>3. Cardinality(Installed') = Cardinality(Installed) + 1
      <3>1. IsFiniteSet(Installed)
        BY Counted DEF Installed
      <3> QED BY <2>2, <3>1, FS_AddElement
    <2>4. done' = Cardinality(Installed') /\ done' \in 0 .. Len(Zip)
      <3>1. Installed' \in SUBSET Index
        BY DEF Installed
      <3>2. Cardinality(Installed') \in 0 .. Len(Zip)
        BY <3>1, Counted
      <3> QED BY <1>0, <1>2, <2>3, <3>2 DEF Extraction
    <2>5. TypeOK'
      BY <1>0, <1>1, <1>2, <2>1, <2>4 DEF TypeOK, Slot
    <2>6. Extraction'
      BY <1>0, <1>2, <2>1, <2>4 DEF TypeOK, Extraction, Running
    <2> QED BY <2>5, <2>6 DEF IInv
  <1>3. CASE UNCHANGED <<archives, phase, done>>
    <2>1. done' = Cardinality(Installed')
      BY <1>3, SameInstalled
    <2>2. TypeOK'
      BY <1>0, <1>1, <1>3 DEF TypeOK, Slot
    <2>3. Extraction'
      BY <1>0, <1>3, <2>1 DEF TypeOK, Extraction, Running
    <2> QED BY <2>2, <2>3 DEF IInv
  <1> QED BY <1>2, <1>3 DEF OnEnd


LEMMA FlushedKeeps ==
  ASSUME IInv, NEW x \in Index, NEW n \in 1 .. Len(Zip[x]), Flushed(x, n)
  PROVE  IInv'
  <1>0. /\ TypeOK /\ Extraction /\ <<x, n>> \in Slot
        /\ flushing' \subseteq flushing /\ written' = written \cup {<<x, n>>}
        /\ UNCHANGED <<main, i, phase, entriesRead, streaming, archives, folder, lastIndex,
                       done, runs>>
    BY DEF IInv, Flushed, TypeOK
  <1>1. done' = Cardinality(Installed')
    BY <1>0, SameInstalled
  <1>2. TypeOK'
    BY <1>0 DEF TypeOK, Slot
  <1>3. Extraction'
    BY <1>0, <1>1 DEF Extraction, Running
  <1> QED BY <1>2, <1>3 DEF IInv

LEMMA ExitKeeps == IInv /\ Exit => IInv'
  <1> SUFFICES ASSUME IInv, Exit PROVE IInv'
    OBVIOUS
  <1>0. /\ TypeOK /\ Extraction /\ done = Len(Zip) /\ main' = "exited" /\ flushing' = {}
        /\ UNCHANGED <<i, phase, entriesRead, streaming, written, archives, folder,
                       lastIndex, done, runs>>
    BY DEF IInv, Exit
  <1>1. done' = Cardinality(Installed')
    BY <1>0, SameInstalled
  <1>2. TypeOK'
    BY <1>0 DEF TypeOK, Slot
  <1>3. Extraction'
    BY <1>0, <1>1 DEF Extraction, Running
  <1> QED BY <1>2, <1>3 DEF IInv

LEMMA RunAgainKeeps ==
  ASSUME IInv, NEW cache \in BOOLEAN, RunAgain(cache)
  PROVE  IInv'
  <1>0. /\ TypeOK /\ main' \in {"crashed", "loop"} /\ i' = 1
        /\ phase' = [x \in Index |-> "none"] /\ entriesRead' = [x \in Index |-> 0]
        /\ streaming' = {} /\ flushing' = {} /\ lastIndex' = 0 /\ done' = 0
        /\ written' \subseteq written /\ archives' \subseteq archives /\ folder' = TRUE
        /\ runs < MaxRuns /\ runs' = runs + 1
    BY DEF IInv, RunAgain, Reset
  <1>1. Installed' = {}
    BY <1>0 DEF Installed
  <1>4. \A x \in Index : entriesRead'[x] \in 0 .. Len(Zip[x])
    BY <1>0, ZipFacts
  <1>5. runs' \in 0 .. MaxRuns
    BY <1>0, RunAssumption DEF TypeOK
  <1>6. written' \subseteq Slot /\ archives' \subseteq Index /\ phase' \in [Index -> Phase]
    BY <1>0 DEF TypeOK, Phase
  <1>2. TypeOK'
    BY <1>0, <1>4, <1>5, <1>6, ZipFacts DEF TypeOK, Slot
  <1>3. Extraction'
    BY <1>0, <1>1, FS_EmptySet DEF Extraction
  <1> QED BY <1>2, <1>3 DEF IInv

LEMMA CrashesKeep ==
  ASSUME IInv, Crash \/ \E x \in Index : DownloadFails(x)
  PROVE  IInv'
  <1>1. CASE Crash
    BY <1>1, CrashKeeps DEF Crash
  <1>2. ASSUME NEW x \in Index, DownloadFails(x)
        PROVE  IInv'
    BY <1>2, CrashKeeps DEF DownloadFails
  <1> QED BY <1>1, <1>2

LEMMA NextIInv == IInv /\ [Next]_vars => IInv'
  <1> SUFFICES ASSUME IInv, [Next]_vars PROVE IInv'
    OBVIOUS
  <1>1. CASE UNCHANGED vars
    <2>1. Installed' = Installed
      BY <1>1 DEF vars, Installed
    <2> QED BY <1>1, <2>1 DEF vars, IInv, TypeOK, Extraction, Running, Slot
  <1>2. CASE StartDownload
    BY <1>2, StartDownloadKeeps
  <1>3. CASE UrlRejected
    BY <1>3, CrashesKeep DEF UrlRejected
  <1>4. CASE Exit
    BY <1>4, ExitKeeps
  <1>5. ASSUME NEW x \in Index, Downloaded(x)
        PROVE  IInv'
    BY <1>5, PhaseKeeps DEF Downloaded
  <1>6. ASSUME NEW x \in Index, Opened(x)
        PROVE  IInv'
    BY <1>6, PhaseKeeps DEF Opened
  <1>7. ASSUME NEW x \in Index, \/ DownloadFails(x) \/ NotAnArchive(x)
                              \/ OnWriteError(x) \/ OnEntryFails(x)
        PROVE  IInv'
    BY <1>7, CrashesKeep DEF NotAnArchive, OnWriteError, OnEntryFails
  <1>8. ASSUME NEW x \in Index, OnEntry(x) \/ OnEnd(x)
        PROVE  IInv'
    BY <1>8, OnEntryKeeps, OnEndKeeps
  <1>9. ASSUME NEW x \in Index, NEW n \in 1 .. Len(Zip[x]), Flushed(x, n)
        PROVE  IInv'
    BY <1>9, FlushedKeeps
  <1>10. ASSUME NEW cache \in {FALSE, Caching}, RunAgain(cache)
         PROVE  IInv'
    BY <1>10, RunAgainKeeps, RunAssumption
  <1>11. ASSUME NEW x \in Index, CutOff(x)
         PROVE  IInv'
    BY <1>11, PhaseKeeps DEF CutOff
  <1> QED BY <1>1, <1>2, <1>3, <1>4, <1>5, <1>6, <1>7, <1>8, <1>9, <1>10, <1>11 DEF Next

(* The inductive invariant: what is streamed is being extracted, and the   *)
(* count is the number of installed extensions.                            *)
THEOREM Invariance == Spec => []IInv
  <1> QED BY InitIInv, NextIInv, PTL DEF Spec

(* The variables keep their types, whatever fails and in whatever order    *)
(* the callbacks come.                                                     *)
THEOREM TypeCorrect == Spec => []TypeOK
  <1>1. IInv => TypeOK
    BY DEF IInv
  <1> QED BY <1>1, Invariance, PTL

(* The count never runs ahead of the extractions (extractExtension), and   *)
(* an archive is kept until it is read to its end.                         *)
THEOREM Counts == Spec => []CountsTheExtracted
  <1>1. IInv => CountsTheExtracted
    <2> SUFFICES ASSUME IInv PROVE CountsTheExtracted
      OBVIOUS
    <2>1. done <= Cardinality(Installed)
      BY DEF IInv, TypeOK, Extraction
    <2>2. \A x \in Index :
             /\ phase[x] = "installed" => entriesRead[x] = Len(Zip[x]) /\ ~Busy(x)
             /\ phase[x] \in {"opening", "extracting"} => x \in archives
      BY DEF IInv, Extraction, Busy
    <2> QED BY <2>1, <2>2 DEF CountsTheExtracted, Installed
  <1> QED BY <1>1, Invariance, PTL

(* A run that exits (mpb.promise) has read every archive to its last       *)
(* entry: what it may leave behind is only what was still to be flushed.   *)
AllExtracted == main = "exited" => \A x \in Index : phase[x] = "installed"
THEOREM ExitsWhenExtracted == Spec => []AllExtracted
  <1>1. IInv => AllExtracted
    <2> SUFFICES ASSUME IInv, main = "exited"
                 PROVE  \A x \in Index : phase[x] = "installed"
      BY DEF AllExtracted
    <2>1. Installed \in SUBSET Index /\ Cardinality(Installed) = Len(Zip)
      BY DEF IInv, Extraction, Installed
    <2>2. Installed = Index
      BY <2>1, Counted
    <2> QED BY <2>2 DEF Installed
  <1> QED BY <1>1, Invariance, PTL

=============================================================================
