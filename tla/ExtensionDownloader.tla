------------------------- MODULE ExtensionDownloader -------------------------
(***************************************************************************)
(* The program of the extension-downloader image                           *)
(* (extension-downloader/src/index.ts and util.ts): it starts a download   *)
(* per extension without waiting for the one before, extracts each archive *)
(* when it has come, counts the extensions done and exits once the         *)
(* progress bars are full.  All of it shares one JavaScript thread, one    *)
(* folder and one regular expression with the g flag, whose lastIndex      *)
(* survives from one test to the next.                                     *)
(*                                                                         *)
(* An action is one callback.  An archive is the sequence of its entries,  *)
(* of which only the kind and the length of the name matter.  A rejection  *)
(* nobody catches and an error event without a listener end the process.   *)
(***************************************************************************)
EXTENDS Integers, Sequences, FiniteSets

CONSTANTS
    Zip,        \* per extension of the JSON file the entries of its archive
    Failing,    \* what may fail: "url", "download", "response", "archive", "entry"
    TotalFills, \* whether the steps of the total bar add up to a full bar
    Caching,    \* whether the program may be run with --cache
    MaxRuns     \* bound: runs of the program over the same folder

(* The extensions, in the order of the file; no two are the same. *)
Index == DOMAIN Zip
Entry == [folder : BOOLEAN, length : Nat \ {0}]

ASSUME ZipAssumption == Zip \in Seq(Seq(Entry) \ {<<>>}) /\ Zip # <<>>
ASSUME FailingAssumption ==
    Failing \subseteq {"url", "download", "response", "archive", "entry"}

(* The total bar gets n = Len(Zip) steps of percentage(1, n), which are     *)
(* floating-point numbers: their sum falls short of 1 for n = 10, 13 .. 15, *)
(* 22 .. 24, 26 .. 31 and others.                                           *)
ASSUME TotalAssumption == TotalFills \in BOOLEAN

ASSUME RunAssumption == Caching \in BOOLEAN /\ MaxRuns \in Nat \ {0}

VARIABLES
    main,       \* "loop", "awaiting" mpb.promise, "exited" or "crashed"
    i,          \* the loop variable
    phase,      \* phase[x]: how far the x-th extension is
    entriesRead,\* of the archive being extracted
    streaming,  \* those whose current entry is being streamed to a file
    flushing,   \* <<x, n>>: entries streamed but not all on disk
    written,    \* <<x, n>>: entries on disk
    archives,   \* the extensions whose .vsix.zip is in the folder
    folder,     \* the folder extensions exists
    lastIndex,  \* of folderRegex
    done,
    runs

vars == <<main, i, phase, entriesRead, streaming, flushing, written, archives,
          folder, lastIndex, done, runs>>

Running == main \in {"loop", "awaiting"}
Phase == {"none", "downloading", "cut", "opening", "extracting", "installed"}

Init ==
    /\ main = "loop" /\ i = 1
    /\ phase = [x \in Index |-> "none"]
    /\ entriesRead = [x \in Index |-> 0]
    /\ streaming = {} /\ flushing = {}
    /\ lastIndex = 0 /\ done = 0
    /\ written = {} /\ archives = {}
    /\ folder = TRUE
    /\ runs = 1

(* The process ends; what was not flushed is lost. *)
Crash ==
    /\ main' = "crashed"
    /\ flushing' = {}
    /\ UNCHANGED <<i, phase, entriesRead, streaming, written, archives, folder,
                   lastIndex, done, runs>>

-----------------------------------------------------------------------------
(* The loop of main(): the url is awaited, the download is not. *)
StartDownload ==
    /\ main = "loop" /\ i <= Len(Zip)
    /\ phase' = [phase EXCEPT ![i] = "downloading"]
    /\ archives' = archives \cup {i}
    /\ i' = i + 1
    /\ main' = IF i = Len(Zip) THEN "awaiting" ELSE "loop"
    /\ UNCHANGED <<entriesRead, streaming, flushing, written, folder, lastIndex,
                   done, runs>>

UrlRejected == main = "loop" /\ "url" \in Failing /\ Crash

(* The file is finished and closed, and extractExtension opens it. *)
Downloaded(x) ==
    /\ Running /\ phase[x] = "downloading"
    /\ phase' = [phase EXCEPT ![x] = "opening"]
    /\ UNCHANGED <<main, i, entriesRead, streaming, flushing, written, archives,
                   folder, lastIndex, done, runs>>

(* A response that ends before its time does not end the file, and nobody  *)
(* listens for it: the promise stays as it is.                             *)
CutOff(x) ==
    /\ Running /\ phase[x] = "downloading" /\ "response" \in Failing
    /\ phase' = [phase EXCEPT ![x] = "cut"]
    /\ UNCHANGED <<main, i, entriesRead, streaming, flushing, written, archives,
                   folder, lastIndex, done, runs>>

(* A request that fails removes its file; nobody catches the rejection. *)
DownloadFails(x) ==
    /\ Running /\ phase[x] = "downloading" /\ "download" \in Failing
    /\ main' = "crashed"
    /\ archives' = archives \ {x}
    /\ flushing' = {}
    /\ UNCHANGED <<i, phase, entriesRead, streaming, written, folder, lastIndex,
                   done, runs>>

Opened(x) ==
    /\ Running /\ phase[x] = "opening"
    /\ phase' = [phase EXCEPT ![x] = "extracting"]
    /\ UNCHANGED <<main, i, entriesRead, streaming, flushing, written, archives,
                   folder, lastIndex, done, runs>>

NotAnArchive(x) ==
    Running /\ phase[x] = "opening" /\ "archive" \in Failing /\ Crash

(* folderRegex.test(name): the search starts at lastIndex, which a match   *)
(* moves behind the final slash and a failure resets.                      *)
IsFolder(entry) == entry.folder /\ entry.length > lastIndex
AfterTest(entry) == IF IsFolder(entry) THEN entry.length ELSE 0

Busy(x) == x \in streaming
Current(x) == Zip[x][entriesRead[x]]

(* The entry event: a folder is made and the next entry read, anything     *)
(* else is streamed to a file.                                             *)
OnEntry(x) ==
    /\ Running /\ phase[x] = "extracting" /\ ~Busy(x)
    /\ entriesRead[x] < Len(Zip[x])
    /\ LET entry == Zip[x][entriesRead[x] + 1]
       IN  /\ streaming' = IF IsFolder(entry) THEN streaming ELSE streaming \cup {x}
           /\ lastIndex' = AfterTest(entry)
    /\ entriesRead' = [entriesRead EXCEPT ![x] = @ + 1]
    /\ UNCHANGED <<main, i, phase, flushing, written, archives, folder, done, runs>>

(* The folder cannot be made, because the one it is in is not there, or    *)
(* the entry cannot be read.                                               *)
OnEntryFails(x) ==
    /\ Running /\ phase[x] = "extracting" /\ ~Busy(x)
    /\ entriesRead[x] < Len(Zip[x]) /\ "entry" \in Failing
    /\ Crash

(* Mutated: finished one entry too early. *)
OnEndEarly(x) ==
    /\ Running /\ Busy(x)
    /\ streaming' = streaming \ {x}
    /\ flushing' = flushing \cup {<<x, entriesRead[x]>>}
    /\ IF entriesRead[x] + 1 >= Len(Zip[x])
       THEN /\ archives' = archives \ {x}
            /\ phase' = [phase EXCEPT ![x] = "installed"]
            /\ done' = done + 1
       ELSE UNCHANGED <<archives, phase, done>>
    /\ UNCHANGED <<main, i, entriesRead, written, folder, lastIndex, runs>>

(* Mutated: the extension is not counted. *)
OnEndUncounted(x) ==
    /\ Running /\ Busy(x)
    /\ streaming' = streaming \ {x}
    /\ flushing' = flushing \cup {<<x, entriesRead[x]>>}
    /\ IF entriesRead[x] = Len(Zip[x])
       THEN /\ archives' = archives \ {x}
            /\ phase' = [phase EXCEPT ![x] = "installed"]
       ELSE UNCHANGED <<archives, phase>>
    /\ UNCHANGED <<main, i, entriesRead, written, folder, lastIndex, done, runs>>

(* The read stream ends: the file is told to close, and after the last     *)
(* entry the archive is removed and the extension counted.                 *)
OnEnd(x) ==
    /\ Running /\ Busy(x)
    /\ streaming' = streaming \ {x}
    /\ flushing' = flushing \cup {<<x, entriesRead[x]>>}
    /\ IF entriesRead[x] = Len(Zip[x])
       THEN /\ archives' = archives \ {x}
            /\ phase' = [phase EXCEPT ![x] = "installed"]
            /\ done' = done + 1
       ELSE UNCHANGED <<archives, phase, done>>
    /\ UNCHANGED <<main, i, entriesRead, written, folder, lastIndex, runs>>

(* A folder that the test of its name, which may start behind the slash,   *)
(* took for a file cannot be opened for writing: the error event of the    *)
(* write stream has no listener.                                           *)
OnWriteError(x) ==
    /\ Running
    /\ \/ Busy(x) /\ Current(x).folder
       \/ \E n \in DOMAIN Zip[x] : <<x, n>> \in flushing /\ Zip[x][n].folder
    /\ Crash

(* What a write stream still held is on disk. *)
Flushed(x, n) ==
    /\ Running /\ <<x, n>> \in flushing /\ ~Zip[x][n].folder
    /\ flushing' = flushing \ {<<x, n>>}
    /\ written' = written \cup {<<x, n>>}
    /\ UNCHANGED <<main, i, phase, entriesRead, streaming, archives, folder,
                   lastIndex, done, runs>>

(* mpb.promise resolves when every bar is full, that of the total too,     *)
(* which the last step fills, if the steps add up: process.exit(0).        *)
Exit ==
    /\ main = "awaiting" /\ done = Len(Zip) /\ TotalFills
    /\ main' = "exited"
    /\ flushing' = {}
    /\ UNCHANGED <<i, phase, entriesRead, streaming, written, archives, folder,
                   lastIndex, done, runs>>

(* A new process, with nothing of the last one but the folder. *)
Reset ==
    /\ i' = 1
    /\ phase' = [x \in Index |-> "none"]
    /\ entriesRead' = [x \in Index |-> 0]
    /\ streaming' = {} /\ flushing' = {}
    /\ lastIndex' = 0 /\ done' = 0

(* The program is run again: unless --cache is given the folder goes, and  *)
(* mkdirSync throws if it is still there.                                  *)
RunAgain(cache) ==
    /\ ~Running /\ runs < MaxRuns
    /\ main' = IF cache /\ folder THEN "crashed" ELSE "loop"
    /\ written' = IF cache THEN written ELSE {}
    /\ archives' = IF cache THEN archives ELSE {}
    /\ folder' = TRUE
    /\ Reset
    /\ runs' = runs + 1

Next ==
    \/ StartDownload \/ UrlRejected \/ Exit
    \/ \E x \in Index :
          \/ Downloaded(x) \/ CutOff(x) \/ DownloadFails(x)
          \/ Opened(x) \/ NotAnArchive(x)
          \/ OnEntry(x) \/ OnEntryFails(x) \/ OnEnd(x) \/ OnWriteError(x)
          \/ \E n \in 1 .. Len(Zip[x]) : Flushed(x, n)
    \/ \E cache \in {FALSE, Caching} : RunAgain(cache)

Spec == Init /\ [][Next]_vars

(* Requests and streams make progress, unless a response is cut off;       *)
(* nobody has to run the program again.                                    *)
Fairness ==
    /\ WF_vars(StartDownload) /\ WF_vars(Exit)
    /\ \A x \in Index : /\ WF_vars(Downloaded(x)) /\ WF_vars(Opened(x))
                        /\ WF_vars(OnEntry(x)) /\ WF_vars(OnEnd(x))

FairSpec == Spec /\ Fairness

-----------------------------------------------------------------------------
Slot == UNION {{x} \X (1 .. Len(Zip[x])) : x \in Index}

TypeOK ==
    /\ main \in {"loop", "awaiting", "exited", "crashed"}
    /\ i \in 1 .. Len(Zip) + 1
    /\ phase \in [Index -> Phase]
    /\ entriesRead \in [Index -> Nat]
    /\ \A x \in Index : entriesRead[x] \in 0 .. Len(Zip[x])
    /\ streaming \subseteq Index /\ archives \subseteq Index
    /\ flushing \subseteq Slot /\ written \subseteq Slot
    /\ folder \in BOOLEAN /\ lastIndex \in Nat
    /\ done \in 0 .. Len(Zip) /\ runs \in 0 .. MaxRuns

(* The count that lets the program exit never runs ahead of the            *)
(* extractions, whatever their interleaving: each counted extension was    *)
(* read to its last entry, and an archive is kept until then.              *)
CountsTheExtracted ==
    /\ done <= Cardinality({x \in Index : phase[x] = "installed"})
    /\ \A x \in Index :
          /\ phase[x] = "installed" => entriesRead[x] = Len(Zip[x]) /\ ~Busy(x)
          /\ phase[x] \in {"opening", "extracting"} => x \in archives

(* The downloaded extensions of an earlier run are no reason to crash: the *)
(* help text of --cache says they are not deleted.  Refuted, by mkdirSync. *)
NeverCrashes == main # "crashed"

(* "Completed extraction.": a successful exit leaves every file of every   *)
(* extension on disk.  Refuted: the program exits when the read streams    *)
(* have ended, not the write streams.                                      *)
ExitMeansWritten ==
    main = "exited" =>
        \A x \in Index : \A n \in 1 .. Len(Zip[x]) :
            ~Zip[x][n].folder => <<x, n>> \in written

(* An archive whose last entry is a folder: nothing ends its extraction. *)
EndsInFolder(x) ==
    /\ phase[x] = "extracting" /\ ~Busy(x)
    /\ entriesRead[x] = Len(Zip[x]) /\ Current(x).folder

(* However the extractions interleave, an archive that is opened is        *)
(* installed, and a run that is not brought down exits: it stays only if a *)
(* response was cut off, an archive ends in a folder, or everything is     *)
(* installed and rounding leaves the total bar short.                      *)
EventuallyEnds ==
    /\ \A x \in Index : phase[x] = "opening" ~>
           phase[x] = "installed" \/ EndsInFolder(x) \/ ~Running
    /\ Running ~> \/ ~Running
                  \/ \E x \in Index : phase[x] = "cut" \/ EndsInFolder(x)
                  \/ ~TotalFills /\ \A x \in Index : phase[x] = "installed"

=============================================================================
