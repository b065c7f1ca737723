------------------------------ MODULE StateFile ------------------------------
(***************************************************************************)
(* k3yab::bawns::state::StateFile and the BinaryFile under it               *)
(* (state_file.cpp, binary_file.cpp): the file is created if it is not      *)
(* there, read whole, checked or begun, and written back from its beginning *)
(* when the object goes.  Several processes may be run at once; one may be  *)
(* killed at any time.  The header fits a single write().                   *)
(***************************************************************************)
EXTENDS Config

CONSTANTS
    Processes,
    Starts,     \* the command lines that the processes are started with
    Contents    \* what is at the path that a command line names: see Size

\* absent, empty; cut short in the header; a header without nodes; one with
\* nodes; any other bytes.
Size == [absent |-> 0, empty |-> 0, short |-> 1, header |-> 2, nodes |-> 3, foreign |-> 3]
Ours == {"absent", "empty", "header"}

Paths == {DefaultPath} \cup Args

ASSUME StartsAssumption == Starts \subseteq [Processes -> Seq(Args)]
ASSUME ContentsAssumption == Contents \subseteq DOMAIN Size

VARIABLES
    line,       \* the command line of each process
    conf,       \* its Config
    stage,      \* where it is
    image,      \* m_state.cache: what the process holds of the file
    pos,        \* the stream's position
    files,      \* what is at each path
    original,   \* history: what was there
    torn,       \* history: paths at which a write failed
    changed     \* history: the paths each process has created or written

vars == <<line, conf, stage, image, pos, files, original, torn, changed>>

Init ==
    /\ line \in Starts
    /\ conf = [p \in Processes |-> Defaults]
    /\ stage = [p \in Processes |-> "start"]
    /\ image = [p \in Processes |-> "empty"]
    /\ pos = [p \in Processes |-> 0]
    /\ \E f \in {Parse(line[p]).path : p \in Processes}, c \in Contents :
            files = [g \in Paths |-> IF g = f THEN c ELSE "absent"]
    /\ original = files
    /\ torn = {}
    /\ changed = [p \in Processes |-> {}]

Goes(p, from, to) == stage[p] = from /\ stage' = [stage EXCEPT ![p] = to]
At(p) == conf[p].path
HistoryUnchanged == UNCHANGED <<line, original>>
FilesUnchanged == UNCHANGED <<files, torn, changed>>

Touched(p) == changed' = [changed EXCEPT ![p] = @ \cup {At(p)}]

-----------------------------------------------------------------------------
(* Starting.                                                               *)

\* main: the command line is read before anything is opened.
Configure(p) ==
    /\ conf' = [conf EXCEPT ![p] = Parse(line[p])]
    /\ Goes(p, "start", IF conf'[p].next = "error" THEN "usage" ELSE "configured")
    /\ HistoryUnchanged /\ FilesUnchanged /\ UNCHANGED <<image, pos>>

\* open_file: the first stream only creates the file.
Create(p) ==
    /\ Goes(p, "configured", "created")
    /\ IF files[At(p)] = "absent"
       THEN files' = [files EXCEPT ![At(p)] = "empty"] /\ Touched(p)
       ELSE UNCHANGED <<files, changed>>
    /\ HistoryUnchanged /\ UNCHANGED <<conf, image, pos, torn>>

\* Neither stream can be opened: BinaryFile turns its exceptions on, and throws.
OpenFails(p) ==
    /\ Goes(p, "configured", "failed")
    /\ HistoryUnchanged /\ FilesUnchanged /\ UNCHANGED <<conf, image, pos>>

\* size_on_disk() puts the stream as far beyond the end as it was from the
\* beginning, which is what the ios_base::cur of its last line does.
AfterSizing(p) == Size[files[At(p)]] + pos[p]

\* BinaryFile's constructor reads the file whole, unless it is empty.
Load(p) ==
    /\ Goes(p, "created", "loaded")
    /\ image' = [image EXCEPT ![p] = files[At(p)]]
    /\ pos' = [pos EXCEPT ![p] = IF Size[files[At(p)]] = 0 THEN AfterSizing(p)
                                  ELSE Size[files[At(p)]]]
    /\ HistoryUnchanged /\ FilesUnchanged /\ UNCHANGED conf

\* The walk over the nodes of a file: the view of them was made without a head.
NodesWalked == {"crashed"}

\* Mutant: an image that has not been loaded is taken as it is.
TakenAsItIs(p) ==
    CASE image[p] \in {"empty", "header"} -> {"running"}
      [] image[p] = "nodes" -> NodesWalked
      [] OTHER -> {"throwing", "running"}

\* header().get().verify() on what was loaded, and the look at its nodes.  What
\* lies behind a header that is cut short may be anything.
Verified(p) ==
    CASE image[p] = "header" -> {"running"}
      [] image[p] = "nodes" -> NodesWalked
      [] image[p] = "short" -> {"throwing", "running"} \cup NodesWalked
      [] OTHER -> {"throwing"}

\* StateFile's constructor asks for the size once more.
Begin(p) ==
    /\ Size[files[At(p)]] = 0
    /\ Goes(p, "loaded", "running")
    /\ image' = [image EXCEPT ![p] = "header"]
    /\ pos' = [pos EXCEPT ![p] = AfterSizing(p)]
    /\ HistoryUnchanged /\ FilesUnchanged /\ UNCHANGED conf

Verify(p) ==
    /\ Size[files[At(p)]] # 0
    /\ \E to \in Verified(p) : Goes(p, "loaded", to)
    /\ pos' = [pos EXCEPT ![p] = AfterSizing(p)]
    /\ HistoryUnchanged /\ FilesUnchanged /\ UNCHANGED <<conf, image>>

-----------------------------------------------------------------------------
(* Ending.                                                                 *)

\* baw::run is left, and ~StateFile begins.
Leave(p) ==
    /\ Goes(p, "running", "leaving")
    /\ HistoryUnchanged /\ FilesUnchanged /\ UNCHANGED <<conf, image, pos>>

\* What is at the path after the image has been written at a position.
Over(p, at) ==
    IF image[p] = "empty" \/ (at = 0 /\ image[p] = "short" /\ files[At(p)] = "header")
    THEN files[At(p)]
    ELSE IF at = 0 /\ Size[image[p]] >= Size[files[At(p)]] THEN image[p] ELSE "foreign"

\* Mutant: the stream is not put to the beginning.
FlushOnward(p, from, to) ==
    /\ Goes(p, from, to)
    /\ files' = [files EXCEPT ![At(p)] = Over(p, pos[p])]
    /\ pos' = [pos EXCEPT ![p] = @ + Size[image[p]]]
    /\ Touched(p)
    /\ HistoryUnchanged /\ UNCHANGED <<conf, image, torn>>

\* BinaryFile::flush.
Flush(p, from, to) ==
    /\ Goes(p, from, to)
    /\ files' = [files EXCEPT ![At(p)] = Over(p, 0)]
    /\ pos' = [pos EXCEPT ![p] = Size[image[p]]]
    /\ Touched(p)
    /\ HistoryUnchanged /\ UNCHANGED <<conf, image, torn>>

\* The disk is full: part of the header, or nothing, is written to a new file, and
\* the exception leaves a destructor.
FlushFails(p, from) ==
    /\ Goes(p, from, "terminated")
    /\ files[At(p)] = "empty" /\ image[p] # "empty"
    /\ files' \in {files, [files EXCEPT ![At(p)] = "short"]}
    /\ torn' = torn \cup {At(p)}
    /\ Touched(p)
    /\ HistoryUnchanged /\ UNCHANGED <<conf, image, pos>>

\* ~StateFile: if the file is longer than the image, which is its beginning, it is
\* cut.  Another process may write between the two steps.
Measure(p) ==
    /\ Goes(p, "flushed", IF Size[image[p]] < Size[files[At(p)]] THEN "cutting" ELSE "closing")
    /\ pos' = [pos EXCEPT ![p] = AfterSizing(p)]
    /\ HistoryUnchanged /\ FilesUnchanged /\ UNCHANGED <<conf, image>>

\* FSFile's open of the path for writing, which neither creates nor empties it, and
\* ftruncate; what either throws leaves the destructor.
Truncate(p) ==
    /\ \/ Goes(p, "cutting", "closing") /\ files' = [files EXCEPT ![At(p)] = image[p]] /\ Touched(p)
       \/ Goes(p, "cutting", "terminated") /\ UNCHANGED <<files, changed>>
    /\ HistoryUnchanged /\ UNCHANGED <<conf, image, pos, torn>>

\* ~BinaryFile flushes what StateFile's constructor has rejected.
Reject(p) == Flush(p, "throwing", "rejected")

Save(p) == Flush(p, "leaving", "flushed")

\* ~StateFile over, ~BinaryFile flushes once more.
Close(p) == Flush(p, "closing", "done")

Unsaved(p) == \E from \in {"leaving", "throwing", "closing"} : FlushFails(p, from)

Live(p) == stage[p] \in {"configured", "created", "loaded", "running", "leaving", "flushed",
                         "cutting", "closing", "throwing"}

Kill(p) ==
    /\ Live(p)
    /\ stage' = [stage EXCEPT ![p] = "crashed"]
    /\ HistoryUnchanged /\ FilesUnchanged /\ UNCHANGED <<conf, image, pos>>

\* A process that was killed or failed may be run again with the same command line.
Restart(p) ==
    /\ \E from \in {"crashed", "terminated"} : Goes(p, from, "start")
    /\ image' = [image EXCEPT ![p] = "empty"]
    /\ pos' = [pos EXCEPT ![p] = 0]
    /\ HistoryUnchanged /\ FilesUnchanged /\ UNCHANGED conf

Process(p) ==
    \/ Configure(p) \/ Create(p) \/ OpenFails(p) \/ Load(p) \/ Begin(p) \/ Verify(p)
    \/ Leave(p) \/ Save(p) \/ Measure(p) \/ Truncate(p) \/ Close(p) \/ Reject(p)

Next == \E p \in Processes : Process(p) \/ Unsaved(p) \/ Kill(p) \/ Restart(p)

Spec == Init /\ [][Next]_vars
-----------------------------------------------------------------------------
StateFileTypeOK ==
    /\ stage \in [Processes -> {"start", "usage", "configured", "created", "failed", "loaded",
                    "running", "throwing", "rejected", "leaving", "flushed", "cutting", "closing",
                    "done", "terminated", "crashed"}]
    /\ image \in [Processes -> DOMAIN Size] /\ pos \in [Processes -> 0 .. 6]
    /\ files \in [Paths -> DOMAIN Size] /\ torn \subseteq Paths
    /\ changed \in [Processes -> SUBSET Paths]

\* A file that holds anything whole, the program's or not, is never changed, by
\* processes that begin, reject, save, fail or are killed side by side; except that
\* one which has taken a header that was cut short for a whole one may cut it again.
WholeFilesKept ==
    [][\A f \in Paths : files[f] \in {"header", "nodes", "foreign"} =>
          \/ files'[f] = files[f]
          \/ \E p \in Processes : At(p) = f /\ image[p] = "short" /\ stage[p] = "cutting"]_vars

\* A file is rejected only if it is not the program's or a write of it has failed;
\* or if it was empty when it was read and another process has written it before its
\* size was asked for again.
RejectsOnlyBroken ==
    \A p \in Processes : stage[p] \in {"throwing", "rejected"} =>
        \/ original[At(p)] \notin Ours \/ At(p) \in torn
        \/ image[p] = "empty" /\ \E q \in Processes \ {p} : At(p) \in changed[q]

\* A process works with what the usage text says of its command line, and one that it
\* does not describe ends before any file is touched.
ParseMatchesUsage ==
    \A p \in Processes : stage[p] # "start" =>
        /\ AsUsage(conf[p], line[p])
        /\ conf[p].next = "error" => stage[p] = "usage" /\ changed[p] = {}

\* When a process has ended in order, the file holds what it had, unless a write of it
\* has failed.
EndedMeansSaved ==
    \A p \in Processes : stage[p] = "done" => files[At(p)] = image[p] \/ At(p) \in torn
=============================================================================
