----------------------------- MODULE ScpReceive -----------------------------
(***************************************************************************)
(* Uploads with the in-process scp (ps4-scp.c, "scp -t").  Each scp        *)
(* channel has a worker thread; a worker writes the file it receives to    *)
(* <path>.ps4scp-part and renames it over <path> when it is complete.  The *)
(* file system binds names to files or to nothing; an open descriptor goes *)
(* on writing to its file whatever its name is bound to.  safe_name admits *)
(* a destination that is itself called <other>.ps4scp-part.  A client may  *)
(* stop at any point, the application may be closed at any point, and      *)
(* several workers may run at once.                                        *)
(***************************************************************************)
EXTENDS Integers

CONSTANTS
    Workers,        \* scp channels
    Names,          \* names of files
    Paths,          \* those that clients choose as destinations
    PartName,       \* PartName[p]: the name p.ps4scp-part
    MaxSize,        \* bound: units in a file
    MaxFiles,       \* bound: files created
    MaxCrash        \* bound: times the application is closed

None == 0

ASSUME ScpAssumption ==
    /\ None \notin Paths /\ Paths \subseteq Names
    /\ PartName \in [Paths -> Names]
    /\ \A p, q \in Paths : PartName[p] # p /\ (PartName[p] = PartName[q] => p = q)
    /\ MaxSize \in Nat /\ MaxFiles \in Nat \ {0} /\ MaxCrash \in Nat

Old == 1                        \* the file each path had before
Files == 1..MaxFiles

\* Uploads to p and to q use a name in common.
Clash(p, q) == p = q \/ PartName[p] = q \/ PartName[q] = p

VARIABLES
    \* the file system
    dir,            \* dir[n]: the file of that name
    size, len,      \* announced size and written length of each file
    created,        \* files created so far
    \* the workers (serve_receive, receive_file)
    pc, isdir, path, output, remaining,
    received,       \* whether a file was received already (the code counts)
    \* history
    crashes,        \* times the application was closed so far
    shared          \* paths whose upload had a name in common with another one
                    \* that ran at the same time

fsVars == <<dir, size, len, created>>
wkVars == <<isdir, received, path, output, remaining>>
histVars == <<crashes, shared>>
vars == <<fsVars, pc, wkVars, histVars>>

Pcs == {"idle", "control", "unlink", "open", "data", "rename", "failed"}

\* Types; a file is never longer than it was announced.
TypeOK ==
    /\ dir \in [Names -> Files \cup {None}]
    /\ size \in [Files -> 0..MaxSize] /\ len \in [Files -> 0..MaxSize]
    /\ \A f \in Files : len[f] <= size[f]
    /\ created \in 1..MaxFiles
    /\ pc \in [Workers -> Pcs] /\ isdir \in [Workers -> BOOLEAN]
    /\ received \in [Workers -> {0, 1}] /\ path \in [Workers -> Paths \cup {None}]
    /\ output \in [Workers -> Files \cup {None}]
    /\ remaining \in [Workers -> 0..MaxSize]
    /\ crashes \in 0..MaxCrash /\ shared \subseteq Paths

Init ==
    /\ dir \in [Names -> {None, Old}] /\ \A n \in Names \ Paths : dir[n] = None
    /\ size = [f \in Files |-> 0] /\ len = [f \in Files |-> 0] /\ created = Old
    /\ pc = [w \in Workers |-> "idle"] /\ isdir = [w \in Workers |-> FALSE]
    /\ received = [w \in Workers |-> 0] /\ path = [w \in Workers |-> None]
    /\ output = [w \in Workers |-> None] /\ remaining = [w \in Workers |-> 0]
    /\ crashes = 0 /\ shared = {}

Goto(w, l) == pc' = [pc EXCEPT ![w] = l]

\* receive_file returns, to the next control record or, l being "idle", to the
\* end of the worker: the locals are gone.
Leave(w, l) ==
    /\ Goto(w, l)
    /\ isdir' = [isdir EXCEPT ![w] = @ /\ l = "control"]
    /\ received' = [received EXCEPT ![w] = IF l = "control" THEN 1 ELSE 0]
    /\ path' = [path EXCEPT ![w] = None]
    /\ output' = [output EXCEPT ![w] = None]
    /\ remaining' = [remaining EXCEPT ![w] = 0]

-----------------------------------------------------------------------------
(* serve_receive *)

\* The request is accepted and the target found to be a directory or not.
Start(w) ==
    /\ pc[w] = "idle"
    /\ isdir' \in {[isdir EXCEPT ![w] = b] : b \in BOOLEAN}
    /\ Goto(w, "control")
    /\ UNCHANGED <<fsVars, received, path, output, remaining, histVars>>

\* A "C" record names a file; only a directory takes more than one.  (A "T"
\* record is acknowledged and changes nothing.)
Rivals(p) == {q \in {path[v] : v \in Workers} \cap Paths : Clash(p, q)}

Control(w) ==
    /\ pc[w] = "control" /\ (isdir[w] \/ received[w] = 0)
    /\ \E p \in Paths :
         /\ path' = [path EXCEPT ![w] = p]
         /\ shared' = IF Rivals(p) = {} THEN shared ELSE shared \cup Rivals(p) \cup {p}
    /\ \E n \in 0..MaxSize : remaining' = [remaining EXCEPT ![w] = n]
    /\ Goto(w, "unlink")
    /\ UNCHANGED <<fsVars, isdir, received, output, crashes>>

\* End of input, an unreadable line or a bad control record ends the worker.
ControlEnds(w) ==
    /\ pc[w] = "control"
    /\ Leave(w, "idle")
    /\ UNCHANGED <<fsVars, histVars>>

-----------------------------------------------------------------------------
(* receive_file *)

\* What an earlier upload may have left behind is removed first.
RemovePart(w) == dir' = [dir EXCEPT ![PartName[path[w]]] = None]

Unlink(w) ==
    /\ pc[w] = "unlink"
    /\ RemovePart(w)
    /\ Goto(w, "open")
    /\ UNCHANGED <<size, len, created, wkVars, histVars>>

\* open(O_CREAT | O_EXCL); it fails when the name exists again.
Open(w) ==
    /\ pc[w] = "open" /\ dir[PartName[path[w]]] = None /\ created < MaxFiles
    /\ created' = created + 1
    /\ dir' = [dir EXCEPT ![PartName[path[w]]] = created']
    /\ output' = [output EXCEPT ![w] = created']
    /\ size' = [size EXCEPT ![created'] = remaining[w]]
    /\ Goto(w, "data")
    /\ UNCHANGED <<len, isdir, received, path, remaining, histVars>>

\* The temporary name would be too long, or open() fails.
OpenFails(w) ==
    /\ pc[w] \in {"unlink", "open"}
    /\ Leave(w, "idle")
    /\ UNCHANGED <<fsVars, histVars>>

\* One unit from the channel to the file.
MoreData_OneTooMany(w) == remaining[w] >= 0 /\ len[output[w]] < MaxSize
MoreData(w) == remaining[w] > 0

Data(w) ==
    /\ pc[w] = "data" /\ MoreData(w)
    /\ len' = [len EXCEPT ![output[w]] = @ + 1]
    /\ remaining' = [remaining EXCEPT ![w] = @ - 1]
    /\ UNCHANGED <<dir, size, created, pc, isdir, received, path,
                   output, histVars>>

\* Every unit has come and so has the closing zero byte.
Received_Early(w) == pc[w] = "data"
Received(w) == pc[w] = "data" /\ remaining[w] = 0

Complete(w) ==
    /\ Received(w)
    /\ Goto(w, "rename")
    /\ UNCHANGED <<fsVars, wkVars, histVars>>

\* The client is gone or silent too long, the file system is full, the
\* closing byte is not zero: the file is closed and given up.
Interrupted(w) ==
    /\ pc[w] = "data"
    /\ Goto(w, "failed")
    /\ UNCHANGED <<fsVars, wkVars, histVars>>

\* rename(temporary, path), then the status byte, which may not arrive.
Rename(w) ==
    /\ pc[w] = "rename" /\ dir[PartName[path[w]]] # None
    /\ dir' = [dir EXCEPT ![path[w]] = dir[PartName[path[w]]], ![PartName[path[w]]] = None]
    /\ Leave(w, "control") \/ Leave(w, "idle")
    /\ UNCHANGED <<size, len, created, histVars>>

RenameFails_Acks(w) ==
    /\ pc[w] = "rename"
    /\ RemovePart(w)
    /\ Leave(w, "control")
    /\ UNCHANGED <<size, len, created, histVars>>

\* The name is gone, or rename() fails for another reason.
RenameFails(w) ==
    /\ pc[w] = "rename"
    /\ Goto(w, "failed")
    /\ UNCHANGED <<fsVars, wkVars, histVars>>

GiveUp_KeepsPart(w) == dir' = dir
GiveUp(w) == RemovePart(w)

Failed(w) ==
    /\ pc[w] = "failed"
    /\ GiveUp(w)
    /\ Leave(w, "idle")
    /\ UNCHANGED <<size, len, created, histVars>>

\* The application is closed and started again: the files are what is left.
Crash ==
    /\ crashes < MaxCrash /\ crashes' = crashes + 1
    /\ pc' = [w \in Workers |-> "idle"] /\ isdir' = [w \in Workers |-> FALSE]
    /\ received' = [w \in Workers |-> 0]
    /\ path' = [w \in Workers |-> None] /\ output' = [w \in Workers |-> None]
    /\ remaining' = [w \in Workers |-> 0]
    /\ UNCHANGED <<fsVars, shared>>

-----------------------------------------------------------------------------
Upload(w) ==
    \/ Start(w) \/ Control(w) \/ ControlEnds(w) \/ Unlink(w) \/ Open(w)
    \/ OpenFails(w) \/ Data(w) \/ Complete(w) \/ Interrupted(w) \/ Rename(w)
    \/ RenameFails(w) \/ Failed(w)

Next == Crash \/ \E w \in Workers : Upload(w)

Spec == Init /\ [][Next]_vars

-----------------------------------------------------------------------------
\* Destinations that are not called <other>.ps4scp-part.
Plain == {p \in Paths : \A q \in Paths : PartName[q] # p}

\* At every instant, so also after a crash or an interrupted upload, a
\* destination is absent, the file it was, or a file of exactly the announced
\* size: rename() happens only when every unit has been written.  This leaves
\* out the paths in "shared": when two uploads that have a name in common run at
\* once, the rename of one publishes what the other has so far; and a
\* destination that is the temporary name of another is what a crash leaves.
AtomicReplace ==
    \A p \in Plain \ shared : dir[p] # None => len[dir[p]] = size[dir[p]]

\* An upload that ends, well or badly, leaves no .ps4scp-part file behind.
\* One cut off by a crash does, but that never makes open(O_EXCL) refuse a
\* later upload to the same path: it was unlinked, and only an upload with a
\* name in common could put it back.
NoPartLeft ==
    /\ crashes = 0 =>
          \A p \in Paths : PartName[p] \notin Paths /\ dir[PartName[p]] # None =>
              \E w \in Workers : path[w] = p /\ pc[w] \in {"data", "rename", "failed"}
    /\ \A w \in Workers :
          pc[w] = "open" /\ path[w] \notin shared => dir[PartName[path[w]]] = None

\* Unless another upload with a name in common ran at the same time, the status
\* byte that acknowledges a file is sent when the destination is that worker's
\* own file, whole, also where a crash left a stale part file.  (With such a
\* rival receive_file acknowledges whatever its rename published.)
AckMeansStoredIfAlone ==
    [][\A w \in Workers :
          pc[w] = "rename" /\ pc'[w] = "control" /\ path[w] \notin shared =>
          dir'[path[w]] = output[w] /\ len[output[w]] = size[output[w]]]_vars
=============================================================================
