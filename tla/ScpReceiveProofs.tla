-------------------------- MODULE ScpReceiveProofs --------------------------
(***************************************************************************)
(* That an upload replaces its destination atomically and acknowledges     *)
(* only what is stored, for any number of workers, paths and files,        *)
(* whatever is interrupted and however often the application is closed, as *)
(* long as no two uploads that run at once have a name in common.          *)
(***************************************************************************)
EXTENDS ScpReceive, TLAPS

Receiving == {"data", "rename"}
HasFile == Receiving \cup {"failed"}

\* A worker has a path while receive_file runs and a file once it has opened
\* one; what it wrote and what it still expects add up to what was announced.
WorkerInv ==
    \A w \in Workers :
        /\ path[w] = None <=> pc[w] \in {"idle", "control"}
        /\ output[w] = None <=> pc[w] \notin HasFile
        /\ output[w] <= created
        /\ pc[w] \in Receiving => len[output[w]] + remaining[w] = size[output[w]]
        /\ pc[w] = "rename" => remaining[w] = 0

\* No two workers write the same file: O_EXCL made each one new.  Two with
\* a name in common are what "shared" records.
AloneInv ==
    \A w, v \in Workers : w # v =>
        /\ output[w] # None => output[w] # output[v]
        /\ path[w] \in Paths /\ path[v] \in Paths /\ Clash(path[w], path[v]) =>
              path[w] \in shared

\* Files that were not created yet are empty and have no name.
FreshInv ==
    /\ \A f \in Files : f > created => len[f] = 0 /\ size[f] = 0
    /\ \A n \in Names : dir[n] <= created

\* Between open and rename the temporary name is the worker's own file,
\* unless another worker has a name in common with it.
OwnPart ==
    \A w \in Workers :
        pc[w] \in Receiving /\ path[w] \notin shared => dir[PartName[path[w]]] = output[w]

\* A published file is not being written any more.
Settled ==
    \A p \in Plain \ shared, w \in Workers :
        dir[p] # None => dir[p] # output[w]

Inv == TypeOK /\ WorkerInv /\ AloneInv /\ FreshInv /\ OwnPart /\ Settled
       /\ AtomicReplace /\ NoPartLeft
\* receive_file returns: its locals are reset, the other workers' are not.
LEMMA LeaveEffect ==
    ASSUME TypeOK, NEW w \in Workers, NEW l \in {"idle", "control"}, Leave(w, l)
    PROVE  /\ pc' \in [Workers -> Pcs] /\ path' \in [Workers -> Paths \cup {None}]
           /\ output' \in [Workers -> Files \cup {None}]
           /\ remaining' \in [Workers -> 0..MaxSize]
           /\ isdir' \in [Workers -> BOOLEAN] /\ received' \in [Workers -> {0, 1}]
           /\ pc'[w] = l /\ path'[w] = None /\ output'[w] = None
           /\ \A v \in Workers \ {w} :
                 /\ pc'[v] = pc[v] /\ path'[v] = path[v]
                 /\ output'[v] = output[v] /\ remaining'[v] = remaining[v]
<1>1. isdir' \in [Workers -> BOOLEAN]
    <2>1. (isdir[w] /\ l = "control") \in BOOLEAN
        BY Zenon DEF TypeOK
    <2>2. QED
        BY <2>1 DEF TypeOK, Leave
<1>2. QED
    BY <1>1, ScpAssumption DEF TypeOK, Leave, Goto, Pcs, None, Files

\* Ending receive_file without touching a file keeps every promise that is
\* not about the temporary name.
LEMMA LeaveInv ==
    ASSUME Inv, NEW w \in Workers, NEW l \in {"idle", "control"}, Leave(w, l),
           UNCHANGED <<size, len, created, shared>>
    PROVE  WorkerInv' /\ AloneInv'
<1> USE LeaveEffect DEF Inv
<1>1. WorkerInv'
    BY DEF WorkerInv, HasFile, Receiving, TypeOK, None
<1>2. AloneInv'
    <2> SUFFICES ASSUME NEW v \in Workers, NEW u \in Workers, v # u
                 PROVE  /\ output'[v] # None => output'[v] # output'[u]
                        /\ path'[v] \in Paths /\ path'[u] \in Paths
                               /\ Clash(path'[v], path'[u]) => path'[v] \in shared'
        BY DEF AloneInv
    <2>1. CASE v = w \/ u = w
        BY <2>1, ScpAssumption DEF AloneInv
    <2>2. CASE v # w /\ u # w
        BY <2>2 DEF AloneInv
    <2>3. QED
        BY <2>1, <2>2
<1>3. QED
    BY <1>1, <1>2

\* A worker whose path is not shared has both its names to itself.
LEMMA Apart ==
    ASSUME Inv, NEW w \in Workers, NEW v \in Workers, v # w,
           path[w] \in Paths, path[v] \in Paths, path[v] \notin shared
    PROVE  /\ PartName[path[v]] \notin {path[w], PartName[path[w]]}
           /\ path[v] \notin {path[w], PartName[path[w]]}
BY ScpAssumption DEF Inv, AloneInv, Clash

\* Nor does removing the temporary name on the way out, if anything by moving
\* it to the destination.
LEMMA OthersPart ==
    ASSUME Inv, NEW w \in Workers, path[w] \in Paths,
           \A n \in Names \ {path[w]} :
               dir'[n] = IF n = PartName[path[w]] THEN None ELSE dir[n],
           pc'[w] \in {"idle", "control"},
           \A v \in Workers \ {w} : pc'[v] = pc[v] /\ path'[v] = path[v],
           UNCHANGED <<crashes, shared>>
    PROVE  NoPartLeft'
<1> USE ScpAssumption DEF Inv
<1>2. ASSUME crashes' = 0, NEW p \in Paths, PartName[p] \notin Paths, dir'[PartName[p]] # None
      PROVE  \E v \in Workers : path'[v] = p /\ pc'[v] \in {"data", "rename", "failed"}
    <2>0. PartName[p] \in Names \ {path[w]}
        BY <1>2
    <2>1. PICK v \in Workers : path[v] = p /\ pc[v] \in {"data", "rename", "failed"}
        BY <1>2, <2>0 DEF NoPartLeft
    <2>2. v # w
        BY <1>2, <2>0, <2>1
    <2>3. QED
        BY <2>1, <2>2
<1>3. ASSUME NEW v \in Workers, pc'[v] = "open", path'[v] \notin shared'
      PROVE  dir'[PartName[path'[v]]] = None
    <2>1. v # w /\ path[v] \in Paths /\ path'[v] = path[v]
        BY <1>3 DEF WorkerInv, TypeOK
    <2>2. PartName[path[v]] \in Names \ {path[w]}
        BY <1>3, <2>1, Apart
    <2>3. QED
        BY <1>3, <2>1, <2>2 DEF NoPartLeft
<1>4. QED
    BY <1>2, <1>3 DEF NoPartLeft

\* receive_file works on a destination.
LEMMA HasPath ==
    ASSUME Inv, NEW v \in Workers, pc[v] \notin {"idle", "control"}
    PROVE  path[v] \in Paths /\ PartName[path[v]] \in Names
BY ScpAssumption DEF Inv, TypeOK, WorkerInv

LEMMA InitInv == Init => Inv
BY ScpAssumption DEF Init, Inv, TypeOK, WorkerInv, AloneInv, FreshInv, OwnPart,
    Settled, AtomicReplace, NoPartLeft, None, Old, Files, HasFile, Receiving, Pcs, Plain

-----------------------------------------------------------------------------
LEMMA StepInv == Inv /\ [Next]_vars => Inv'
<1> SUFFICES ASSUME Inv, [Next]_vars PROVE Inv'
    OBVIOUS
<1> USE ScpAssumption DEF Inv, None, Files, HasFile, Receiving, Pcs, fsVars,
                          wkVars, histVars
<1>1. ASSUME NEW w \in Workers, Upload(w) PROVE Inv'
    <2>1. CASE Start(w) \/ Complete(w) \/ Interrupted(w) \/ RenameFails(w)
        <3>p. PICK l \in Pcs :
                /\ pc' = [pc EXCEPT ![w] = l]
                /\ {pc[w], l} \subseteq {"idle", "control"} \/ {pc[w], l} \subseteq HasFile
                /\ l # "data" /\ (l = "rename" => pc[w] = "data" /\ remaining[w] = 0)
            BY <2>1 DEF Start, Complete, Received, Interrupted, RenameFails, Goto, TypeOK
        <3>u. UNCHANGED <<dir, size, len, created, path, output,
                          remaining, crashes, shared>>
            BY <2>1 DEF Start, Complete, Interrupted, RenameFails
        <3>r. isdir' \in [Workers -> BOOLEAN] /\ received' \in [Workers -> {0, 1}]
            <4>1. CASE Start(w)
                <5>1. PICK b \in BOOLEAN : isdir' = [isdir EXCEPT ![w] = b]
                    BY <4>1 DEF Start
                <5>2. isdir' \in [Workers -> BOOLEAN]
                    BY <5>1 DEF TypeOK
                <5>3. QED
                    BY <4>1, <5>2 DEF Start, TypeOK
            <4>2. CASE ~Start(w)
                BY <2>1, <4>2 DEF Complete, Interrupted, RenameFails, TypeOK
            <4>3. QED
                BY <4>1, <4>2
        <3>v. pc'[w] = l /\ \A v \in Workers \ {w} : pc'[v] = pc[v]
            BY <3>p DEF TypeOK
        <3>1. TypeOK' /\ FreshInv'
            BY <3>p, <3>u, <3>r DEF TypeOK, FreshInv
        <3>2. WorkerInv'
            BY <3>p, <3>u, <3>v DEF WorkerInv
        <3>3. AloneInv' /\ Settled' /\ AtomicReplace'
            BY <3>u DEF AloneInv, Settled, AtomicReplace
        <3>4. OwnPart'
            BY <3>p, <3>u, <3>v DEF OwnPart
        <3>5. NoPartLeft'
            BY <3>p, <3>u, <3>v DEF NoPartLeft
        <3>6. QED
            BY <3>1, <3>2, <3>3, <3>4, <3>5
    <2>2. CASE Control(w)
        <3> USE <2>2 DEF Control, Goto
        <3>p. PICK p \in Paths, n \in 0..MaxSize :
                /\ path' = [path EXCEPT ![w] = p] /\ remaining' = [remaining EXCEPT ![w] = n]
                /\ shared' = IF Rivals(p) = {} THEN shared ELSE shared \cup Rivals(p) \cup {p}
            OBVIOUS
        <3>2. shared \subseteq shared' /\ shared' \subseteq Paths
            BY <3>p DEF Rivals, TypeOK
        <3>q. path'[w] = p /\ \A v \in Workers \ {w} : path'[v] = path[v]
            BY <3>p DEF TypeOK
        <3>0. TypeOK' /\ FreshInv'
            BY <3>p, <3>2 DEF TypeOK, FreshInv
        <3>1. WorkerInv'
            BY SMTT(60) DEF TypeOK, WorkerInv
        <3>a. AloneInv'
            <4> SUFFICES ASSUME NEW v \in Workers, NEW u \in Workers, v # u,
                                path'[v] \in Paths, path'[u] \in Paths,
                                Clash(path'[v], path'[u])
                         PROVE  path'[v] \in shared'
                BY DEF AloneInv
            <4>1. CASE v = w
                <5>1. path[u] \in Rivals(p)
                    BY <3>q, <4>1 DEF Rivals
                <5>2. QED
                    BY <3>p, <3>q, <4>1, <5>1
            <4>2. CASE u = w
                <5>1. Clash(p, path[v])
                    BY <3>q, <4>2 DEF Clash
                <5>2. path[v] \in Rivals(p)
                    BY <3>q, <4>2, <5>1 DEF Rivals
                <5>3. QED
                    BY <3>p, <3>q, <4>2, <5>2
            <4>3. CASE v # w /\ u # w
                BY <3>2, <3>q, <4>3 DEF AloneInv
            <4>4. QED
                BY <4>1, <4>2, <4>3
        <3>b. Settled'
            BY <3>2 DEF TypeOK, Settled
        <3>3. AtomicReplace'
            BY <3>2 DEF TypeOK, AtomicReplace
        <3>4. OwnPart' /\ NoPartLeft'
            BY <3>2 DEF TypeOK, WorkerInv, OwnPart, NoPartLeft
        <3>5. QED
            BY <3>0, <3>1, <3>3, <3>4, <3>a, <3>b
    <2>3. CASE Unlink(w)
        <3> USE <2>3 DEF Unlink, RemovePart, Goto
        <3>p. path[w] \in Paths
            BY DEF TypeOK, WorkerInv
        <3>d. \A n \in Names : dir'[n] = IF n = PartName[path[w]] THEN None ELSE dir[n]
            BY DEF TypeOK
        <3>v. \A v \in Workers \ {w} : pc'[v] = pc[v]
            BY DEF TypeOK
        <3>w. pc'[w] = "open"
            BY DEF TypeOK
        <3>a. TypeOK'
            BY <3>p DEF TypeOK
        <3>b. FreshInv'
            BY <3>p DEF TypeOK, FreshInv
        <3>c. WorkerInv'
            BY DEF TypeOK, WorkerInv
        <3>1. AloneInv'
            BY DEF AloneInv
        <3>2. Settled' /\ AtomicReplace'
            BY <3>d DEF Settled, AtomicReplace, Plain
        <3>3. OwnPart'
            <4> SUFFICES ASSUME NEW v \in Workers, pc'[v] \in Receiving, path[v] \notin shared
                         PROVE  dir'[PartName[path[v]]] = output[v]
                BY DEF OwnPart
            <4>1. v # w /\ path[v] \in Paths /\ pc[v] \in Receiving
                BY <3>v, <3>w DEF TypeOK, WorkerInv
            <4>2. PartName[path[v]] \in Names /\ PartName[path[v]] # PartName[path[w]]
                BY <3>p, <4>1, Apart
            <4>3. QED
                BY <3>d, <4>1, <4>2 DEF OwnPart
        <3>4. NoPartLeft'
            <4>1. ASSUME crashes' = 0, NEW p \in Paths, PartName[p] \notin Paths,
                         dir'[PartName[p]] # None
                  PROVE  \E v \in Workers : path'[v] = p /\ pc'[v] \in HasFile
                <5>1. PICK v \in Workers : path[v] = p /\ pc[v] \in HasFile
                    BY <3>d, <4>1 DEF NoPartLeft
                <5>2. QED
                    BY <3>d, <3>v, <4>1, <5>1
            <4>2. ASSUME NEW v \in Workers, pc'[v] = "open", path[v] \notin shared
                  PROVE  dir'[PartName[path[v]]] = None
                <5>1. path[v] \in Paths /\ PartName[path[v]] \in Names
                    BY <3>p, <3>v, <4>2 DEF TypeOK, WorkerInv
                <5>2. QED
                    BY <3>d, <3>v, <4>2, <5>1 DEF NoPartLeft
            <4>3. QED
                BY <4>1, <4>2 DEF NoPartLeft
        <3>5. QED
            BY <3>a, <3>b, <3>c, <3>1, <3>2, <3>3, <3>4
    <2>4. CASE Open(w)
        <3> USE <2>4 DEF Open, Goto
        <3>c. created' \in Files /\ created' = created + 1 /\ created \in Nat
            BY DEF TypeOK
        <3>p. path[w] \in Paths /\ created' \in Files /\ created' = created + 1
              /\ created \in Nat
            BY <3>c DEF TypeOK, WorkerInv
        <3>f. len[created'] = 0
            BY <3>p DEF FreshInv, TypeOK
        <3>1. TypeOK'
            BY <3>p, <3>f, SMTT(60) DEF TypeOK
        <3>2. WorkerInv'
            <4> SUFFICES ASSUME NEW v \in Workers
                         PROVE  /\ path'[v] = None <=> pc'[v] \in {"idle", "control"}
                                /\ output'[v] = None <=> pc'[v] \notin HasFile
                                /\ output'[v] <= created'
                                /\ pc'[v] \in Receiving =>
                                     len'[output'[v]] + remaining'[v] = size'[output'[v]]
                                /\ pc'[v] = "rename" => remaining'[v] = 0
                BY DEF WorkerInv
            <4>1. CASE v = w
                BY SMTT(60), <3>p, <3>f, <4>1 DEF TypeOK, WorkerInv
            <4>2. CASE v # w
                BY <3>p, <4>2, SMTT(60) DEF TypeOK, WorkerInv
            <4>3. QED
                BY <4>1, <4>2
        <3>3. AloneInv'
            BY <3>p, SMTT(60) DEF TypeOK, WorkerInv, AloneInv
        <3>4. FreshInv'
            <4>1. \A f \in Files : f > created' => len'[f] = 0 /\ size'[f] = 0
                BY <3>p DEF TypeOK, FreshInv
            <4>2. ASSUME NEW n \in Names
                  PROVE  dir'[n] <= created'
                <5>1. dir[n] \in Nat /\ dir[n] <= created
                    BY SMTT(60) DEF TypeOK, FreshInv
                <5>2. dir'[n] \in {dir[n], created'}
                    BY DEF TypeOK
                <5>3. QED
                    BY <3>p, <5>1, <5>2
            <4>3. QED
                BY <4>1, <4>2 DEF FreshInv
        <3>d. \A n \in Names : dir'[n] = IF n = PartName[path[w]] THEN created' ELSE dir[n]
            BY DEF TypeOK
        <3>v. /\ pc'[w] = "data" /\ output'[w] = created' /\ UNCHANGED path
              /\ \A v \in Workers \ {w} : pc'[v] = pc[v] /\ output'[v] = output[v]
            BY DEF TypeOK
        <3>5. OwnPart'
            <4> SUFFICES ASSUME NEW v \in Workers, pc'[v] \in Receiving, path[v] \notin shared
                         PROVE  dir'[PartName[path[v]]] = output'[v]
                BY DEF OwnPart
            <4>1. CASE v = w
                BY <3>p, <3>d, <3>v, <4>1
            <4>2. CASE v # w
                <5>1. path[v] \in Paths /\ pc[v] \in Receiving
                    BY <3>v, <4>2, HasPath
                <5>2. PartName[path[v]] \in Names /\ PartName[path[v]] # PartName[path[w]]
                    BY <3>p, <4>2, <5>1, Apart
                <5>3. QED
                    BY <3>d, <3>v, <4>2, <5>1, <5>2 DEF OwnPart
            <4>3. QED
                BY <4>1, <4>2
        <3>6. Settled'
            <4> SUFFICES ASSUME NEW p \in Plain \ shared, NEW v \in Workers, dir'[p] # None
                         PROVE  dir'[p] # output'[v]
                BY DEF Settled
            <4>1. p \in Names /\ dir'[p] = dir[p] /\ dir[p] <= created
                BY <3>p, <3>d DEF Plain, FreshInv
            <4>2. QED
                BY <3>p, <3>v, <4>1 DEF Settled
        <3>7. AtomicReplace'
            <4> SUFFICES ASSUME NEW p \in Plain \ shared, dir'[p] # None
                         PROVE  len[dir'[p]] = size'[dir'[p]]
                BY DEF AtomicReplace
            <4>1. p \in Names /\ dir'[p] = dir[p] /\ dir[p] <= created
                BY <3>p, <3>d DEF Plain, FreshInv
            <4>2. dir[p] \in Files /\ dir[p] # created'
                BY <3>p, <4>1 DEF TypeOK
            <4>3. QED
                BY <4>1, <4>2 DEF TypeOK, AtomicReplace
        <3>8. NoPartLeft'
            <4>1. ASSUME crashes' = 0, NEW p \in Paths, PartName[p] \notin Paths,
                         dir'[PartName[p]] # None
                  PROVE  \E v \in Workers : path'[v] = p /\ pc'[v] \in HasFile
                <5>1. CASE p = path[w]
                    BY <3>v, <5>1
                <5>2. CASE p # path[w]
                    <6>1. PICK v \in Workers : path[v] = p /\ pc[v] \in HasFile
                        BY <3>p, <3>d, <4>1, <5>2 DEF NoPartLeft
                    <6>2. QED
                        BY <3>v, <5>2, <6>1
                <5>3. QED
                    BY <5>1, <5>2
            <4>2. ASSUME NEW v \in Workers, pc'[v] = "open", path[v] \notin shared
                  PROVE  dir'[PartName[path[v]]] = None
                <5>1. v # w /\ pc[v] = "open" /\ path[v] \in Paths
                    BY <3>v, <4>2, HasPath
                <5>2. PartName[path[v]] \in Names /\ PartName[path[v]] # PartName[path[w]]
                    BY <3>p, <4>2, <5>1, Apart
                <5>3. QED
                    BY <3>d, <4>2, <5>1, <5>2 DEF NoPartLeft
            <4>3. QED
                BY <4>1, <4>2 DEF NoPartLeft
        <3>9. QED
            BY <3>1, <3>2, <3>3, <3>4, <3>5, <3>6, <3>7, <3>8
    <2>5. CASE OpenFails(w) \/ ControlEnds(w)
        <3> USE <2>5 DEF OpenFails, ControlEnds
        <3>e. /\ pc'[w] = "idle" /\ path'[w] = None /\ output'[w] = None
              /\ \A v \in Workers \ {w} :
                    /\ pc'[v] = pc[v] /\ path'[v] = path[v]
                    /\ output'[v] = output[v] /\ remaining'[v] = remaining[v]
            BY LeaveEffect
        <3>1. TypeOK'
            <4>1. Leave(w, "idle") /\ UNCHANGED <<dir, size, len, created, crashes, shared>>
                BY DEF fsVars, histVars
            <4>2. /\ pc' \in [Workers -> Pcs] /\ path' \in [Workers -> Paths \cup {None}]
                  /\ output' \in [Workers -> Files \cup {None}]
                  /\ remaining' \in [Workers -> 0..MaxSize]
                  /\ isdir' \in [Workers -> BOOLEAN] /\ received' \in [Workers -> {0, 1}]
                BY <4>1, LeaveEffect
            <4>3. QED
                BY ONLY Inv, <4>1, <4>2 DEF Inv, TypeOK
        <3>2. WorkerInv' /\ AloneInv'
            BY LeaveInv
        <3>3. FreshInv' /\ AtomicReplace'
            BY DEF FreshInv, AtomicReplace
        <3>4. Settled'
            BY <3>e DEF Settled
        <3>5. OwnPart'
            BY <3>e DEF OwnPart
        <3>6. NoPartLeft'
            BY <3>e DEF NoPartLeft
        <3>7. QED
            BY <3>1, <3>2, <3>3, <3>4, <3>5, <3>6
    <2>6. CASE Data(w)
        <3> DEFINE f == output[w]
        <3>f. f \in Files /\ f # None /\ f <= created /\ len[f] \in Nat /\ size[f] \in 0..MaxSize
              /\ remaining[w] \in 1..MaxSize /\ len[f] + remaining[w] = size[f]
            BY SMTT(60), <2>6 DEF Data, MoreData, TypeOK, WorkerInv
        <3>g. /\ len' = [len EXCEPT ![f] = len[f] + 1]
              /\ remaining' = [remaining EXCEPT ![w] = remaining[w] - 1]
            BY <2>6 DEF Data
        <3>u. UNCHANGED <<dir, size, created, pc, isdir, received, path,
                          output, crashes, shared>>
            BY <2>6 DEF Data
        <3>v. \A v \in Workers \ {w} : output[v] # f
            BY <3>f DEF AloneInv
        <3>w. pc[w] = "data" /\ output[w] = f
            BY <2>6 DEF Data
        <3> HIDE DEF f
        <3>1. TypeOK'
            <4>1. remaining' \in [Workers -> 0..MaxSize]
                <5>1. remaining[w] - 1 \in 0..MaxSize
                    BY <3>f
                <5>2. QED
                    BY <3>g, <5>1 DEF TypeOK
            <4>2. len' \in [Files -> 0..MaxSize] /\ \A g \in Files : len'[g] <= size[g]
                <5>1. len[f] + 1 \in 0..MaxSize /\ len[f] + 1 <= size[f]
                    BY <3>f
                <5>2. QED
                    BY <3>f, <3>g, <5>1 DEF TypeOK
            <4>3. QED
                BY <3>u, <4>1, <4>2 DEF TypeOK
        <3>2. WorkerInv'
            <4> SUFFICES ASSUME NEW v \in Workers
                         PROVE  /\ pc[v] \in Receiving =>
                                     len'[output[v]] + remaining'[v] = size[output[v]]
                                /\ pc[v] = "rename" => remaining'[v] = 0
                BY <3>u DEF WorkerInv
            <4>1. CASE v = w
                BY <3>f, <3>g, <3>w, <4>1 DEF TypeOK
            <4>2. CASE v # w
                BY <3>g, <3>v, <4>2 DEF TypeOK, WorkerInv
            <4>3. QED
                BY <4>1, <4>2
        <3>3. AloneInv' /\ OwnPart' /\ Settled' /\ NoPartLeft'
            BY <3>u DEF AloneInv, OwnPart, Settled, NoPartLeft
        <3>4. FreshInv'
            BY SMTT(60), <3>f, <3>g, <3>u DEF TypeOK, FreshInv
        <3>5. AtomicReplace'
            BY <3>g, <3>u, <3>w DEF TypeOK, AtomicReplace, Settled
        <3>6. QED
            BY <3>1, <3>2, <3>3, <3>4, <3>5
    <2>7. CASE Rename(w)
        <3>u. UNCHANGED <<size, len, created, crashes, shared>>
            BY <2>7 DEF Rename
        <3>p. path[w] \in Paths /\ dir[PartName[path[w]]] \in Files
            <4>1. pc[w] = "rename" /\ dir[PartName[path[w]]] # None
                BY <2>7 DEF Rename
            <4>2. path[w] # None /\ path[w] \in Paths \cup {None}
                BY <4>1 DEF TypeOK, WorkerInv
            <4>3. QED
                BY <4>1, <4>2 DEF TypeOK
        <3>d. \A n \in Names : dir'[n] = IF n = PartName[path[w]] THEN None
                                        ELSE IF n = path[w] THEN dir[PartName[path[w]]]
                                        ELSE dir[n]
            BY <2>7, <3>p DEF Rename, TypeOK
        <3>l. PICK l \in {"idle", "control"} : Leave(w, l)
            BY <2>7 DEF Rename
        <3>e. /\ pc'[w] = l /\ path'[w] = None /\ output'[w] = None
              /\ \A v \in Workers \ {w} :
                    /\ pc'[v] = pc[v] /\ path'[v] = path[v]
                    /\ output'[v] = output[v] /\ remaining'[v] = remaining[v]
            BY <3>l, LeaveEffect
        <3>o. path[w] \notin shared =>
                /\ dir[PartName[path[w]]] = output[w] /\ output[w] # None
                /\ len[output[w]] = size[output[w]]
            BY <2>7 DEF Rename, TypeOK, WorkerInv, OwnPart
        <3>1. TypeOK'
            BY <2>7, <3>p, <3>l, LeaveEffect DEF Rename, TypeOK
        <3>2. WorkerInv' /\ AloneInv'
            BY <3>l, <3>u, LeaveInv
        <3>3. FreshInv'
            <4>1. PartName[path[w]] \in Names
                BY <3>p
            <4>2. ASSUME NEW n \in Names PROVE dir'[n] <= created
                <5>1. dir[n] <= created /\ dir[PartName[path[w]]] <= created
                    BY <4>1 DEF FreshInv
                <5>2. None <= created
                    BY DEF TypeOK
                <5>3. QED
                    BY <3>d, <5>1, <5>2
            <4>3. QED
                BY <3>u, <4>2 DEF FreshInv
        <3>4. OwnPart'
            <4> SUFFICES ASSUME NEW v \in Workers, pc'[v] \in Receiving, path'[v] \notin shared
                         PROVE  dir'[PartName[path'[v]]] = output'[v]
                BY <3>u DEF OwnPart
            <4>1. v # w
                BY <3>e
            <4>2. pc[v] \in Receiving /\ path[v] \notin shared /\ path[v] = path'[v]
                BY <3>e, <4>1
            <4>3. path[v] \in Paths
                BY <4>2, HasPath
            <4>4. PartName[path[v]] \in Names \ {path[w], PartName[path[w]]}
                BY <3>p, <4>1, <4>2, <4>3, Apart
            <4>5. QED
                BY <3>d, <3>e, <3>u, <4>1, <4>2, <4>3, <4>4 DEF OwnPart
        <3>5. Settled'
            <4> SUFFICES ASSUME NEW p \in Plain \ shared, NEW v \in Workers, dir'[p] # None
                         PROVE  dir'[p] # output'[v]
                BY <3>u DEF Settled
            <4>1. p \in Names /\ p \in Paths
                BY DEF Plain
            <4>2. CASE p = path[w]
                BY <3>p, <3>d, <3>e, <3>u, <3>o, <4>1, <4>2 DEF AloneInv
            <4>3. CASE p # path[w]
                BY <3>d, <3>e, <3>u, <4>1, <4>3 DEF Settled
            <4>4. QED
                BY <4>2, <4>3
        <3>6. AtomicReplace'
            BY <3>p, <3>d, <3>o, <3>u DEF TypeOK, AtomicReplace, Plain
        <3>7. NoPartLeft'
            BY <3>p, <3>d, <3>e, <3>u, OthersPart
        <3>8. QED
            BY <3>1, <3>2, <3>3, <3>4, <3>5, <3>6, <3>7
    <2>8. CASE Failed(w)
        <3> USE <2>8 DEF Failed, GiveUp, RemovePart
        <3>e. /\ pc'[w] = "idle" /\ path'[w] = None /\ output'[w] = None
              /\ \A v \in Workers \ {w} :
                    /\ pc'[v] = pc[v] /\ path'[v] = path[v]
                    /\ output'[v] = output[v] /\ remaining'[v] = remaining[v]
            BY LeaveEffect
        <3>p. path[w] \in Paths
            BY DEF TypeOK, WorkerInv
        <3>1. TypeOK'
            BY <3>p, LeaveEffect DEF TypeOK
        <3>2. WorkerInv' /\ AloneInv'
            BY LeaveInv
        <3>d. \A n \in Names : dir'[n] = IF n = PartName[path[w]] THEN None ELSE dir[n]
            BY DEF TypeOK
        <3>3. FreshInv' /\ AtomicReplace'
            BY <3>p, <3>d DEF FreshInv, AtomicReplace, TypeOK, Plain
        <3>4. OwnPart'
            <4> SUFFICES ASSUME NEW v \in Workers, pc'[v] \in Receiving, path'[v] \notin shared
                         PROVE  dir'[PartName[path'[v]]] = output'[v]
                BY DEF OwnPart
            <4>1. v # w
                BY <3>e
            <4>2. pc[v] \in Receiving /\ path[v] \notin shared /\ path[v] = path'[v]
                BY <3>e, <4>1
            <4>3. path[v] \in Paths
                BY <4>2, HasPath
            <4>4. PartName[path[v]] \in Names \ {PartName[path[w]]}
                BY <3>p, <4>1, <4>2, <4>3, Apart
            <4>5. QED
                BY <3>d, <3>e, <4>1, <4>2, <4>3, <4>4 DEF OwnPart
        <3>5. Settled'
            BY <3>d, <3>e DEF Settled, Plain
        <3>6. NoPartLeft'
            BY <3>p, <3>d, <3>e, OthersPart
        <3>7. QED
            BY <3>1, <3>2, <3>3, <3>4, <3>5, <3>6
    <2>9. QED
        BY <1>1, <2>1, <2>2, <2>3, <2>4, <2>5, <2>6, <2>7, <2>8 DEF Upload
<1>2. CASE Crash
    <2> USE <1>2 DEF Crash
    <2>a. TypeOK'
        BY SMTT(60) DEF TypeOK
    <2>1. WorkerInv'
        BY SMTT(60) DEF TypeOK, WorkerInv
    <2>2. AloneInv' /\ FreshInv' /\ OwnPart'
        BY DEF AloneInv, FreshInv, OwnPart
    <2>3. Settled' /\ AtomicReplace'
        BY DEF Settled, AtomicReplace
    <2>4. NoPartLeft'
        BY DEF TypeOK, NoPartLeft
    <2>5. QED
        BY <2>a, <2>1, <2>2, <2>3, <2>4
<1>3. CASE UNCHANGED vars
    <2> USE <1>3 DEF vars
    <2>1. TypeOK' /\ WorkerInv' /\ AloneInv' /\ FreshInv'
        BY DEF TypeOK, WorkerInv, AloneInv, FreshInv
    <2>2. OwnPart' /\ Settled' /\ AtomicReplace' /\ NoPartLeft'
        BY DEF OwnPart, Settled, AtomicReplace, NoPartLeft
    <2>3. QED
        BY <2>1, <2>2
<1>4. QED
    BY <1>1, <1>2, <1>3 DEF Next

LEMMA Invariance == Spec => []Inv
BY InitInv, StepInv, PTL DEF Spec

-----------------------------------------------------------------------------
\* Every variable keeps its type: in particular no file of receive_file grows
\* beyond the size its "C" record announced.
THEOREM TypeCorrect == Spec => []TypeOK
<1>1. Inv => TypeOK
    BY DEF Inv
<1>2. QED
    BY <1>1, Invariance, PTL

\* A destination is at every instant absent or one whole file, however many
\* uploads run and wherever they are cut off, unless two that ran at once had a
\* name in common or it is itself called <other>.ps4scp-part: receive_file
\* renames only what it has written to the last unit.
THEOREM ReplaceIsAtomic == Spec => []AtomicReplace
<1>1. Inv => AtomicReplace
    BY DEF Inv
<1>2. QED
    BY <1>1, Invariance, PTL

\* receive_file removes its temporary file on every path out of it, and what
\* a crash leaves never makes a later open(O_EXCL) fail unless another upload
\* with a name in common runs.
THEOREM PartRemoved == Spec => []NoPartLeft
<1>1. Inv => NoPartLeft
    BY DEF Inv
<1>2. QED
    BY <1>1, Invariance, PTL

\* Unless another upload with a name in common ran at the same time,
\* receive_file sends its final status byte only when the destination has
\* become the worker's own file and that file is whole.
THEOREM AckIsHonestIfAlone == Spec => AckMeansStoredIfAlone
<1>1. Inv /\ [Next]_vars =>
        [\A w \in Workers :
            pc[w] = "rename" /\ pc'[w] = "control" /\ path[w] \notin shared =>
            dir'[path[w]] = output[w] /\ len[output[w]] = size[output[w]]]_vars
    <2> SUFFICES ASSUME Inv, Next, NEW w \in Workers,
                        pc[w] = "rename", pc'[w] = "control", path[w] \notin shared
                 PROVE  dir'[path[w]] = output[w] /\ len[output[w]] = size[output[w]]
        OBVIOUS
    <2>1. ~Crash
        BY DEF Crash
    <2>2. PICK v \in Workers : Upload(v)
        BY <2>1 DEF Next
    <2>3. \A l : Leave(v, l) \/ Goto(v, l) => v = w \/ pc'[w] = pc[w]
        BY DEF Leave, Goto, Inv, TypeOK
    <2>4. v = w
        BY <2>2, <2>3 DEF Upload, Start, Control, ControlEnds, Unlink, Open,
            OpenFails, Data, Complete, Interrupted, Rename, RenameFails, Failed
    <2>5. Rename(w)
        BY <2>2, <2>4 DEF Upload, Start, Control, ControlEnds, Unlink, Open,
            OpenFails, Data, Complete, Received, Interrupted, RenameFails, Failed,
            Goto, Inv, TypeOK
    <2>6. path[w] \in Paths /\ dir[PartName[path[w]]] = output[w] /\ remaining[w] = 0
          /\ len[output[w]] + remaining[w] = size[output[w]] /\ output[w] \in Files
        BY ScpAssumption DEF Inv, TypeOK, WorkerInv, OwnPart, Receiving, HasFile, None
    <2>7. QED
        BY <2>5, <2>6, ScpAssumption DEF Rename, Inv, TypeOK, Files
<1>2. QED
    BY <1>1, Invariance, PTL DEF Spec, AckMeansStoredIfAlone
=============================================================================
