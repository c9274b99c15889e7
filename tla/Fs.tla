--------------------------------- MODULE Fs ---------------------------------
(***************************************************************************)
(* I-nodes, the i-node cache and directories (fs.c) under file system      *)
(* calls of several processes (sysfile.c).  A step is what a process does  *)
(* between two points where another process can get in: the sleep lock of  *)
(* an i-node is held over several, icache.lock within one.                 *)
(***************************************************************************)
EXTENDS Integers, Sequences, FiniteSets

CONSTANTS
  Procs,
  NINUM,       \* i-nodes of the disk
  Names,       \* names a directory can hold
  Calls        \* of a process: the calls it makes, records with op, path and so on

Inums == 1..NINUM
ROOTINO == 1
NONE == 0
Dots == {".", ".."}

Path == [abs : BOOLEAN, elems : Seq(Names)]

CallOK(c) ==
  /\ c.path \in Path /\ c.then \in {"link", "unlink", "create", "open", "chdir"}
  /\ c.then = "link" => c.new \in Path
  /\ c.then = "create" => c.type \in {"T_DIR", "T_FILE", "T_DEV"}

(* The paths of the calls go through names of the directories, not through *)
(* "." or "..".                                                            *)
ASSUME FsAssumption ==
  /\ IsFiniteSet(Procs) /\ NONE \notin Procs
  /\ IsFiniteSet(Names) /\ Names \cap Dots = {}
  /\ NINUM \in Nat \ {0}
  /\ \A p \in Procs : \A c \in Calls[p] : CallOK(c)

VARIABLES
  dtype, nlink, ent,          \* on the disk; an i-node cached is written through
  ref, valid, lock,           \* the cache; lock is the process that holds it
  cwd, file,                  \* of a process: current directory, an open file
  pc, ret, bad,               \* where it is, where to go on, and where if namex fails
  call, path,                 \* its call, and what is left of the path
  cur, ip, next, put,         \* its i-nodes: namex's or dp, ip, next, and iput's
  panic,
  crossed                     \* history: i-nodes two iput's let go together

disk == <<dtype, nlink, ent>>
cache == <<ref, valid, lock>>
regs == <<call, path, cur, ip, next>>
vars == <<disk, cache, cwd, file, pc, ret, bad, regs, put, panic, crossed>>

NoCall == [op |-> "none"]

(* The root directory, where every process starts.                         *)
Init ==
  /\ dtype = [i \in Inums |-> IF i = ROOTINO THEN "T_DIR" ELSE "free"]
  /\ nlink = [i \in Inums |-> IF i = ROOTINO THEN 1 ELSE 0]
  /\ ent = [i \in Inums |-> [n \in Names \cup Dots |->
               IF i = ROOTINO /\ n \in Dots THEN ROOTINO ELSE NONE]]
  /\ ref = [i \in Inums |-> IF i = ROOTINO THEN Cardinality(Procs) ELSE 0]
  /\ valid = [i \in Inums |-> FALSE] /\ lock = [i \in Inums |-> NONE]
  /\ cwd = [p \in Procs |-> ROOTINO] /\ file = [p \in Procs |-> NONE]
  /\ pc = [p \in Procs |-> "idle"] /\ ret = [p \in Procs |-> <<>>]
  /\ bad = [p \in Procs |-> "done"] /\ call = [p \in Procs |-> NoCall]
  /\ path = [p \in Procs |-> <<>>] /\ cur = [p \in Procs |-> NONE]
  /\ ip = [p \in Procs |-> NONE] /\ next = [p \in Procs |-> NONE]
  /\ put = [p \in Procs |-> NONE] /\ panic = FALSE
  /\ crossed = {}

At(p, where) == pc[p] = where /\ ~panic
Goto(p, where) == pc' = [pc EXCEPT ![p] = where]
Set(r, p, v) == [r EXCEPT ![p] = v]
IsDir(e) == dtype[e] = "T_DIR"

----------------------------------------------------------------------------
(* The cache: iget, ilock, iunlock, iput.                                  *)

(* icache.lock makes iget's search and recycling one step, so an i-node    *)
(* has one entry, and is named by it.  An entry without references is      *)
(* recycled with valid = 0.                                                *)
iget(i) == ref' = [ref EXCEPT ![i] = @ + 1] /\ UNCHANGED valid

ilock(p, e) ==
  /\ lock[e] = NONE /\ lock' = [lock EXCEPT ![e] = p]
  /\ valid' = [valid EXCEPT ![e] = TRUE]
  /\ UNCHANGED ref

iunlock(e) == lock' = [lock EXCEPT ![e] = NONE]

(* Call iput on e and go on at l.                                          *)
iputThen(p, e, l) ==
  /\ put' = Set(put, p, e) /\ Goto(p, "iput") /\ ret' = [ret EXCEPT ![p] = <<l>> \o @]

iunlockputThen(p, e, l) == iunlock(e) /\ iputThen(p, e, l) /\ UNCHANGED <<ref, valid>>

UnreferencedAny(e) == TRUE      \* mutated: other references are not looked at

Unreferenced(e) == ref[e] = 1

iput(p) ==
  LET e == put[p]
  IN  /\ At(p, "iput") /\ lock[e] = NONE
      /\ IF valid[e] /\ nlink[e] = 0 /\ Unreferenced(e)
           THEN lock' = [lock EXCEPT ![e] = p] /\ Goto(p, "iputFree")
           ELSE Goto(p, "iputDrop") /\ UNCHANGED lock
      /\ UNCHANGED <<disk, ref, valid, cwd, file, ret, bad, regs, put, panic, crossed>>

(* itrunc, type = 0, iupdate, valid = 0.                                   *)
iputFree(p) ==
  LET e == put[p]
  IN  /\ At(p, "iputFree")
      /\ dtype' = [dtype EXCEPT ![e] = "free"]
      /\ ent' = [ent EXCEPT ![e] = [n \in Names \cup Dots |-> NONE]]
      /\ valid' = [valid EXCEPT ![e] = FALSE] /\ iunlock(e) /\ Goto(p, "iputDrop")
      /\ crossed' = crossed \ {e}
      /\ UNCHANGED <<nlink, ref, cwd, file, ret, bad, regs, put, panic>>

iputDrop(p) ==
  LET e == put[p]
  IN  /\ At(p, "iputDrop")
      /\ ref' = [ref EXCEPT ![e] = @ - 1]
      /\ valid' = IF ref[e] = 1 THEN [valid EXCEPT ![e] = FALSE] ELSE valid
      /\ Goto(p, Head(ret[p])) /\ ret' = [ret EXCEPT ![p] = Tail(@)]
      /\ put' = Set(put, p, NONE)
      /\ crossed' = IF \E q \in Procs \ {p} : put[q] = e THEN crossed \cup {e} ELSE crossed
      /\ UNCHANGED <<disk, lock, cwd, file, bad, regs, panic>>

----------------------------------------------------------------------------
(* namex: one i-node locked at a time, and a reference kept to the next.   *)

namexThen(p, pa, l, fail) ==
  /\ cur' = Set(cur, p, IF pa.abs THEN ROOTINO ELSE cwd[p]) /\ iget(cur'[p])
  /\ path' = Set(path, p, pa.elems) /\ bad' = Set(bad, p, fail)
  /\ ret' = [ret EXCEPT ![p] = <<l>> \o @] /\ Goto(p, "namex")

nameiparent(p) == Head(ret[p]) \in {"linkParent", "unlink", "create"}

namexLock(p) ==
  /\ At(p, "namex") /\ path[p] # <<>> /\ ilock(p, cur[p]) /\ Goto(p, "namexLocked")
  /\ UNCHANGED <<disk, cwd, file, ret, bad, regs, put, panic, crossed>>

(* The path is used up: nameiparent has no name to return.                 *)
namexEnd(p) ==
  /\ At(p, "namex") /\ path[p] = <<>>
  /\ IF nameiparent(p)
       THEN iputThen(p, cur[p], "namexFail")
       ELSE Goto(p, Head(ret[p])) /\ ret' = [ret EXCEPT ![p] = Tail(@)] /\ UNCHANGED put
  /\ UNCHANGED <<disk, cache, cwd, file, bad, regs, panic, crossed>>

namexStop(p) ==
  /\ At(p, "namexLocked") /\ IsDir(cur[p]) /\ nameiparent(p) /\ Len(path[p]) = 1
  /\ iunlock(cur[p]) /\ Goto(p, Head(ret[p])) /\ ret' = [ret EXCEPT ![p] = Tail(@)]
  /\ UNCHANGED <<disk, ref, valid, cwd, file, bad, regs, put, panic, crossed>>

dirlookup(e, name) == ent[e][name]

namexLookup(p) ==
  /\ At(p, "namexLocked") /\ ~(IsDir(cur[p]) /\ nameiparent(p) /\ Len(path[p]) = 1)
  /\ IF IsDir(cur[p]) /\ dirlookup(cur[p], path[p][1]) # NONE
       THEN /\ next' = Set(next, p, dirlookup(cur[p], path[p][1])) /\ iget(next'[p])
            /\ iunlock(cur[p]) /\ iputThen(p, cur[p], "namexNext")
       ELSE iunlockputThen(p, cur[p], "namexFail") /\ UNCHANGED next
  /\ UNCHANGED <<disk, cwd, file, bad, call, path, cur, ip, panic, crossed>>

namexNext(p) ==
  /\ At(p, "namexNext")
  /\ cur' = Set(cur, p, next[p]) /\ next' = Set(next, p, NONE)
  /\ path' = [path EXCEPT ![p] = Tail(@)] /\ Goto(p, "namex")
  /\ UNCHANGED <<disk, cache, cwd, file, ret, bad, call, ip, put, panic, crossed>>

namexFail(p) ==
  /\ At(p, "namexFail")
  /\ Goto(p, bad[p]) /\ ret' = [ret EXCEPT ![p] = Tail(@)] /\ cur' = Set(cur, p, NONE)
  /\ UNCHANGED <<disk, cache, cwd, file, bad, call, path, ip, next, put, panic, crossed>>

(* ilock(dp) or ilock(ip) of a call, which goes on at l.                   *)
locks(p, here, e, l) ==
  /\ At(p, here) /\ ilock(p, e) /\ Goto(p, l)
  /\ UNCHANGED <<disk, cwd, file, ret, bad, regs, put, panic, crossed>>

(* iunlockput(e) in a call, which goes on at l.                            *)
unlocks(p, e, l) ==
  /\ iunlockputThen(p, e, l)
  /\ UNCHANGED <<cwd, file, bad, regs, panic, crossed>>

Name(p) == path[p][1]
link(d, name, i) == ent' = [ent EXCEPT ![d][name] = i]

----------------------------------------------------------------------------
(* sys_link                                                                *)

sys_linkCount(p) ==
  /\ At(p, "linkLocked")
  /\ \/ /\ IsDir(cur[p]) /\ iunlockputThen(p, cur[p], "done")
        /\ UNCHANGED <<nlink, bad, path, cur, ip>>
     \/ /\ ~IsDir(cur[p])
        /\ nlink' = [nlink EXCEPT ![cur[p]] = @ + 1]
        /\ iunlock(cur[p]) /\ ip' = Set(ip, p, cur[p])
        /\ namexThen(p, call[p].new, "linkParent", "linkBad") /\ UNCHANGED put
  /\ UNCHANGED <<dtype, ent, cwd, file, call, next, panic, crossed>>

(* dirlink(dp, name, ip->inum).  A name that exists is an i-node to put    *)
(* back, while dp is locked.                                               *)
sys_linkEntry(p) ==
  /\ At(p, "linkParentLocked")
  /\ \/ /\ dirlookup(cur[p], Name(p)) = NONE
        /\ link(cur[p], Name(p), ip[p])
        /\ iunlockputThen(p, cur[p], "linkPut")
     \/ /\ dirlookup(cur[p], Name(p)) # NONE
        /\ iget(dirlookup(cur[p], Name(p)))
        /\ iputThen(p, dirlookup(cur[p], Name(p)), "linkExists")
        /\ UNCHANGED <<ent, lock>>
  /\ UNCHANGED <<dtype, nlink, cwd, file, bad, regs, panic, crossed>>

sys_linkExistsKeeps(p) ==      \* mutated: dp is unlocked, its reference kept
  /\ At(p, "linkExists") /\ iunlock(cur[p]) /\ Goto(p, "linkBad")
  /\ UNCHANGED <<disk, ref, valid, cwd, file, ret, bad, regs, put, panic, crossed>>

sys_linkExists(p) ==
  /\ At(p, "linkExists") /\ unlocks(p, cur[p], "linkBad") /\ UNCHANGED disk

sys_linkBad(p) ==
  /\ At(p, "linkBadLocked")
  /\ nlink' = [nlink EXCEPT ![ip[p]] = @ - 1]
  /\ unlocks(p, ip[p], "done") /\ UNCHANGED <<dtype, ent>>

sys_linkPut(p) ==
  /\ At(p, "linkPut") /\ iputThen(p, ip[p], "done")
  /\ UNCHANGED <<disk, cache, cwd, file, bad, regs, panic, crossed>>

sys_link(p) ==
  \/ locks(p, "link", cur[p], "linkLocked") \/ sys_linkCount(p)
  \/ locks(p, "linkParent", cur[p], "linkParentLocked") \/ sys_linkEntry(p)
  \/ sys_linkExists(p) \/ locks(p, "linkBad", ip[p], "linkBadLocked") \/ sys_linkBad(p)

----------------------------------------------------------------------------
(* sys_unlink                                                              *)

isdirempty(e) == \A n \in Names : ent[e][n] = NONE

sys_unlinkLookup(p) ==
  LET i == dirlookup(cur[p], Name(p))
  IN  /\ At(p, "unlinkLocked")
      /\ \/ /\ Name(p) \in Dots \/ i = NONE
            /\ iunlockputThen(p, cur[p], "done") /\ UNCHANGED ip
         \/ /\ ~(Name(p) \in Dots \/ i = NONE)
            /\ iget(i) /\ ip' = Set(ip, p, i)
            /\ Goto(p, "unlinkIp") /\ UNCHANGED <<lock, ret, put>>
      /\ UNCHANGED <<disk, cwd, file, bad, call, path, cur, next, panic, crossed>>

Removable(e) == IsDir(e) => isdirempty(e)

(* The entry goes, and with a directory its ".." that counts for dp.       *)
sys_unlinkEntry(p) ==
  /\ At(p, "unlinkIpLocked")
  /\ \/ /\ ~Removable(ip[p]) /\ unlocks(p, ip[p], "unlinkBad") /\ UNCHANGED disk
     \/ /\ Removable(ip[p]) /\ link(cur[p], Name(p), NONE)
        /\ nlink' = IF IsDir(ip[p]) THEN [nlink EXCEPT ![cur[p]] = @ - 1] ELSE nlink
        /\ unlocks(p, cur[p], "unlinkCount") /\ UNCHANGED dtype

sys_unlinkCount(p) ==
  /\ At(p, "unlinkCount")
  /\ nlink' = [nlink EXCEPT ![ip[p]] = @ - 1]
  /\ unlocks(p, ip[p], "done") /\ UNCHANGED <<dtype, ent>>

sys_unlink(p) ==
  \/ locks(p, "unlink", cur[p], "unlinkLocked") \/ sys_unlinkLookup(p)
  \/ locks(p, "unlinkIp", ip[p], "unlinkIpLocked") \/ sys_unlinkEntry(p)
  \/ At(p, "unlinkBad") /\ unlocks(p, cur[p], "done") /\ UNCHANGED disk
  \/ sys_unlinkCount(p)

----------------------------------------------------------------------------
(* create, for sys_open with O_CREATE, sys_mkdir and sys_mknod             *)

createExists(p) ==
  LET i == dirlookup(cur[p], Name(p))
  IN  /\ At(p, "createLocked") /\ i # NONE
      /\ iget(i) /\ ip' = Set(ip, p, i)
      /\ iunlock(cur[p]) /\ iputThen(p, cur[p], "createIp")
      /\ UNCHANGED <<disk, cwd, file, bad, call, path, cur, next, panic, crossed>>

createCheck(p) ==
  LET type == dtype[ip[p]]
  IN  /\ At(p, "createIpLocked")
      /\ IF (call[p].type = "T_FILE" /\ type = "T_FILE") \/ type = "T_DEV"
           THEN Goto(p, "created") /\ UNCHANGED <<ret, put, cache>>
           ELSE iunlockputThen(p, ip[p], "done")
      /\ UNCHANGED <<disk, cwd, file, bad, regs, panic, crossed>>

FreeInum(i) == dtype[i] = "free" /\ \A j \in 1..(i - 1) : dtype[j] # "free"

ialloc(p) ==
  /\ At(p, "createLocked") /\ dirlookup(cur[p], Name(p)) = NONE
  /\ \E i \in Inums :
       /\ FreeInum(i) /\ iget(i) /\ ip' = Set(ip, p, i)
       /\ dtype' = [dtype EXCEPT ![i] = call[p].type]
       /\ nlink' = [nlink EXCEPT ![i] = 0]
  /\ Goto(p, "createNew")
  /\ UNCHANGED <<ent, lock, cwd, file, ret, bad, call, path, cur, next, put, panic, crossed>>

iallocNone(p) ==
  /\ At(p, "createLocked") /\ dirlookup(cur[p], Name(p)) = NONE
  /\ ~ \E i \in Inums : FreeInum(i)
  /\ panic' = TRUE
  /\ UNCHANGED <<disk, cache, cwd, file, pc, ret, bad, regs, put, crossed>>

createNewUncounted(p) ==      \* mutated: ".." does not count for dp
  LET i == ip[p]  d == cur[p]  dir == call[p].type = "T_DIR"
  IN  /\ At(p, "createNewLocked")
      /\ nlink' = [nlink EXCEPT ![i] = 1]
      /\ ent' = [ent EXCEPT ![d][Name(p)] = i,
                            ![i]["."] = IF dir THEN i ELSE NONE,
                            ![i][".."] = IF dir THEN d ELSE NONE]
      /\ unlocks(p, cur[p], "created") /\ UNCHANGED dtype

createNew(p) ==
  LET i == ip[p]  d == cur[p]  dir == call[p].type = "T_DIR"
  IN  /\ At(p, "createNewLocked")
      /\ nlink' = [nlink EXCEPT ![i] = 1, ![d] = IF dir THEN @ + 1 ELSE @]
      /\ ent' = [ent EXCEPT ![d][Name(p)] = i,
                            ![i]["."] = IF dir THEN i ELSE NONE,
                            ![i][".."] = IF dir THEN d ELSE NONE]
      /\ unlocks(p, cur[p], "created") /\ UNCHANGED dtype

create(p) ==
  \/ locks(p, "create", cur[p], "createLocked")
  \/ createExists(p) \/ locks(p, "createIp", ip[p], "createIpLocked") \/ createCheck(p)
  \/ ialloc(p) \/ iallocNone(p)
  \/ locks(p, "createNew", ip[p], "createNewLocked") \/ createNew(p)

----------------------------------------------------------------------------
(* sys_open, sys_mkdir, sys_mknod, sys_chdir, and the last close of a file *)

sys_openFile(p) ==
  /\ At(p, "created") /\ call[p].op = "open"
  /\ iunlock(ip[p]) /\ Goto(p, "done") /\ file' = Set(file, p, ip[p])
  /\ UNCHANGED <<disk, ref, valid, cwd, ret, bad, regs, put, panic, crossed>>

(* No struct file or descriptor left; or sys_mkdir, sys_mknod.             *)
createdPut(p) ==
  /\ At(p, "created") /\ unlocks(p, ip[p], "done") /\ UNCHANGED disk

sys_openCheck(p) ==
  /\ At(p, "openLocked")
  /\ \/ /\ IsDir(cur[p]) /\ call[p].write /\ iunlockputThen(p, cur[p], "done")
        /\ UNCHANGED ip
     \/ /\ ~(IsDir(cur[p]) /\ call[p].write) /\ ip' = Set(ip, p, cur[p])
        /\ Goto(p, "created") /\ UNCHANGED <<cache, ret, put>>
  /\ UNCHANGED <<disk, cwd, file, bad, call, path, cur, next, panic, crossed>>

sys_chdir(p) ==
  /\ At(p, "chdirLocked")
  /\ IF IsDir(cur[p])
       THEN /\ iunlock(cur[p]) /\ iputThen(p, cwd[p], "chdirDone")
            /\ UNCHANGED <<ref, valid>>
       ELSE iunlockputThen(p, cur[p], "done")
  /\ UNCHANGED <<disk, cwd, file, bad, regs, panic, crossed>>

sys_chdirDone(p) ==
  /\ At(p, "chdirDone") /\ cwd' = Set(cwd, p, cur[p]) /\ Goto(p, "done")
  /\ UNCHANGED <<disk, cache, file, ret, bad, regs, put, panic, crossed>>

sys_open(p) ==
  \/ sys_openFile(p) \/ createdPut(p)
  \/ locks(p, "open", cur[p], "openLocked") \/ sys_openCheck(p)
  \/ locks(p, "chdir", cur[p], "chdirLocked") \/ sys_chdir(p)

fileclose(p) ==
  /\ At(p, "idle") /\ file[p] # NONE
  /\ file' = Set(file, p, NONE) /\ iputThen(p, file[p], "done")
  /\ UNCHANGED <<disk, cache, cwd, bad, regs, panic, crossed>>

(* A call begins.  A process of the model keeps one file open at a time.   *)
syscall(p) ==
  /\ At(p, "idle")
  /\ \E c \in Calls[p] :
       /\ c.op = "open" => file[p] = NONE
       /\ call' = Set(call, p, c)
       /\ namexThen(p, c.path, c.then, "done")
  /\ UNCHANGED <<disk, lock, cwd, file, ip, next, put, panic, crossed>>

done(p) ==
  /\ At(p, "done") /\ Goto(p, "idle")
  /\ call' = Set(call, p, NoCall) /\ path' = Set(path, p, <<>>)
  /\ cur' = Set(cur, p, NONE) /\ ip' = Set(ip, p, NONE) /\ bad' = Set(bad, p, "done")
  /\ UNCHANGED <<disk, cache, cwd, file, ret, next, put, panic, crossed>>

Private == {"namexNext", "namexFail", "linkPut", "chdirDone", "done"}
Quiet == \A p \in Procs : pc[p] \notin Private

(* A step on the process's own registers only is taken at once.            *)
Next ==
  \E p \in Procs :
    \/ namexNext(p) \/ namexFail(p) \/ sys_linkPut(p) \/ sys_chdirDone(p) \/ done(p)
    \/ /\ Quiet
       /\ \/ syscall(p) \/ fileclose(p)
          \/ iput(p) \/ iputFree(p) \/ iputDrop(p)
          \/ namexLock(p) \/ namexEnd(p) \/ namexStop(p) \/ namexLookup(p)
          \/ sys_link(p) \/ sys_unlink(p) \/ create(p) \/ sys_open(p)

Spec == Init /\ [][Next]_vars

----------------------------------------------------------------------------
Allocated(i) == dtype[i] # "free"
Naming(i) == {e \in Inums \X Names : Allocated(e[1]) /\ ent[e[1]][e[2]] = i}
Subdirs(i) == {d \in Inums \ {ROOTINO} : Naming(d) # {} /\ ent[d][".."] = i}

(* The link count of an i-node never falls behind the names it has, its    *)
(* subdirectories' ".." included (sys_link counts before dirlink, and      *)
(* sys_unlink after the entry is cleared): no directory names a free       *)
(* i-node, whatever other calls are under way.                             *)
LinksCounted ==
  \A i \in Inums :
    /\ Cardinality(Naming(i)) + Cardinality(Subdirs(i)) <= nlink[i]
    /\ Naming(i) # {} => Allocated(i)

(* ilock never reads an i-node of type 0 (its panic "ilock: no type"):     *)
(* whoever got a reference from a directory under its lock finds the       *)
(* i-node allocated when it locks it later, though others unlink the name  *)
(* and put theirs meanwhile.                                               *)
LockedHasType ==
  \A i \in Inums : lock[i] # NONE /\ valid[i] => Allocated(i)

(* An i-node some process has open or as its current directory is not      *)
(* freed when its last name goes, and its cache entry is still its own     *)
(* (iput frees it only with no other reference).                           *)
InUseLives ==
  \A p \in Procs :
    /\ file[p] # NONE => Allocated(file[p])
    /\ put[p] # cwd[p] /\ pc[p] # "chdirDone" => dtype[cwd[p]] = "T_DIR"

(* Every path through the calls, the failing ones too, gives back the      *)
(* references and locks it took: between calls an entry's ref counts the   *)
(* open files and current directories that use it, no lock is held, and an *)
(* i-node without names is either in use or free.  The exception is iput's *)
(* own race: two that overlap both read ref 2, and neither frees.          *)
NothingLeaks ==
  (\A p \in Procs : pc[p] = "idle") =>
     \A i \in Inums :
       /\ ref[i] = Cardinality({p \in Procs : cwd[p] = i})
                   + Cardinality({p \in Procs : file[p] = i})
       /\ lock[i] = NONE
       /\ nlink[i] = 0 /\ ref[i] = 0 /\ i \notin crossed => ~Allocated(i)

(* Who p waits for: the holder of the sleep lock its next step takes.      *)
Wanted(p) ==
  CASE pc[p] = "iput" -> put[p]
    [] pc[p] \in {"linkBad", "unlinkIp", "createIp", "createNew"} -> ip[p]
    [] pc[p] \in {"link", "linkParent", "unlink", "create", "open", "chdir"} -> cur[p]
    [] pc[p] = "namex" /\ path[p] # <<>> -> cur[p]
    [] OTHER -> NONE

WaitsFor(p) == IF Wanted(p) = NONE THEN NONE ELSE lock[Wanted(p)]

(* Processes that create, link and unlink concurrently do not end up       *)
(* waiting for each other's i-node locks, or for their own.                *)
NoEmbrace ==
  \A p, q \in Procs : ~(WaitsFor(p) = q /\ WaitsFor(q) = p)
=============================================================================
