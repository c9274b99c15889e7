------------------------------ MODULE FsProofs ------------------------------
(***************************************************************************)
(* The i-nodes, their cache and the directories (Fs) for any number of     *)
(* processes, i-nodes and names, and any calls on paths of names: the      *)
(* steps that change link counts and directories keep the invariant of     *)
(* FsSteps too, so it holds, and with it what the runs check.              *)
(***************************************************************************)
EXTENDS FsSteps

USE Zenon

----------------------------------------------------------------------------
(* Steps that write the disk.                                              *)

(* A step that writes what it has locked.                                  *)
LEMMA DiskStep ==
  ASSUME FsInv, NEW p \in Procs, Frame(p), dtype' = dtype, crossed' = crossed,
         valid' = valid, CacheStep(p), pc[p] \notin InPut, pc[p] # "createNew",
         pc'[p] # "iputDrop",
         \A i \in Inums : nlink'[i] # nlink[i] \/ ent'[i] # ent[i] => lock[i] = p,
         Uses(p) \subseteq Uses(p)', \A i \in Uses(p)' : i \in Uses(p) \/ nlink[i] # 0,
         Local(p)', DiskType', RefsExact', LocksExact', LinksOwed', Tree'
  PROVE  FsInv'
<1>1. Touch(p) /\ NewUses(p)
  BY DEF Touch, NewUses
<1>2. \A i \in Uses(p)' : dtype'[i] # "free"
  <2>1. \A i \in Uses(p)' : i \in Inums
    BY DEF Uses, Inums
  <2> QED BY <2>1 DEF FsInv, UsedLive, Tree, Allocated
<1>3. Cached'
  BY CacheKept
<1>4. \A i \in Inums : lock[i] = p => i \in Uses(p) /\ valid[i]
  <2>1. \A i \in Inums : lock[i] = p => i \in Uses(p)
    BY LockUses DEF FsInv, LocksExact, Local
  <2>2. p # NONE
    BY Consts
  <2> QED BY <2>1, <2>2 DEF FsInv, Cached
<1>5. ASSUME NEW i \in Inums, Allocated(i), nlink'[i] = 0
      PROVE  \/ i \in crossed' \/ (\E q \in Procs : i \in Uses(q)')
             \/ \E q \in Procs : \E o \in Procs \ {q} : put'[q] = i /\ put'[o] = i
  <2>1. CASE nlink[i] # 0
    BY <1>4, <1>5, <2>1
  <2>2. CASE nlink[i] = 0
    <3>1. ASSUME NEW q \in Procs, i \in Uses(q) PROVE i \in Uses(q)'
      BY <3>1, FrameFacts
    <3>2. ASSUME NEW q \in Procs, NEW o \in Procs \ {q}, put[q] = i, put[o] = i
          PROVE  put'[q] = i /\ put'[o] = i
      <4>1. put[p] = NONE
        BY AtFacts
      <4>2. q # p /\ o # p
        BY <3>2, <4>1, Consts
      <4> QED BY <3>2, <4>2 DEF Frame
    <3>3. i \in crossed => i \in crossed'
      OBVIOUS
    <3>4. CASE i \in crossed
      BY <3>3, <3>4
    <3>5. CASE \E q \in Procs : i \in Uses(q)
      BY <3>1, <3>5
    <3>6. CASE \E q \in Procs : \E o \in Procs \ {q} : put[q] = i /\ put[o] = i
      BY <3>2, <3>6
    <3> QED BY <1>5, <2>2, <3>4, <3>5, <3>6, OwedFree
  <2> QED BY <2>1, <2>2
<1>6. ASSUME NEW i \in Inums, Allocated(i), nlink'[i] = 0
      PROVE  \/ valid'[i] \/ (\E q \in Procs : pc'[q] = "createNew" /\ ip'[q] = i)
             \/ \A h \in Procs \X Roles : held'[h] # i
  <2>1. CASE nlink[i] # 0
    BY <1>4, <1>6, <2>1
  <2>2. CASE nlink[i] = 0
    <3>1. CASE valid[i]
      BY <3>1
    <3>2. ASSUME NEW q \in Procs, pc[q] = "createNew", ip[q] = i
          PROVE  pc'[q] = "createNew" /\ ip'[q] = i
      BY <3>2 DEF Frame
    <3>3. ASSUME \A h \in Procs \X Roles : held[h] # i
          PROVE  \A h \in Procs \X Roles : held'[h] # i
      <4>1. i \notin Uses(p)'
        <5>1. SUFFICES ASSUME i \in Uses(p) PROVE FALSE
          BY <2>2
        <5>2. PICK r \in Roles : Holding(p, r) = i
          BY <5>1 DEF Uses
        <5> QED BY <3>3, <5>2, HeldFacts
      <4>2. \A r \in Roles : Holding(p, r)' # i
        BY <4>1, UsesRoles
      <4>3. \A h \in Procs \X Roles : h[1] = p => held'[h] # i
        BY <4>2 DEF held
      <4> QED BY <3>3, <4>3, HeldOthers
    <3> QED BY <1>6, <2>2, <3>1, <3>2, <3>3, OwedFree
  <2> QED BY <2>1, <2>2
<1>7. ToBeFreed'
  BY <1>5, <1>6 DEF ToBeFreed, Allocated, Inums
<1> QED BY <1>1, <1>2, <1>3, <1>7, Assemble

(* A link counted before it is in a directory.                             *)
LEMMA PendingGains ==
  ASSUME FiniteFacts, NEW p \in Procs, Frame(p), ~Counted(p), Counted(p)', NEW e, ip'[p] = e
  PROVE  /\ Cardinality(Pending(e)') = Cardinality(Pending(e)) + 1
         /\ \A i \in Inums \ {e} : Pending(i)' = Pending(i)
<1>1. \A q \in Procs \ {p} : (Counted(q)' <=> Counted(q)) /\ ip'[q] = ip[q]
  BY FrameFacts DEF Frame
<1>2. Pending(e)' = Pending(e) \cup {p} /\ p \notin Pending(e)
  BY <1>1 DEF Pending
<1>3. Cardinality(Pending(e) \cup {p}) = Cardinality(Pending(e)) + 1
  BY <1>2, Finite, FinAdd
<1> QED BY <1>1, <1>2, <1>3 DEF Pending

(* A counted link that is in its directory, or no longer counted.          *)
LEMMA PendingLoses ==
  ASSUME FiniteFacts, NEW p \in Procs, Frame(p), Counted(p), ~Counted(p)', NEW e, ip[p] = e
  PROVE  /\ Cardinality(Pending(e)') = Cardinality(Pending(e)) - 1 /\ Pending(e) # {}
         /\ \A i \in Inums \ {e} : Pending(i)' = Pending(i)
<1>1. \A q \in Procs \ {p} : (Counted(q)' <=> Counted(q)) /\ ip'[q] = ip[q]
  BY FrameFacts DEF Frame
<1>2. Pending(e)' = Pending(e) \ {p} /\ p \in Pending(e)
  BY <1>1 DEF Pending
<1>3. Cardinality(Pending(e) \ {p}) = Cardinality(Pending(e)) - 1
  BY <1>2, Finite, FinRemove
<1>4. \A i \in Inums \ {e} : Pending(i)' = Pending(i)
  BY <1>1 DEF Pending
<1> QED BY <1>2, <1>3, <1>4

(* Only link counts change.                                                *)
LEMMA NamesKept ==
  ASSUME FsInv, dtype' = dtype, ent' = ent,
         \A i \in Inums : ~Allocated(i) => nlink'[i] = nlink[i]
  PROVE  /\ \A i \in Inums : Naming(i)' = Naming(i) /\ Subdirs(i)' = Subdirs(i)
         /\ Tree'
<1>2. \A i \in Inums : Naming(i)' = Naming(i)
  BY DEF Naming, Allocated
<1>3. \A i \in Inums : Subdirs(i)' = Subdirs(i)
  BY <1>2 DEF Subdirs
<1>6. Tree'
  <2>1. Tree /\ Inums' = Inums
    BY DEF FsInv, Inums
  <2>2. IsDir(ROOTINO)' /\ Naming(ROOTINO)' = {}
    BY <1>2, <2>1, Consts DEF Tree, IsDir
  <2>3. \A i \in Inums : IsDir(i)' => \A x, y \in Naming(i)' : x = y /\ ent'[i][".."] = x[1]
    BY <1>2, <2>1 DEF Tree, IsDir
  <2>4. \A i \in Inums : ~IsDir(i)' => \A n \in Names \cup Dots : ent'[i][n] = NONE
    BY <2>1 DEF Tree, IsDir
  <2>5. \A i \in Inums : ~Allocated(i)' => nlink'[i] = 0
    BY <2>1 DEF Tree, Allocated
  <2> QED BY <2>2, <2>3, <2>4, <2>5 DEF Tree
<1> QED BY <1>2, <1>3, <1>6

(* nlink less by one, as sys_link takes its count back and sys_unlink      *)
(* counts after the entry is cleared.                                      *)
LEMMA countDownKeeps ==
  ASSUME FiniteFacts, FsInv, NEW p \in Procs, PutsIp(pc[p], "done"),
         pc[p] \in {"linkBadLocked", "unlinkCount"},
         nlink' = [nlink EXCEPT ![ip[p]] = @ - 1], unlocks(p, ip[p], "done"),
         UNCHANGED <<dtype, ent>>
  PROVE  FsInv'
<1>e. PICK e : e = ip[p]
  OBVIOUS
<1>1. /\ iunlockputThen(p, ip[p], "done") /\ UNCHANGED <<cwd, file, bad, regs, panic>>
      /\ crossed' = crossed /\ dtype' = dtype /\ ent' = ent
      /\ nlink' = [nlink EXCEPT ![e] = @ - 1]
  BY <1>e DEF unlocks
<1>2. /\ Frame(p) /\ RefsExact' /\ Uses(p)' = Uses(p) /\ LocksExact' /\ Local(p)'
      /\ CacheOK' /\ CacheStep(p) /\ pc'[p] = "iput" /\ Where(p)' = "done" /\ ~Linking(p)'
      /\ Where(p) = pc[p] /\ ~Linking(p) /\ pc[p] \notin InPut /\ e \in Inums
      /\ Locked(p, e) /\ UNCHANGED <<ref, valid, cur, ip, path, call>>
  BY <1>1, <1>e, PutsIpStep
<1>3. Counted(p) /\ ~Counted(p)' /\ pc[p] # "createNew" /\ pc'[p] # "iputDrop" /\ valid' = valid
  BY <1>2 DEF Counted, LinkAt
<1>4. /\ Cardinality(Pending(e)') = Cardinality(Pending(e)) - 1 /\ Pending(e) # {}
      /\ \A i \in Inums \ {e} : Pending(i)' = Pending(i)
  BY <1>2, <1>3, <1>e, PendingLoses
<1>5. nlink[e] \in Nat /\ nlink[e] # 0 /\ Allocated(e)
  BY <1>2, <1>4, Linked
<1>6. nlink'[e] = nlink[e] - 1 /\ \A i \in Inums \ {e} : nlink'[i] = nlink[i]
  BY <1>1, <1>2 DEF FsInv, DiskType, DiskOK
<1>7. DiskType'
  <2>1. nlink' \in [Inums -> Nat]
    <3>1. nlink[e] - 1 \in Nat
      BY <1>5, SMT
    <3>2. nlink \in [Inums -> Nat]
      BY DEF FsInv, DiskType, DiskOK
    <3> QED BY <1>1, <1>2, <3>1, <3>2
  <2> QED BY <1>1, <1>2, <2>1 DEF FsInv, DiskType, DiskOK, Inums
<1>8. /\ \A i \in Inums : Naming(i)' = Naming(i) /\ Subdirs(i)' = Subdirs(i)
      /\ Tree'
  BY <1>1, <1>5, <1>6, NamesKept
<1>9. LinksOwed'
  <2>1. ASSUME NEW i \in Inums
        PROVE  Cardinality(Naming(i)') + Cardinality(Subdirs(i)') + Cardinality(Pending(i)')
                 + (IF i = ROOTINO THEN 1 ELSE 0) <= nlink'[i]
    <3>1. Cardinality(Naming(i)) + Cardinality(Subdirs(i)) + Cardinality(Pending(i))
            + (IF i = ROOTINO THEN 1 ELSE 0) <= nlink[i] /\ nlink[i] \in Nat
      BY Linked DEF FsInv, LinksOwed
    <3>2. CASE i = e
      BY <1>4, <1>6, <1>8, <3>1, <3>2, Finite, SMTT(30)
    <3>3. CASE i # e
      BY <1>4, <1>6, <1>8, <3>1, <3>3
    <3> QED BY <3>2, <3>3
  <2> QED BY <2>1 DEF LinksOwed, ROOTINO, Inums
<1>10. \A i \in Inums : nlink'[i] # nlink[i] \/ ent'[i] # ent[i] => lock[i] = p
  BY <1>1, <1>2, <1>6 DEF FsInv, LocksExact
<1>11. Uses(p) \subseteq Uses(p)' /\ \A i \in Uses(p)' : i \in Uses(p) \/ nlink[i] # 0
  BY <1>2
<1> QED BY <1>1, <1>2, <1>3, <1>7, <1>8, <1>9, <1>10, <1>11, DiskStep

(* sys_link counts the link before it looks up where the name goes.        *)
LEMMA linkCountKeeps ==
  ASSUME FiniteFacts, FsInv, NEW p \in Procs, pc[p] = "linkLocked", ~IsDir(cur[p]),
         nlink' = [nlink EXCEPT ![cur[p]] = @ + 1], iunlock(cur[p]),
         ip' = Set(ip, p, cur[p]), namexThen(p, call[p].new, "linkParent", "linkBad"),
         put' = put, UNCHANGED <<dtype, ent, cwd, file, call, next, panic, crossed>>
  PROVE  FsInv'
<1>c. PICK c : c = cur[p]
  OBVIOUS
<1>a. PICK a : a = call[p].new
  OBVIOUS
<1>e. PICK e : e = IF a.abs THEN ROOTINO ELSE cwd[p]
  OBVIOUS
<1>2. /\ cwd' = cwd /\ file' = file /\ next' = next /\ ip' = [ip EXCEPT ![p] = c]
      /\ dtype' = dtype /\ ent' = ent /\ lock' = [lock EXCEPT ![c] = NONE] /\ crossed' = crossed
      /\ nlink' = [nlink EXCEPT ![c] = @ + 1] /\ call' = call
      /\ cur' = [cur EXCEPT ![p] = e] /\ iget(cur'[p])
      /\ path' = [path EXCEPT ![p] = a.elems] /\ bad' = [bad EXCEPT ![p] = "linkBad"]
      /\ ret' = [ret EXCEPT ![p] = <<"linkParent">> \o @] /\ Goto(p, "namex")
  BY <1>a, <1>c, <1>e DEF iunlock, namexThen, Set
<1>3. /\ pc[p] \in Steps /\ pc[p] \notin InPut /\ pc[p] \notin IpAt /\ pc[p] \in CurAt
      /\ pc[p] \in LocksCur /\ pc[p] \notin LocksIp /\ pc[p] # "chdirDone"
      /\ pc[p] \notin LinkAt /\ pc[p] # "createNew" /\ pc[p] # "unlinkCount"
      /\ pc[p] # "iputFree" /\ pc[p] # "iputDrop" /\ pc[p] \in {"link", "linkLocked"}
      /\ pc[p] \notin {"done", "idle"}
  BY DEF Steps, InPut, IpAt, CurAt, LocksCur, LocksIp, LinkAt
<1>4. /\ Where(p) = pc[p] /\ put[p] = NONE /\ Holding(p, "put") = NONE /\ ret[p] = <<>>
      /\ ~Linking(p) /\ next[p] = NONE
  BY <1>3, AtFacts
<1>5. /\ CacheOK /\ cwd[p] \in Inums /\ file[p] \in Inums \cup {NONE} /\ dtype[cwd[p]] = "T_DIR"
      /\ c \in Inums /\ Allocated(c) /\ a \in Path /\ (call[p].op = "open" => file[p] = NONE)
  BY <1>3, <1>a, <1>c, BaseFacts
<1>6. a.elems \in Seq(Names) /\ dtype[c] # "T_DIR"
  BY <1>5, <1>c DEF Path, IsDir
<1>7. /\ pc'[p] = "namex" /\ cur'[p] = e /\ path'[p] = a.elems /\ bad'[p] = "linkBad"
      /\ ip'[p] = c /\ ret'[p] = <<"linkParent">> \o ret[p]
      /\ \A q \in Procs \ {p} : /\ pc'[q] = pc[q] /\ path'[q] = path[q] /\ cur'[q] = cur[q]
                                /\ bad'[q] = bad[q] /\ ret'[q] = ret[q] /\ ip'[q] = ip[q]
      /\ DOMAIN pc' = Procs /\ DOMAIN path' = Procs /\ DOMAIN cur' = Procs
      /\ DOMAIN bad' = Procs /\ DOMAIN ret' = Procs /\ DOMAIN ip' = Procs
  BY <1>2, <1>5 DEF Goto, CacheOK
<1>8. ret'[p] = <<"linkParent">>
  <2>1. <<"linkParent">> \o <<>> = <<"linkParent">>
    BY Stack
  <2> QED BY <1>4, <1>7, <2>1
<1>9. e \in Inums /\ (nlink[e] # 0 \/ e \in Uses(p))
  <2>1. CASE a.abs
    BY <1>e, <2>1, Linked, Consts
  <2>2. CASE ~a.abs
    <3>1. cwd[p] \in Uses(p)
      BY <1>3, <1>4, UsesFacts DEF FsInv, Local
    <3> QED BY <1>5, <1>e, <2>2, <3>1
  <2> QED BY <2>1, <2>2
<1>10. Frame(p)
  BY <1>2, <1>7 DEF Frame
<1>11. "linkParent" # "link" /\ "linkParent" # "create" /\ "linkParent" \in Targets
  BY DEF Targets
<1>12. LookOK(p, "linkParent")'
  BY <1>2, <1>5, <1>6, <1>7, <1>11 DEF LookOK, Inums
<1>13. /\ "namex" \in Looking /\ "namex" \in CurAt
       /\ "namex" \notin IpAt /\ "namex" \notin LocksCur /\ "namex" \notin LocksIp
       /\ "namex" \notin LinkAt /\ "namex" # "unlinkCount" /\ "namex" # "chdirDone"
       /\ "namex" \notin {"namexLocked", "namexNext"} /\ "namex" # "namexNext"
  BY DEF Looking, CurAt, IpAt, LocksCur, LocksIp, LinkAt
<1>14. Local(p)' /\ Where(p)' = "namex" /\ Linking(p)'
  <2>1. put'[p] = NONE /\ next'[p] = NONE
    BY <1>2, <1>4
  <2> QED BY <1>7, <1>8, <1>9, <1>11, <1>12, <1>13, <2>1, LookLocal
<1>15. MovesGains(p, "cur", "ip", "cur", e)
  <2>1. Holding(p, "cur") = c /\ Holding(p, "cur")' = e
    BY <1>3, <1>4, <1>7, <1>c, <1>13, <1>14 DEF Holding
  <2>2. Holding(p, "ip") = NONE /\ Holding(p, "ip")' = c
    BY <1>3, <1>4, <1>7, <1>14 DEF Holding
  <2>3. \A t \in Roles \ {"cur", "ip", "cur"} : Holding(p, t)' = Holding(p, t)
    BY <1>2, <1>3, <1>4, <1>13, <1>14 DEF Holding, Roles
  <2> QED BY <2>1, <2>2, <2>3 DEF MovesGains
<1>16. ref' = [ref EXCEPT ![e] = @ + 1] /\ valid' = valid
  BY <1>2, <1>7 DEF iget
<1>17. /\ pc'[p] # "iputFree" /\ pc'[p] # "iputDrop" /\ "cur" \in Roles /\ "ip" \in Roles
       /\ "cur" # "ip"
  BY <1>7 DEF Roles
<1>18. RefsExact' /\ Uses(p)' = Uses(p) \cup {e}
  BY <1>3, <1>9, <1>10, <1>15, <1>16, <1>17, MovesGainsCounts
<1>19. CacheOK'
  <2>1. ref' \in [Inums -> Nat] /\ lock' \in [Inums -> Procs \cup {NONE}]
    <3>1. ref' \in [Inums -> Nat]
      BY <1>2, <1>5, <1>9, <1>16, CountUp DEF CacheOK
    <3> QED BY <1>2, <1>5, <1>16, <3>1 DEF CacheOK
  <2> QED BY <1>2, <1>5, <1>7, <1>16, <2>1 DEF CacheOK, Inums
<1>20. DiskType'
  <2>1. nlink' \in [Inums -> Nat]
    <3>1. nlink \in [Inums -> Nat]
      BY DEF FsInv, DiskType, DiskOK
    <3>2. nlink' = [nlink EXCEPT ![c] = @ + 1] /\ c \in Inums
      BY <1>2, <1>5
    <3> QED BY <3>1, <3>2, SMT
  <2> QED BY <1>2, <1>19, <2>1 DEF FsInv, DiskType, DiskOK, Inums
<1>21. Locked(p, c) /\ lock[c] = p
  <2>1. Locked(p, c)
    BY <1>3, <1>4, <1>c DEF Locked
  <2> QED BY <1>5, <2>1 DEF FsInv, LocksExact
<1>22. LocksExact'
  <2>1. \A i \in Inums : Locked(p, i)' <=> Locked(p, i) /\ i # c
    BY <1>3, <1>4, <1>c, <1>13, <1>14, <1>17 DEF Locked
  <2> QED BY <1>2, <1>5, <1>10, <1>21, <2>1, LocksDropped
<1>23. CacheStep(p)
  <2>1. \A i \in Inums : lock'[i] # NONE => lock[i] # NONE
    BY <1>2, <1>5 DEF CacheOK
  <2> QED BY <1>16, <2>1 DEF CacheStep
<1>24. nlink'[c] = nlink[c] + 1 /\ \A i \in Inums \ {c} : nlink'[i] = nlink[i]
  BY <1>2, <1>5 DEF FsInv, DiskType, DiskOK
<1>25. /\ \A i \in Inums : Naming(i)' = Naming(i) /\ Subdirs(i)' = Subdirs(i)
       /\ Tree'
  BY <1>2, <1>5, <1>24, NamesKept
<1>26. ~Counted(p) /\ Counted(p)'
  BY <1>3, <1>4, <1>14 DEF Counted
<1>27. /\ Cardinality(Pending(c)') = Cardinality(Pending(c)) + 1
       /\ \A i \in Inums \ {c} : Pending(i)' = Pending(i)
  BY <1>7, <1>10, <1>26, PendingGains
<1>28. LinksOwed'
  <2>1. ASSUME NEW i \in Inums
        PROVE  Cardinality(Naming(i)') + Cardinality(Subdirs(i)') + Cardinality(Pending(i)')
                 + (IF i = ROOTINO THEN 1 ELSE 0) <= nlink'[i]
    <3>1. Cardinality(Naming(i)) + Cardinality(Subdirs(i)) + Cardinality(Pending(i))
            + (IF i = ROOTINO THEN 1 ELSE 0) <= nlink[i] /\ nlink[i] \in Nat
      BY Linked DEF FsInv, LinksOwed
    <3>2. CASE i = c
      BY <1>24, <1>25, <1>27, <3>1, <3>2, Finite, SMTT(30)
    <3>3. CASE i # c
      BY <1>24, <1>25, <1>27, <3>1, <3>3
    <3> QED BY <3>2, <3>3
  <2> QED BY <2>1 DEF LinksOwed, ROOTINO, Inums
<1>29. \A i \in Inums : nlink'[i] # nlink[i] \/ ent'[i] # ent[i] => lock[i] = p
  BY <1>2, <1>21, <1>24
<1>30. Uses(p) \subseteq Uses(p)' /\ \A i \in Uses(p)' : i \in Uses(p) \/ nlink[i] # 0
  BY <1>9, <1>18
<1> QED BY <1>2, <1>3, <1>10, <1>14, <1>16, <1>17, <1>18, <1>20, <1>22, <1>23, <1>25, <1>28, <1>29,
           <1>30, DiskStep

(* Only the entry n of the directory d changes.                            *)
OnlyEntry(d, n) ==
  \A k \in Inums : \A m \in Names : k # d \/ m # n => ent'[k][m] = ent[k][m]

Wrote(d, n, v) ==
  /\ ent' \in [Inums -> [Names \cup Dots -> Inums \cup {NONE}]]
  /\ ent'[d][n] = v /\ \A k \in Inums \ {d} : ent'[k] = ent[k]
  /\ \A m \in Names \cup Dots : m # n => ent'[d][m] = ent[d][m]
  /\ OnlyEntry(d, n) /\ \A k \in Inums : ent'[k][".."] = ent[k][".."]

Entered(d, n, i) ==
  /\ Naming(i)' = Naming(i) \cup {<<d, n>>}
  /\ Cardinality(Naming(i)') = Cardinality(Naming(i)) + 1
  /\ \A j \in Inums \ {i} : Naming(j)' = Naming(j)

Removed(d, n, i) ==
  /\ Naming(i)' = Naming(i) \ {<<d, n>>} /\ <<d, n>> \in Naming(i)
  /\ Cardinality(Naming(i)') = Cardinality(Naming(i)) - 1
  /\ \A j \in Inums \ {i} : Naming(j)' = Naming(j)

(* An entry of a directory is written.                                     *)
LEMMA EntSet ==
  ASSUME FsInv, NEW d \in Inums, NEW n \in Names, NEW v \in Inums \cup {NONE}, link(d, n, v)
  PROVE  Wrote(d, n, v)
<1>0. ent' = [ent EXCEPT ![d][n] = v]
  BY DEF link
<1>1. ent \in [Inums -> [Names \cup Dots -> Inums \cup {NONE}]]
  BY DEF FsInv, DiskType, DiskOK
<1>2. ent' \in [Inums -> [Names \cup Dots -> Inums \cup {NONE}]]
  BY <1>0, <1>1
<1>3. ent'[d][n] = v /\ \A k \in Inums \ {d} : ent'[k] = ent[k]
  BY <1>0, <1>1
<1>4. \A m \in Names \cup Dots : m # n => ent'[d][m] = ent[d][m]
  BY <1>0, <1>1
<1>5. OnlyEntry(d, n)
  BY <1>3, <1>4 DEF OnlyEntry
<1>6. ".." \in Names \cup Dots /\ ".." # n
  BY FsAssumption DEF Dots
<1>7. \A k \in Inums : ent'[k][".."] = ent[k][".."]
  BY <1>3, <1>4, <1>6
<1> QED BY <1>2, <1>3, <1>4, <1>5, <1>7 DEF Wrote

(* A name is entered in the directory d.                                   *)
LEMMA NamingAdds ==
  ASSUME FiniteFacts, dtype' = dtype, NEW d \in Inums, Allocated(d), NEW n \in Names, NEW i \in Inums,
         ent[d][n] = NONE, ent'[d][n] = i,
         OnlyEntry(d, n)
  PROVE  Entered(d, n, i)
<1>1. i # NONE /\ <<d, n>> \in Inums \X Names /\ <<d, n>>[1] = d /\ <<d, n>>[2] = n
  BY Consts
<1>2. \A x \in Inums \X Names : /\ x[1] \in Inums /\ x[2] \in Names
                                /\ x # <<d, n>> => x[1] # d \/ x[2] # n
  BY SMT
<1>3. \A x \in Inums \X Names : x # <<d, n>> => ent'[x[1]][x[2]] = ent[x[1]][x[2]]
  BY <1>2 DEF OnlyEntry
<1>4. \A x \in Inums \X Names : x \in Naming(i)' <=> (x \in Naming(i) \/ x = <<d, n>>)
  BY <1>1, <1>3 DEF Naming, Allocated, Inums
<1>5. \A j \in Inums : Naming(j) \subseteq Inums \X Names /\ Naming(j)' \subseteq Inums \X Names
  BY DEF Naming, Inums
<1>6. Naming(i)' = Naming(i) \cup {<<d, n>>} /\ <<d, n>> \notin Naming(i)
  <2>1. Naming(i)' = Naming(i) \cup {<<d, n>>}
    BY <1>1, <1>4, <1>5
  <2>2. <<d, n>> \notin Naming(i)
    BY <1>1 DEF Naming
  <2> QED BY <2>1, <2>2
<1>7. Cardinality(Naming(i) \cup {<<d, n>>}) = Cardinality(Naming(i)) + 1
  BY <1>6, Finite, FinAdd
<1>8. \A j \in Inums \ {i} : \A x \in Inums \X Names : x \in Naming(j)' <=> x \in Naming(j)
  <2>1. \A j \in Inums \ {i} : <<d, n>> \notin Naming(j) /\ <<d, n>> \notin Naming(j)'
    <3>1. \A j \in Inums : j # NONE
      BY Consts
    <3> QED BY <1>1, <3>1 DEF Naming
  <2>2. \A j \in Inums : \A x \in Inums \X Names : x # <<d, n>> => (x \in Naming(j)' <=> x \in Naming(j))
    BY <1>3 DEF Naming, Allocated, Inums
  <2>3. ASSUME NEW j \in Inums \ {i}, NEW x \in Inums \X Names
        PROVE  x \in Naming(j)' <=> x \in Naming(j)
    <3>1. CASE x = <<d, n>>
      BY <2>1, <3>1
    <3>2. CASE x # <<d, n>>
      BY <2>2, <3>2
    <3> QED BY <3>1, <3>2
  <2> QED BY <2>3
<1>9. \A j \in Inums \ {i} : Naming(j)' = Naming(j)
  BY <1>5, <1>8
<1> QED BY <1>6, <1>7, <1>9 DEF Entered

(* A name goes from the directory d.                                       *)
LEMMA NamingRemoves ==
  ASSUME FiniteFacts, dtype' = dtype, NEW d \in Inums, Allocated(d), NEW n \in Names, NEW i \in Inums,
         ent[d][n] = i, ent'[d][n] = NONE,
         OnlyEntry(d, n)
  PROVE  Removed(d, n, i)
<1>1. i # NONE /\ <<d, n>> \in Inums \X Names /\ <<d, n>>[1] = d /\ <<d, n>>[2] = n
  BY Consts
<1>2. \A x \in Inums \X Names : /\ x[1] \in Inums /\ x[2] \in Names
                                /\ x # <<d, n>> => x[1] # d \/ x[2] # n
  BY SMT
<1>3. \A x \in Inums \X Names : x # <<d, n>> => ent'[x[1]][x[2]] = ent[x[1]][x[2]]
  BY <1>2 DEF OnlyEntry
<1>4. \A x \in Inums \X Names : x # <<d, n>> => (x \in Naming(i)' <=> x \in Naming(i))
  BY <1>3 DEF Naming, Allocated, Inums
<1>5. \A j \in Inums : Naming(j) \subseteq Inums \X Names /\ Naming(j)' \subseteq Inums \X Names
  BY DEF Naming, Inums
<1>6. Naming(i)' = Naming(i) \ {<<d, n>>} /\ <<d, n>> \in Naming(i)
  <2>1. <<d, n>> \in Naming(i)
    BY <1>1 DEF Naming
  <2>2. <<d, n>> \notin Naming(i)'
    BY <1>1 DEF Naming
  <2>3. Naming(i)' = Naming(i) \ {<<d, n>>}
    BY <1>4, <1>5, <2>1, <2>2
  <2> QED BY <2>1, <2>3
<1>7. Cardinality(Naming(i) \ {<<d, n>>}) = Cardinality(Naming(i)) - 1
  BY <1>6, Finite, FinRemove
<1>8. \A j \in Inums \ {i} : \A x \in Inums \X Names : x \in Naming(j)' <=> x \in Naming(j)
  <2>1. \A j \in Inums \ {i} : <<d, n>> \notin Naming(j) /\ <<d, n>> \notin Naming(j)'
    <3>1. \A j \in Inums : j # NONE
      BY Consts
    <3> QED BY <1>1, <3>1 DEF Naming
  <2>2. \A j \in Inums : \A x \in Inums \X Names : x # <<d, n>> => (x \in Naming(j)' <=> x \in Naming(j))
    BY <1>3 DEF Naming, Allocated, Inums
  <2>3. ASSUME NEW j \in Inums \ {i}, NEW x \in Inums \X Names
        PROVE  x \in Naming(j)' <=> x \in Naming(j)
    <3>1. CASE x = <<d, n>>
      BY <2>1, <3>1
    <3>2. CASE x # <<d, n>>
      BY <2>2, <3>2
    <3> QED BY <3>1, <3>2
  <2> QED BY <2>3
<1>9. \A j \in Inums \ {i} : Naming(j)' = Naming(j)
  BY <1>5, <1>8
<1> QED BY <1>6, <1>7, <1>9 DEF Removed

(* dirlink enters the name sys_link counted.                               *)
LEMMA linkEntryKeeps ==
  ASSUME FiniteFacts, FsInv, NEW p \in Procs, pc[p] = "linkParentLocked",
         ent[cur[p]][path[p][1]] = NONE, link(cur[p], path[p][1], ip[p]),
         iunlockputThen(p, cur[p], "linkPut"),
         UNCHANGED <<dtype, nlink, cwd, file, bad, regs, panic, crossed>>
  PROVE  FsInv'
<1>e. PICK d, n, e : d = cur[p] /\ n = path[p][1] /\ e = ip[p]
  OBVIOUS
<1>1. /\ iunlockputThen(p, cur[p], "linkPut") /\ UNCHANGED <<cwd, file, bad, regs, panic>>
      /\ crossed' = crossed /\ dtype' = dtype /\ nlink' = nlink
      /\ link(d, n, e) /\ ent[d][n] = NONE
  BY <1>e
<1>2. /\ Frame(p) /\ RefsExact' /\ Uses(p)' = Uses(p) /\ LocksExact' /\ Local(p)'
      /\ CacheOK' /\ CacheStep(p) /\ pc'[p] = "iput" /\ Where(p)' = "linkPut" /\ ~Linking(p)'
      /\ Where(p) = pc[p] /\ ~Linking(p) /\ pc[p] \notin InPut /\ d \in Inums
      /\ Locked(p, d) /\ UNCHANGED <<ref, valid, cur, ip, path, call>>
  <2>1. PutsCur(pc[p], "linkPut")
    BY PutPairs
  <2> QED BY <1>1, <1>e, <2>1, PutsCurStep
<1>3. Counted(p) /\ ~Counted(p)' /\ pc[p] # "createNew" /\ pc'[p] # "iputDrop" /\ valid' = valid
  BY <1>2 DEF Counted, LinkAt
<1>4. /\ n \in Names /\ e \in Inums /\ dtype[d] = "T_DIR" /\ dtype[e] # "T_DIR" /\ Allocated(d)
  <2>1. pc[p] \in CurAt /\ pc[p] \in IpAt /\ pc[p] \in ParentAt /\ pc[p] \in LinkAt
    BY DEF CurAt, IpAt, ParentAt, LinkAt
  <2> QED BY <1>2, <1>e, <2>1, BaseFacts
<1>5. /\ Cardinality(Pending(e)') = Cardinality(Pending(e)) - 1 /\ Pending(e) # {}
      /\ \A i \in Inums \ {e} : Pending(i)' = Pending(i)
  BY <1>2, <1>3, <1>e, PendingLoses
<1>w. Wrote(d, n, e)
  <2>1. e \in Inums \cup {NONE} /\ link(d, n, e) /\ d \in Inums /\ n \in Names
    BY <1>1, <1>2, <1>4
  <2> QED BY <2>1, EntSet
<1>6. /\ ent' \in [Inums -> [Names \cup Dots -> Inums \cup {NONE}]]
      /\ ent'[d][n] = e /\ (\A k \in Inums \ {d} : ent'[k] = ent[k])
      /\ OnlyEntry(d, n) /\ \A k \in Inums : ent'[k][".."] = ent[k][".."]
  BY <1>w DEF Wrote
<1>7. /\ Naming(e)' = Naming(e) \cup {<<d, n>>}
      /\ Cardinality(Naming(e)') = Cardinality(Naming(e)) + 1
      /\ \A j \in Inums \ {e} : Naming(j)' = Naming(j)
  <2>1. /\ dtype' = dtype /\ d \in Inums /\ Allocated(d) /\ n \in Names /\ e \in Inums
        /\ ent[d][n] = NONE /\ ent'[d][n] = e /\ OnlyEntry(d, n)
    BY <1>1, <1>2, <1>4, <1>6
  <2>2. Entered(d, n, e)
    BY <2>1, NamingAdds
  <2> QED BY <2>2 DEF Entered
<1>8. Tree
  BY DEF FsInv
<1>9. \A j \in Inums : Subdirs(j)' = Subdirs(j)
  <2>1. ent[e][".."] = NONE
    <3>1. ".." \in Names \cup Dots
      BY DEF Dots
    <3> QED BY <1>4, <1>8, <3>1 DEF Tree, IsDir
  <2>2. \A j \in Inums : j # NONE
    BY Consts
  <2>3. ASSUME NEW j \in Inums, NEW i \in Inums
        PROVE  (Naming(i)' # {} /\ ent'[i][".."] = j) <=> (Naming(i) # {} /\ ent[i][".."] = j)
    <3>1. CASE i = e
      <4>1. ent[i][".."] # j /\ ent'[i][".."] # j
        BY <1>4, <1>6, <2>1, <2>2, <3>1
      <4> QED BY <4>1
    <3>2. CASE i # e
      BY <1>6, <1>7, <3>2
    <3> QED BY <3>1, <3>2
  <2> QED BY <2>3 DEF Subdirs, Inums, ROOTINO
<1>10. Tree'
  <2>1. IsDir(ROOTINO)' /\ Naming(ROOTINO)' = {}
    <3>1. ROOTINO \in Inums \ {e} /\ IsDir(ROOTINO) /\ Naming(ROOTINO) = {}
      BY <1>4, <1>8, Consts DEF Tree, IsDir
    <3> QED BY <1>1, <1>7, <3>1 DEF IsDir, ROOTINO
  <2>2. \A i \in Inums : IsDir(i)' => \A x, y \in Naming(i)' : x = y /\ ent'[i][".."] = x[1]
    <3>1. \A i \in Inums : IsDir(i)' => IsDir(i) /\ Naming(i)' = Naming(i)
      BY <1>1, <1>4, <1>7 DEF IsDir
    <3>2. ASSUME NEW i \in Inums, IsDir(i)', NEW x \in Naming(i)', NEW y \in Naming(i)'
          PROVE  x = y /\ ent'[i][".."] = x[1]
      <4>1. IsDir(i) /\ x \in Naming(i) /\ y \in Naming(i)
        BY <3>1, <3>2
      <4>2. x = y /\ ent[i][".."] = x[1]
        BY <1>8, <4>1 DEF Tree
      <4> QED BY <1>6, <4>2
    <3> QED BY <3>2
  <2>3. ASSUME NEW i \in Inums, ~IsDir(i)', NEW m \in Names \cup Dots PROVE ent'[i][m] = NONE
    <3>1. ~IsDir(i) /\ i # d
      BY <1>1, <1>4, <2>3 DEF IsDir
    <3>2. ent[i][m] = NONE
      BY <1>8, <3>1 DEF Tree
    <3> QED BY <1>6, <3>1, <3>2
  <2>4. \A i \in Inums : ~Allocated(i)' => nlink'[i] = 0
    BY <1>1, <1>8 DEF Tree, Allocated
  <2> QED BY <2>1, <2>2, <2>3, <2>4 DEF Tree, Inums, Dots, ROOTINO
<1>11. LinksOwed'
  <2>1. ASSUME NEW i \in Inums
        PROVE  Cardinality(Naming(i)') + Cardinality(Subdirs(i)') + Cardinality(Pending(i)')
                 + (IF i = ROOTINO THEN 1 ELSE 0) <= nlink'[i]
    <3>1. Cardinality(Naming(i)) + Cardinality(Subdirs(i)) + Cardinality(Pending(i))
            + (IF i = ROOTINO THEN 1 ELSE 0) <= nlink[i] /\ nlink[i] \in Nat /\ nlink'[i] = nlink[i]
      BY <1>1, Linked DEF FsInv, LinksOwed
    <3>2. CASE i = e
      <4>1. /\ Cardinality(Naming(i)') = Cardinality(Naming(i)) + 1
            /\ Cardinality(Subdirs(i)') = Cardinality(Subdirs(i))
            /\ Cardinality(Pending(i)') = Cardinality(Pending(i)) - 1
        BY <1>5, <1>7, <1>9, <3>2
      <4> QED BY <3>1, <4>1, Finite, SMTT(30)
    <3>3. CASE i # e
      BY <1>5, <1>7, <1>9, <3>1, <3>3
    <3> QED BY <3>2, <3>3
  <2> QED BY <2>1 DEF LinksOwed, ROOTINO, Inums
<1>12. \A i \in Inums : nlink'[i] # nlink[i] \/ ent'[i] # ent[i] => lock[i] = p
  <2>1. lock[d] = p
    BY <1>2 DEF FsInv, LocksExact
  <2> QED BY <1>1, <1>6, <2>1
<1>13. Uses(p) \subseteq Uses(p)' /\ \A i \in Uses(p)' : i \in Uses(p) \/ nlink[i] # 0
  BY <1>2
<1>14. DiskType'
  BY <1>1, <1>2, <1>6 DEF FsInv, DiskType, DiskOK, Inums, Dots
<1> QED BY <1>1, <1>2, <1>3, <1>10, <1>11, <1>12, <1>13, <1>14, DiskStep

(* A directory loses its name, and the directory of the name its "..".     *)
LEMMA SubdirLoses ==
  ASSUME FiniteFacts, FsInv, NEW d \in Inums, NEW n \in Names, NEW e \in Inums, Removed(d, n, e),
         \A k \in Inums : ent'[k][".."] = ent[k][".."], IsDir(e)
  PROVE  /\ Cardinality(Subdirs(d)') = Cardinality(Subdirs(d)) - 1 /\ Subdirs(d) # {}
         /\ Naming(e)' = {} /\ \A j \in Inums \ {d} : Subdirs(j)' = Subdirs(j)
<1>1. /\ Naming(e)' = Naming(e) \ {<<d, n>>} /\ <<d, n>> \in Naming(e)
      /\ \A j \in Inums \ {e} : Naming(j)' = Naming(j)
  BY DEF Removed
<1>2. Tree
  BY DEF FsInv
<1>3. \A x \in Naming(e) : x = <<d, n>>
  BY <1>1, <1>2 DEF Tree
<1>4. Naming(e)' = {}
  BY <1>1, <1>3
<1>5. ent[e][".."] = <<d, n>>[1]
  BY <1>1, <1>2 DEF Tree
<1>6. ent[e][".."] = d /\ ent'[e][".."] = d
  BY <1>5
<1>7. e # ROOTINO
  BY <1>1, <1>2 DEF Tree
<1>8. \A j \in Inums : \A i \in Inums \ {e} : i \in Subdirs(j)' <=> i \in Subdirs(j)
  BY <1>1 DEF Subdirs, Inums, ROOTINO
<1>9. e \in Subdirs(d) /\ (\A j \in Inums : e \notin Subdirs(j)')
      /\ \A j \in Inums \ {d} : e \notin Subdirs(j)
  BY <1>1, <1>4, <1>6, <1>7 DEF Subdirs
<1>10. \A j \in Inums : Subdirs(j) \subseteq Inums /\ Subdirs(j)' \subseteq Inums
  BY DEF Subdirs, Inums
<1>11. Subdirs(d)' = Subdirs(d) \ {e}
  BY <1>8, <1>9, <1>10
<1>12. Cardinality(Subdirs(d) \ {e}) = Cardinality(Subdirs(d)) - 1
  BY <1>9, Finite, FinRemove
<1>13. ASSUME NEW j \in Inums \ {d} PROVE Subdirs(j)' = Subdirs(j)
  <2>1. \A i \in Inums : i \in Subdirs(j)' <=> i \in Subdirs(j)
    BY <1>8, <1>9
  <2> QED BY <1>10, <2>1
<1> QED BY <1>4, <1>9, <1>11, <1>12, <1>13

(* What is not a directory is no subdirectory.                             *)
LEMMA SubdirsKept ==
  ASSUME FsInv, NEW e \in Inums, ~IsDir(e), \A j \in Inums \ {e} : Naming(j)' = Naming(j),
         \A k \in Inums : ent'[k][".."] = ent[k][".."]
  PROVE  \A j \in Inums : Subdirs(j)' = Subdirs(j)
<1>1. ent[e][".."] = NONE
  <2>1. ".." \in Names \cup Dots
    BY DEF Dots
  <2> QED BY <2>1 DEF FsInv, Tree
<1>2. \A j \in Inums : j # NONE
  BY Consts
<1>3. ASSUME NEW j \in Inums, NEW i \in Inums
      PROVE  (Naming(i)' # {} /\ ent'[i][".."] = j) <=> (Naming(i) # {} /\ ent[i][".."] = j)
  <2>1. CASE i = e
    <3>1. ent[i][".."] # j /\ ent'[i][".."] # j
      BY <1>1, <1>2, <2>1
    <3> QED BY <3>1
  <2>2. CASE i # e
    BY <2>2
  <2> QED BY <2>1, <2>2
<1> QED BY <1>3 DEF Subdirs, Inums, ROOTINO

(* sys_unlink clears the entry.                                            *)
LEMMA unlinkEntryKeeps ==
  ASSUME FiniteFacts, FsInv, NEW p \in Procs, pc[p] = "unlinkIpLocked", link(cur[p], path[p][1], NONE),
         nlink' = IF IsDir(ip[p]) THEN [nlink EXCEPT ![cur[p]] = @ - 1] ELSE nlink,
         unlocks(p, cur[p], "unlinkCount"), UNCHANGED dtype
  PROVE  FsInv'
<1>e. PICK d, n, e : d = cur[p] /\ n = path[p][1] /\ e = ip[p]
  OBVIOUS
<1>1. /\ iunlockputThen(p, cur[p], "unlinkCount") /\ UNCHANGED <<cwd, file, bad, regs, panic>>
      /\ crossed' = crossed /\ dtype' = dtype /\ link(d, n, NONE)
      /\ nlink' = IF dtype[e] = "T_DIR" THEN [nlink EXCEPT ![d] = @ - 1] ELSE nlink
  BY <1>e DEF unlocks, IsDir
<1>2. /\ Frame(p) /\ RefsExact' /\ Uses(p)' = Uses(p) /\ LocksExact' /\ Local(p)'
      /\ CacheOK' /\ CacheStep(p) /\ pc'[p] = "iput" /\ Where(p)' = "unlinkCount" /\ ~Linking(p)'
      /\ Where(p) = pc[p] /\ ~Linking(p) /\ pc[p] \notin InPut /\ d \in Inums
      /\ Locked(p, d) /\ UNCHANGED <<ref, valid, cur, ip, path, call>>
  <2>1. PutsCur(pc[p], "unlinkCount")
    BY PutPairs
  <2> QED BY <1>1, <1>e, <2>1, PutsCurStep
<1>3. /\ ~Counted(p) /\ Counted(p)' /\ pc[p] # "createNew" /\ pc'[p] # "iputDrop"
      /\ valid' = valid /\ ip'[p] = e
  <2>1. "unlinkIpLocked" \notin LinkAt \cup {"unlinkCount"} /\ "unlinkCount" \in LinkAt \cup {"unlinkCount"}
    BY DEF LinkAt
  <2> QED BY <1>2, <1>e, <2>1 DEF Counted
<1>4. /\ n \in Names /\ e \in Inums /\ dtype[d] = "T_DIR" /\ Allocated(d)
  <2>1. pc[p] \in CurAt /\ pc[p] \in IpAt /\ pc[p] \in ParentAt
    BY DEF CurAt, IpAt, ParentAt
  <2> QED BY <1>2, <1>e, <2>1, BaseFacts
<1>s. ent[d][n] = e /\ e # d
  <2>1. Seen(p)
    BY DEF FsInv, Local
  <2> QED BY <1>2, <1>e, <2>1 DEF Seen, Name
<1>5. /\ Cardinality(Pending(e)') = Cardinality(Pending(e)) + 1
      /\ \A i \in Inums \ {e} : Pending(i)' = Pending(i)
  BY <1>2, <1>3, PendingGains
<1>w. Wrote(d, n, NONE)
  <2>1. NONE \in Inums \cup {NONE} /\ link(d, n, NONE) /\ d \in Inums /\ n \in Names
    BY <1>1, <1>2, <1>4
  <2> QED BY <2>1, EntSet
<1>6. /\ ent' \in [Inums -> [Names \cup Dots -> Inums \cup {NONE}]]
      /\ ent'[d][n] = NONE /\ (\A k \in Inums \ {d} : ent'[k] = ent[k])
      /\ OnlyEntry(d, n) /\ \A k \in Inums : ent'[k][".."] = ent[k][".."]
  BY <1>w DEF Wrote
<1>r. Removed(d, n, e)
  <2>1. /\ dtype' = dtype /\ d \in Inums /\ Allocated(d) /\ n \in Names /\ e \in Inums
        /\ ent[d][n] = e /\ ent'[d][n] = NONE /\ OnlyEntry(d, n)
    BY <1>1, <1>2, <1>4, <1>6, <1>s
  <2> QED BY <2>1, NamingRemoves
<1>7. /\ Naming(e)' = Naming(e) \ {<<d, n>>} /\ <<d, n>> \in Naming(e)
      /\ Cardinality(Naming(e)') = Cardinality(Naming(e)) - 1
      /\ \A j \in Inums \ {e} : Naming(j)' = Naming(j)
  BY <1>r DEF Removed
<1>8. Tree /\ e # ROOTINO
  <2>1. Tree
    BY DEF FsInv
  <2> QED BY <1>7, <2>1 DEF Tree
<1>9. IsDir(e) => /\ Cardinality(Subdirs(d)') = Cardinality(Subdirs(d)) - 1 /\ Subdirs(d) # {}
                  /\ \A j \in Inums \ {d} : Subdirs(j)' = Subdirs(j)
  <2>1. d \in Inums /\ n \in Names /\ e \in Inums /\ Removed(d, n, e)
        /\ \A k \in Inums : ent'[k][".."] = ent[k][".."]
    BY <1>2, <1>4, <1>6, <1>r
  <2> QED BY <2>1, SubdirLoses
<1>10. ~IsDir(e) => \A j \in Inums : Subdirs(j)' = Subdirs(j)
  BY <1>4, <1>6, <1>7, SubdirsKept
<1>11. /\ IsDir(e) => nlink'[d] = nlink[d] - 1 /\ nlink[d] # 0
       /\ ~IsDir(e) => nlink'[d] = nlink[d]
       /\ \A i \in Inums \ {d} : nlink'[i] = nlink[i]
       /\ nlink[d] \in Nat /\ nlink' \in [Inums -> Nat]
  <2>1. nlink \in [Inums -> Nat]
    BY DEF FsInv, DiskType, DiskOK
  <2>2. CASE IsDir(e)
    <3>1. nlink[d] \in Nat /\ nlink[d] # 0
      BY <1>2, <1>9, <2>2, Linked
    <3>2. nlink' = [nlink EXCEPT ![d] = @ - 1]
      BY <1>1, <2>2 DEF IsDir
    <3>3. nlink[d] - 1 \in Nat
      BY <3>1, SMT
    <3>4. nlink'[d] = nlink[d] - 1 /\ \A i \in Inums \ {d} : nlink'[i] = nlink[i]
      BY <1>2, <2>1, <3>2
    <3>5. nlink' \in [Inums -> Nat]
      BY <1>2, <2>1, <3>2, <3>3
    <3> QED BY <2>2, <3>1, <3>4, <3>5
  <2>3. CASE ~IsDir(e)
    <3>1. nlink' = nlink
      BY <1>1, <2>3 DEF IsDir
    <3> QED BY <1>2, <2>1, <2>3, <3>1
  <2> QED BY <2>2, <2>3
<1>12. Tree'
  <2>1. IsDir(ROOTINO)' /\ Naming(ROOTINO)' = {}
    <3>1. ROOTINO \in Inums \ {e} /\ IsDir(ROOTINO) /\ Naming(ROOTINO) = {}
      BY <1>8, Consts DEF Tree
    <3> QED BY <1>1, <1>7, <3>1 DEF IsDir, ROOTINO
  <2>2. ASSUME NEW i \in Inums, IsDir(i)', NEW x \in Naming(i)', NEW y \in Naming(i)'
        PROVE  x = y /\ ent'[i][".."] = x[1]
    <3>1. IsDir(i) /\ x \in Naming(i) /\ y \in Naming(i)
      <4>1. Naming(i)' \subseteq Naming(i)
        BY <1>7
      <4> QED BY <1>1, <2>2, <4>1 DEF IsDir
    <3>2. x = y /\ ent[i][".."] = x[1]
      BY <1>8, <3>1 DEF Tree
    <3> QED BY <1>6, <3>2
  <2>3. ASSUME NEW i \in Inums, ~IsDir(i)', NEW m \in Names \cup Dots PROVE ent'[i][m] = NONE
    <3>1. ~IsDir(i) /\ i # d
      BY <1>1, <1>4, <2>3 DEF IsDir
    <3>2. ent[i][m] = NONE
      BY <1>8, <3>1 DEF Tree
    <3> QED BY <1>6, <3>1, <3>2
  <2>4. \A i \in Inums : ~Allocated(i)' => nlink'[i] = 0
    <3>1. ASSUME NEW i \in Inums, ~Allocated(i)' PROVE nlink'[i] = 0
      <4>1. ~Allocated(i)
        BY <1>1, <3>1 DEF Allocated
      <4>2. i # d /\ nlink[i] = 0
        BY <1>4, <1>8, <4>1 DEF Tree
      <4> QED BY <1>11, <4>2
    <3> QED BY <3>1
  <2> QED BY <2>1, <2>2, <2>3, <2>4 DEF Tree, Inums, Dots, ROOTINO
<1>13. LinksOwed'
  <2>1. ASSUME NEW i \in Inums
        PROVE  Cardinality(Naming(i)') + Cardinality(Subdirs(i)') + Cardinality(Pending(i)')
                 + (IF i = ROOTINO THEN 1 ELSE 0) <= nlink'[i]
    <3>1. Cardinality(Naming(i)) + Cardinality(Subdirs(i)) + Cardinality(Pending(i))
            + (IF i = ROOTINO THEN 1 ELSE 0) <= nlink[i] /\ nlink[i] \in Nat
      BY Linked DEF FsInv, LinksOwed
    <3>2. CASE i = e
      <4>1. /\ Cardinality(Naming(i)') = Cardinality(Naming(i)) - 1
            /\ Cardinality(Subdirs(i)') = Cardinality(Subdirs(i))
            /\ Cardinality(Pending(i)') = Cardinality(Pending(i)) + 1 /\ nlink'[i] = nlink[i]
        BY <1>5, <1>7, <1>9, <1>10, <1>11, <1>s, <3>2
      <4> QED BY <3>1, <4>1, Finite, SMTT(30)
    <3>3. CASE i = d /\ IsDir(e)
      <4>1. /\ Cardinality(Naming(i)') = Cardinality(Naming(i))
            /\ Cardinality(Subdirs(i)') = Cardinality(Subdirs(i)) - 1
            /\ Cardinality(Pending(i)') = Cardinality(Pending(i)) /\ nlink'[i] = nlink[i] - 1
        BY <1>5, <1>7, <1>9, <1>11, <1>s, <3>3
      <4> QED BY <3>1, <4>1, Finite, SMTT(30)
    <3>4. CASE i # e /\ ~(i = d /\ IsDir(e))
      <4>1. /\ Naming(i)' = Naming(i) /\ Subdirs(i)' = Subdirs(i) /\ Pending(i)' = Pending(i)
            /\ nlink'[i] = nlink[i]
        BY <1>5, <1>7, <1>9, <1>10, <1>11, <3>4
      <4> QED BY <3>1, <4>1
    <3> QED BY <3>2, <3>3, <3>4
  <2> QED BY <2>1 DEF LinksOwed, ROOTINO, Inums
<1>14. \A i \in Inums : nlink'[i] # nlink[i] \/ ent'[i] # ent[i] => lock[i] = p
  <2>1. lock[d] = p
    BY <1>2 DEF FsInv, LocksExact
  <2> QED BY <1>6, <1>11, <2>1
<1>15. Uses(p) \subseteq Uses(p)' /\ \A i \in Uses(p)' : i \in Uses(p) \/ nlink[i] # 0
  BY <1>2
<1>16. DiskType'
  BY <1>1, <1>2, <1>6, <1>11 DEF FsInv, DiskType, DiskOK, Inums, Dots
<1> QED BY <1>1, <1>2, <1>3, <1>12, <1>13, <1>14, <1>15, <1>16, DiskStep

(* What create writes in the directory d and in the new i-node i.          *)
Made(d, n, i, dir) ==
  /\ ent' \in [Inums -> [Names \cup Dots -> Inums \cup {NONE}]]
  /\ ent'[d][n] = i /\ OnlyEntry(d, n)
  /\ ent'[i][".."] = IF dir THEN d ELSE NONE
  /\ \A k \in Inums \ {i} : ent'[k][".."] = ent[k][".."]
  /\ \A k \in Inums \ {d, i} : ent'[k] = ent[k]
  /\ ~dir => \A m \in Names \cup Dots : ent'[i][m] = NONE

(* g is f with the entry n of d written.                                   *)
Written(f, g, d, n, v) ==
  /\ g \in [Inums -> [Names \cup Dots -> Inums \cup {NONE}]]
  /\ g[d][n] = v /\ \A k \in Inums : k # d => g[k] = f[k]
  /\ \A k \in Inums, m \in Names \cup Dots : k # d \/ m # n => g[k][m] = f[k][m]

(* One entry of one directory is written.                                  *)
LEMMA Cell ==
  ASSUME NEW f \in [Inums -> [Names \cup Dots -> Inums \cup {NONE}]], NEW d \in Inums,
         NEW n \in Names \cup Dots, NEW v \in Inums \cup {NONE}, NEW g,
         g = [f EXCEPT ![d][n] = v]
  PROVE  Written(f, g, d, n, v)
<1>1. g \in [Inums -> [Names \cup Dots -> Inums \cup {NONE}]]
  OBVIOUS
<1>2. g[d][n] = v /\ \A k \in Inums : k # d => g[k] = f[k]
  OBVIOUS
<1>3. \A m \in Names \cup Dots : m # n => g[d][m] = f[d][m]
  OBVIOUS
<1> QED BY <1>1, <1>2, <1>3 DEF Written

(* The entries create writes: the name in d, "." and ".." in a directory.  *)
LEMMA EntMake ==
  ASSUME FsInv, NEW d \in Inums, NEW n \in Names, NEW i \in Inums, i # d, NEW dir \in BOOLEAN,
         \A m \in Names \cup Dots : ent[i][m] = NONE,
         ent' = [ent EXCEPT ![d][n] = i, ![i]["."] = IF dir THEN i ELSE NONE,
                            ![i][".."] = IF dir THEN d ELSE NONE]
  PROVE  Made(d, n, i, dir)
<1>0. PICK dot, up : dot = (IF dir THEN i ELSE NONE) /\ up = (IF dir THEN d ELSE NONE)
  OBVIOUS
<1>1. ent \in [Inums -> [Names \cup Dots -> Inums \cup {NONE}]]
  BY DEF FsInv, DiskType, DiskOK
<1>2. PICK u : u = [ent EXCEPT ![d][n] = i]
  OBVIOUS
<1>3. PICK v : v = [u EXCEPT ![i]["."] = dot]
  OBVIOUS
<1>4. ent' = [v EXCEPT ![i][".."] = up]
  BY <1>0, <1>2, <1>3
<1>5. "." \in Names \cup Dots /\ ".." \in Names \cup Dots /\ "." # ".." /\ "." \notin Names
      /\ ".." \notin Names /\ n \in Names \cup Dots
  BY FsAssumption DEF Dots
<1>6. dot \in Inums \cup {NONE} /\ up \in Inums \cup {NONE} /\ i \in Inums \cup {NONE}
  BY <1>0
<1>7. Written(ent, u, d, n, i)
  BY <1>1, <1>2, <1>5, <1>6, Cell
<1>8. u \in [Inums -> [Names \cup Dots -> Inums \cup {NONE}]]
  BY <1>7 DEF Written
<1>9. Written(u, v, i, ".", dot)
  BY <1>3, <1>5, <1>6, <1>8, Cell
<1>10. v \in [Inums -> [Names \cup Dots -> Inums \cup {NONE}]]
  BY <1>9 DEF Written
<1>11. Written(v, ent', i, "..", up)
  BY <1>4, <1>5, <1>6, <1>10, Cell
<1>12. ent'[d][n] = i /\ ent'[i]["."] = dot /\ ent'[i][".."] = up
  <2>1. ent'[d][n] = v[d][n] /\ v[d][n] = u[d][n] /\ u[d][n] = i
    BY <1>5, <1>7, <1>9, <1>11 DEF Written
  <2>2. ent'[i]["."] = v[i]["."] /\ v[i]["."] = dot
    BY <1>5, <1>9, <1>11 DEF Written
  <2> QED BY <1>11, <2>1, <2>2 DEF Written
<1>13. ASSUME NEW k \in Inums, NEW m \in Names \cup Dots, k # d \/ m # n,
              k # i \/ (m # "." /\ m # "..")
       PROVE  ent'[k][m] = ent[k][m]
  <2>1. ent'[k][m] = v[k][m]
    BY <1>11, <1>13 DEF Written
  <2>2. v[k][m] = u[k][m]
    BY <1>9, <1>13 DEF Written
  <2>3. u[k][m] = ent[k][m]
    BY <1>7, <1>13 DEF Written
  <2> QED BY <2>1, <2>2, <2>3
<1>14. \A k \in Inums \ {i} : ent'[k][".."] = ent[k][".."]
  BY <1>5, <1>13
<1>15. OnlyEntry(d, n)
  BY <1>5, <1>13 DEF OnlyEntry
<1>16. \A k \in Inums \ {d, i} : ent'[k] = ent[k]
  BY <1>7, <1>9, <1>11 DEF Written
<1>17. ASSUME ~dir, NEW m \in Names \cup Dots PROVE ent'[i][m] = NONE
  <2>1. m # "." /\ m # ".." => ent'[i][m] = NONE
    BY <1>13
  <2>2. ent'[i]["."] = NONE /\ ent'[i][".."] = NONE
    BY <1>0, <1>12, <1>17
  <2> QED BY <2>1, <2>2
<1>18. ent'[i][".."] = IF dir THEN d ELSE NONE
  BY <1>0, <1>12
<1>19. ent' \in [Inums -> [Names \cup Dots -> Inums \cup {NONE}]]
  BY <1>11 DEF Written
<1> QED BY <1>12, <1>14, <1>15, <1>16, <1>17, <1>18, <1>19 DEF Made

(* A new directory counts, by its "..", for the directory of its name.     *)
LEMMA SubdirGains ==
  ASSUME FiniteFacts, FsInv, NEW d \in Inums, NEW i \in Inums \ {ROOTINO}, Naming(i) = {},
         Naming(i)' # {}, \A j \in Inums \ {i} : Naming(j)' = Naming(j),
         \A k \in Inums \ {i} : ent'[k][".."] = ent[k][".."], ent'[i][".."] = d
  PROVE  /\ Cardinality(Subdirs(d)') = Cardinality(Subdirs(d)) + 1
         /\ \A j \in Inums \ {d} : Subdirs(j)' = Subdirs(j)
<1>1. \A j \in Inums : \A k \in Inums \ {i} : k \in Subdirs(j)' <=> k \in Subdirs(j)
  BY DEF Subdirs, Inums, ROOTINO
<1>2. i \in Subdirs(d)' /\ (\A j \in Inums : i \notin Subdirs(j))
      /\ \A j \in Inums \ {d} : i \notin Subdirs(j)'
  BY DEF Subdirs, Inums, ROOTINO
<1>3. \A j \in Inums : Subdirs(j) \subseteq Inums /\ Subdirs(j)' \subseteq Inums
  BY DEF Subdirs, Inums
<1>4. Subdirs(d)' = Subdirs(d) \cup {i}
  BY <1>1, <1>2, <1>3
<1>5. Cardinality(Subdirs(d) \cup {i}) = Cardinality(Subdirs(d)) + 1
  BY <1>2, Finite, FinAdd
<1>6. ASSUME NEW j \in Inums \ {d} PROVE Subdirs(j)' = Subdirs(j)
  <2>1. \A k \in Inums : k \in Subdirs(j)' <=> k \in Subdirs(j)
    BY <1>1, <1>2
  <2> QED BY <1>3, <2>1
<1> QED BY <1>4, <1>5, <1>6

(* create writes the new i-node and its name.                              *)
LEMMA createNewKeeps ==
  ASSUME FiniteFacts, FsInv, NEW p \in Procs, createNew(p)
  PROVE  FsInv'
<1>e. PICK d, n, i, dir : /\ d = cur[p] /\ n = path[p][1] /\ i = ip[p]
                          /\ dir = (call[p].type = "T_DIR") /\ dir \in BOOLEAN
  OBVIOUS
<1>1. /\ pc[p] = "createNewLocked" /\ iunlockputThen(p, cur[p], "created")
      /\ UNCHANGED <<cwd, file, bad, regs, panic>> /\ crossed' = crossed /\ dtype' = dtype
      /\ nlink' = [nlink EXCEPT ![i] = 1, ![d] = IF dir THEN @ + 1 ELSE @]
      /\ ent' = [ent EXCEPT ![d][n] = i, ![i]["."] = IF dir THEN i ELSE NONE,
                            ![i][".."] = IF dir THEN d ELSE NONE]
  BY <1>e DEF createNew, unlocks, At, Name
<1>2. /\ Frame(p) /\ RefsExact' /\ Uses(p)' = Uses(p) /\ LocksExact' /\ Local(p)'
      /\ CacheOK' /\ CacheStep(p) /\ pc'[p] = "iput" /\ Where(p)' = "created" /\ ~Linking(p)'
      /\ Where(p) = pc[p] /\ ~Linking(p) /\ pc[p] \notin InPut /\ d \in Inums
      /\ Locked(p, d) /\ UNCHANGED <<ref, valid, cur, ip, path, call>>
  <2>1. PutsCur(pc[p], "created")
    BY <1>1, PutPairs
  <2> QED BY <1>1, <1>e, <2>1, PutsCurStep
<1>3. /\ ~Counted(p) /\ ~Counted(p)' /\ pc[p] # "createNew" /\ pc'[p] # "iputDrop"
      /\ valid' = valid
  <2>1. "createNewLocked" \notin LinkAt \cup {"unlinkCount"} /\ "created" \notin LinkAt \cup {"unlinkCount"}
    BY DEF LinkAt
  <2> QED BY <1>1, <1>2, <2>1 DEF Counted
<1>4. /\ n \in Names /\ i \in Inums /\ dtype[d] = "T_DIR" /\ Allocated(d) /\ Allocated(i)
  <2>1. pc[p] \in CurAt /\ pc[p] \in IpAt /\ pc[p] \in ParentAt
    BY <1>1 DEF CurAt, IpAt, ParentAt
  <2> QED BY <1>2, <1>e, <2>1, BaseFacts
<1>f. /\ ent[d][n] = NONE /\ (IsDir(i) <=> dir) /\ nlink[i] = 0 /\ i # d
      /\ \A m \in Names \cup Dots : ent[i][m] = NONE
  <2>1. Fresh(p) /\ Where(p) \in NewAt
    BY <1>1, <1>2 DEF FsInv, Local, NewAt
  <2>2. /\ ent[cur[p]][path[p][1]] = NONE /\ dtype[ip[p]] = call[p].type /\ nlink[ip[p]] = 0
        /\ (\A m \in Names \cup Dots : ent[ip[p]][m] = NONE) /\ Alone(p, "ip")
    BY <2>1 DEF Fresh, Name
  <2>3. Holding(p, "cur") = d /\ Holding(p, "ip") = i /\ "cur" \in Roles \ {"ip"}
    BY <1>1, <1>2, <1>e DEF Holding, CurAt, IpAt, Roles
  <2>4. d # i
    BY <2>2, <2>3 DEF Alone
  <2> QED BY <1>e, <2>2, <2>4 DEF IsDir
<1>g. Naming(i) = {} /\ i # ROOTINO
  BY <1>4, <1>f, Linked
<1>w. Made(d, n, i, dir)
  <2>1. d \in Inums /\ n \in Names /\ i \in Inums /\ i # d /\ dir \in BOOLEAN
        /\ \A m \in Names \cup Dots : ent[i][m] = NONE
    BY <1>2, <1>4, <1>e, <1>f
  <2> QED BY <1>1, <2>1, EntMake
<1>6. /\ ent' \in [Inums -> [Names \cup Dots -> Inums \cup {NONE}]]
      /\ ent'[d][n] = i /\ OnlyEntry(d, n) /\ (dir => ent'[i][".."] = d)
      /\ (\A k \in Inums \ {i} : ent'[k][".."] = ent[k][".."])
      /\ (\A k \in Inums \ {d, i} : ent'[k] = ent[k])
      /\ (~dir => ent'[i][".."] = NONE)
      /\ (~dir => \A m \in Names \cup Dots : ent'[i][m] = NONE)
  BY <1>w DEF Made
<1>7. /\ Naming(i)' = Naming(i) \cup {<<d, n>>}
      /\ Cardinality(Naming(i)') = Cardinality(Naming(i)) + 1
      /\ \A j \in Inums \ {i} : Naming(j)' = Naming(j)
  <2>1. /\ dtype' = dtype /\ d \in Inums /\ Allocated(d) /\ n \in Names /\ i \in Inums
        /\ ent[d][n] = NONE /\ ent'[d][n] = i /\ OnlyEntry(d, n)
    BY <1>1, <1>2, <1>4, <1>6, <1>f
  <2>2. Entered(d, n, i)
    BY <2>1, NamingAdds
  <2> QED BY <2>2 DEF Entered
<1>8. Tree
  BY DEF FsInv
<1>9. dir => /\ Cardinality(Subdirs(d)') = Cardinality(Subdirs(d)) + 1
             /\ \A j \in Inums \ {d} : Subdirs(j)' = Subdirs(j)
  <2>1. ASSUME dir
        PROVE  /\ d \in Inums /\ i \in Inums \ {ROOTINO} /\ Naming(i) = {} /\ Naming(i)' # {}
               /\ \A j \in Inums \ {i} : Naming(j)' = Naming(j)
               /\ \A k \in Inums \ {i} : ent'[k][".."] = ent[k][".."]
               /\ ent'[i][".."] = d
    BY <1>2, <1>4, <1>6, <1>7, <1>g, <2>1
  <2> QED BY <2>1, SubdirGains
<1>10. ~dir => \A j \in Inums : Subdirs(j)' = Subdirs(j)
  <2>1. ASSUME ~dir
        PROVE  /\ i \in Inums /\ ~IsDir(i) /\ \A j \in Inums \ {i} : Naming(j)' = Naming(j)
               /\ \A k \in Inums : ent'[k][".."] = ent[k][".."]
    <3>1. ent[i][".."] = NONE
      BY <1>f DEF Dots
    <3> QED BY <1>4, <1>6, <1>7, <1>f, <2>1, <3>1
  <2> QED BY <2>1, SubdirsKept
<1>11. /\ nlink'[i] = 1 /\ (dir => nlink'[d] = nlink[d] + 1) /\ (~dir => nlink'[d] = nlink[d])
       /\ (\A k \in Inums \ {d, i} : nlink'[k] = nlink[k])
       /\ nlink' \in [Inums -> Nat]
  <2>1. nlink \in [Inums -> Nat]
    BY DEF FsInv, DiskType, DiskOK
  <2> QED BY <1>1, <1>2, <1>4, <1>e, <1>f, <2>1, SMTT(30)
<1>p. \A k \in Inums : Pending(k)' = Pending(k)
  BY <1>2, <1>3, PendingKept
<1>12. Tree'
  <2>1. IsDir(ROOTINO)' /\ Naming(ROOTINO)' = {}
    <3>1. ROOTINO \in Inums \ {i} /\ IsDir(ROOTINO) /\ Naming(ROOTINO) = {}
      BY <1>8, <1>g, Consts DEF Tree
    <3> QED BY <1>1, <1>7, <3>1 DEF IsDir, ROOTINO
  <2>2. ASSUME NEW k \in Inums, IsDir(k)', NEW x \in Naming(k)', NEW y \in Naming(k)'
        PROVE  x = y /\ ent'[k][".."] = x[1]
    <3>0. IsDir(k)
      BY <1>1, <2>2 DEF IsDir
    <3>1. CASE k = i
      <4>1. x = <<d, n>> /\ y = <<d, n>>
        BY <1>7, <1>g, <2>2, <3>1
      <4>2. <<d, n>>[1] = d
        OBVIOUS
      <4>3. ent'[k][".."] = d
        BY <1>6, <1>f, <3>0, <3>1
      <4> QED BY <4>1, <4>2, <4>3
    <3>2. CASE k # i
      <4>1. x \in Naming(k) /\ y \in Naming(k)
        BY <1>7, <2>2, <3>2
      <4>2. x = y /\ ent[k][".."] = x[1]
        BY <1>8, <3>0, <4>1 DEF Tree
      <4> QED BY <1>6, <3>2, <4>2
    <3> QED BY <3>1, <3>2
  <2>3. ASSUME NEW k \in Inums, ~IsDir(k)', NEW m \in Names \cup Dots PROVE ent'[k][m] = NONE
    <3>1. ~IsDir(k) /\ k # d
      BY <1>1, <1>4, <2>3 DEF IsDir
    <3>2. ent[k][m] = NONE
      BY <1>8, <3>1 DEF Tree
    <3>3. CASE k = i
      BY <1>6, <1>f, <3>1, <3>3
    <3>4. CASE k # i
      BY <1>6, <3>1, <3>2, <3>4
    <3> QED BY <3>3, <3>4
  <2>4. ASSUME NEW k \in Inums, ~Allocated(k)' PROVE nlink'[k] = 0
    <3>1. ~Allocated(k)
      BY <1>1, <2>4 DEF Allocated
    <3>2. k # d /\ k # i /\ nlink[k] = 0
      BY <1>4, <1>8, <3>1 DEF Tree
    <3> QED BY <1>11, <3>2
  <2> QED BY <2>1, <2>2, <2>3, <2>4 DEF Tree, Inums, Dots, ROOTINO
<1>13. LinksOwed'
  <2>1. ASSUME NEW k \in Inums
        PROVE  Cardinality(Naming(k)') + Cardinality(Subdirs(k)') + Cardinality(Pending(k)')
                 + (IF k = ROOTINO THEN 1 ELSE 0) <= nlink'[k]
    <3>1. Cardinality(Naming(k)) + Cardinality(Subdirs(k)) + Cardinality(Pending(k))
            + (IF k = ROOTINO THEN 1 ELSE 0) <= nlink[k] /\ nlink[k] \in Nat
      BY Linked DEF FsInv, LinksOwed
    <3>2. CASE k = i
      <4>1. /\ Cardinality(Naming(k)') = Cardinality(Naming(k)) + 1
            /\ Cardinality(Subdirs(k)') = Cardinality(Subdirs(k))
            /\ Cardinality(Pending(k)') = Cardinality(Pending(k))
            /\ nlink'[k] = 1 /\ nlink[k] = 0
        BY <1>7, <1>9, <1>10, <1>11, <1>e, <1>f, <1>p, <3>2
      <4> QED BY <3>1, <4>1, Finite, SMTT(30)
    <3>3. CASE k = d /\ dir
      <4>1. /\ Cardinality(Naming(k)') = Cardinality(Naming(k))
            /\ Cardinality(Subdirs(k)') = Cardinality(Subdirs(k)) + 1
            /\ Cardinality(Pending(k)') = Cardinality(Pending(k)) /\ nlink'[k] = nlink[k] + 1
        BY <1>7, <1>9, <1>11, <1>f, <1>p, <3>3
      <4> QED BY <3>1, <4>1, Finite, SMTT(30)
    <3>4. CASE k # i /\ ~(k = d /\ dir)
      <4>1. /\ Naming(k)' = Naming(k) /\ Subdirs(k)' = Subdirs(k) /\ Pending(k)' = Pending(k)
            /\ nlink'[k] = nlink[k]
        BY <1>7, <1>9, <1>10, <1>11, <1>e, <1>p, <3>4
      <4> QED BY <3>1, <4>1
    <3> QED BY <3>2, <3>3, <3>4
  <2> QED BY <2>1 DEF LinksOwed, ROOTINO, Inums
<1>14. \A k \in Inums : nlink'[k] # nlink[k] \/ ent'[k] # ent[k] => lock[k] = p
  <2>1. Locked(p, i)
    BY <1>1, <1>2, <1>e DEF Locked, LocksIp
  <2>2. lock[d] = p /\ lock[i] = p
    BY <1>2, <1>4, <2>1 DEF FsInv, LocksExact
  <2> QED BY <1>6, <1>11, <2>2
<1>15. Uses(p) \subseteq Uses(p)' /\ \A k \in Uses(p)' : k \in Uses(p) \/ nlink[k] # 0
  BY <1>2
<1>16. DiskType'
  BY <1>1, <1>2, <1>6, <1>11 DEF FsInv, DiskType, DiskOK, Inums, Dots
<1> QED BY <1>1, <1>2, <1>3, <1>12, <1>13, <1>14, <1>15, <1>16, DiskStep

(* An i-node is allocated: it has no entries, no names and no users.       *)
LEMMA NewInode ==
  ASSUME FiniteFacts, FsInv, NEW e \in Inums, ~Allocated(e), NEW type \in {"T_DIR", "T_FILE", "T_DEV"},
         dtype' = [dtype EXCEPT ![e] = type], nlink' = [nlink EXCEPT ![e] = 0], ent' = ent
  PROVE  /\ dtype'[e] = type /\ (\A i \in Inums \ {e} : dtype'[i] = dtype[i])
         /\ (\A i \in Inums : nlink'[i] = nlink[i]) /\ nlink[e] = 0 /\ DiskOK'
         /\ (\A m \in Names \cup Dots : ent[e][m] = NONE)
         /\ (\A i \in Inums : Naming(i)' = Naming(i) /\ Subdirs(i)' = Subdirs(i)) /\ Tree'
         /\ \A i \in Inums : Allocated(i)' <=> Allocated(i) \/ i = e
<1>1. Tree /\ DiskOK
  BY DEF FsInv, DiskType
<1>2. dtype'[e] = type /\ type # "free" /\ \A i \in Inums \ {e} : dtype'[i] = dtype[i]
  BY <1>1 DEF DiskOK
<1>3. nlink[e] = 0 /\ ~IsDir(e)
  BY <1>1 DEF Tree, Allocated, IsDir
<1>4. \A i \in Inums : nlink'[i] = nlink[i]
  BY <1>1, <1>3 DEF DiskOK
<1>5. DiskOK'
  <2>1. dtype' \in [Inums -> {"free", "T_DIR", "T_FILE", "T_DEV"}]
    BY <1>1 DEF DiskOK
  <2>2. nlink' \in [Inums -> Nat]
    BY <1>1, SMT DEF DiskOK
  <2> QED BY <1>1, <2>1, <2>2 DEF DiskOK, Inums, Dots
<1>6. \A m \in Names \cup Dots : ent[e][m] = NONE
  BY <1>1, <1>3 DEF Tree
<1>7. \A i \in Inums : Allocated(i)' <=> Allocated(i) \/ i = e
  BY <1>2 DEF Allocated
<1>8. ASSUME NEW i \in Inums PROVE Naming(i)' = Naming(i)
  <2>1. i # NONE
    BY Consts
  <2>2. \A x \in Inums \X Names : x[1] \in Inums /\ x[2] \in Names
    BY SMT
  <2>3. ASSUME NEW x \in Inums \X Names PROVE x \in Naming(i)' <=> x \in Naming(i)
    <3>1. CASE x[1] = e
      <4>1. ent[x[1]][x[2]] = NONE
        BY <1>6, <2>2, <3>1
      <4> QED BY <2>1, <4>1 DEF Naming
    <3>2. CASE x[1] # e
      <4>1. Allocated(x[1])' <=> Allocated(x[1])
        BY <1>7, <2>2, <3>2
      <4> QED BY <4>1 DEF Naming, Inums
    <3> QED BY <3>1, <3>2
  <2>4. Naming(i) \subseteq Inums \X Names /\ Naming(i)' \subseteq Inums \X Names
    BY DEF Naming, Inums
  <2> QED BY <2>3, <2>4
<1>9. \A i \in Inums : Subdirs(i)' = Subdirs(i)
  BY <1>8 DEF Subdirs, Inums, ROOTINO
<1>10. Naming(e) = {} /\ e # ROOTINO
  BY <1>3, Linked
<1>11. Tree'
  <2>1. IsDir(ROOTINO)' /\ Naming(ROOTINO)' = {}
    <3>1. ROOTINO \in Inums \ {e} /\ IsDir(ROOTINO) /\ Naming(ROOTINO) = {}
      BY <1>1, <1>10, Consts DEF Tree
    <3> QED BY <1>2, <1>8, <3>1 DEF IsDir, ROOTINO
  <2>2. ASSUME NEW i \in Inums, IsDir(i)', NEW x \in Naming(i)', NEW y \in Naming(i)'
        PROVE  x = y /\ ent'[i][".."] = x[1]
    <3>1. i # e /\ x \in Naming(i) /\ y \in Naming(i)
      BY <1>8, <1>10, <2>2
    <3>2. IsDir(i)
      BY <1>2, <2>2, <3>1 DEF IsDir
    <3> QED BY <1>1, <3>1, <3>2 DEF Tree
  <2>3. ASSUME NEW i \in Inums, ~IsDir(i)', NEW m \in Names \cup Dots PROVE ent'[i][m] = NONE
    <3>1. ~IsDir(i)
      BY <1>2, <1>3, <2>3 DEF IsDir
    <3> QED BY <1>1, <3>1 DEF Tree
  <2>4. ASSUME NEW i \in Inums, ~Allocated(i)' PROVE nlink'[i] = 0
    BY <1>1, <1>4, <1>7, <2>4 DEF Tree
  <2> QED BY <2>1, <2>2, <2>3, <2>4 DEF Tree, Inums, Dots, ROOTINO
<1> QED BY <1>2, <1>3, <1>4, <1>5, <1>6, <1>7, <1>8, <1>9, <1>11

(* ialloc takes a free i-node.                                             *)
LEMMA iallocKeeps ==
  ASSUME FiniteFacts, FsInv, NEW p \in Procs, NEW e \in Inums, pc[p] = "createLocked",
         ent[cur[p]][path[p][1]] = NONE, ~Allocated(e), iget(e), ip' = Set(ip, p, e),
         dtype' = [dtype EXCEPT ![e] = call[p].type], nlink' = [nlink EXCEPT ![e] = 0],
         Goto(p, "createNew"),
         UNCHANGED <<ent, lock, cwd, file, ret, bad, call, path, cur, next, put, panic, crossed>>
  PROVE  FsInv'
<1>1. /\ ent' = ent /\ cwd' = cwd /\ file' = file /\ bad' = bad /\ call' = call /\ path' = path
      /\ cur' = cur /\ ip' = [ip EXCEPT ![p] = e] /\ next' = next /\ crossed' = crossed
      /\ ref' = [ref EXCEPT ![e] = @ + 1] /\ valid' = valid /\ lock' = lock
      /\ UNCHANGED <<ret, put>>
  BY DEF iget, Set
<1>2. /\ pc[p] \in Steps /\ pc[p] \notin IpAt /\ pc[p] \in CurAt /\ pc[p] \in LocksCur
      /\ pc[p] \notin LocksIp /\ pc[p] # "chdirDone" /\ pc[p] \notin LinkAt
      /\ pc[p] # "createNew" /\ pc[p] # "unlinkCount"
      /\ pc[p] \notin {"done", "idle"} /\ pc[p] \in ParentAt
      /\ pc[p] \in {"create", "createLocked", "createNew", "createNewLocked"}
  BY DEF Steps, IpAt, CurAt, LocksCur, LocksIp, LinkAt, ParentAt
<1>3. /\ "createNew" \in Steps /\ "createNew" \in CurAt /\ "createNew" \in IpAt
      /\ "createNew" \in LocksCur /\ "createNew" \notin LocksIp /\ "createNew" \notin LinkAt
      /\ "createNew" \notin {"chdirDone", "unlinkIpLocked"} /\ "createNew" # "unlinkCount"
      /\ "createNew" \notin {"link", "linkLocked"} /\ "createNew" \in ParentAt
      /\ "createNew" # "unlinkIp" /\ "createNew" \notin InPut /\ "createNew" \notin Looking
  BY DEF Steps, CurAt, IpAt, LocksCur, LocksIp, LinkAt, ParentAt, InPut, Looking
<1>4. /\ pc'[p] = "createNew" /\ put'[p] = NONE /\ ret'[p] = <<>>
      /\ \A q \in Procs \ {p} : pc'[q] = pc[q] /\ put'[q] = put[q] /\ ret'[q] = ret[q]
      /\ DOMAIN pc' = Procs /\ DOMAIN put' = Procs /\ DOMAIN ret' = Procs
      /\ pc[p] \notin InPut /\ Where(p) = pc[p] /\ ~Linking(p) /\ next[p] = NONE
      /\ Holding(p, "put") = NONE /\ Holding(p, "put")' = NONE
      /\ pc'[p] \notin {"iputDrop", "iputFree"} /\ pc[p] # "iputDrop" /\ pc[p] # "iputFree"
  BY <1>1, <1>2, <1>3, GotoRegs
<1>6. /\ CacheOK /\ cwd[p] \in Inums /\ file[p] \in Inums \cup {NONE}
      /\ path[p] \in Seq(Names) /\ cur[p] \in Inums /\ (call[p].op = "open" => file[p] = NONE)
      /\ Allocated(cur[p]) /\ dtype[cwd[p]] = "T_DIR" /\ path[p] # <<>>
      /\ dtype[cur[p]] = "T_DIR" /\ call[p].type \in {"T_DIR", "T_FILE", "T_DEV"}
  BY <1>2, <1>4, BaseFacts
<1>7. /\ dtype'[e] = call[p].type /\ (\A i \in Inums \ {e} : dtype'[i] = dtype[i])
      /\ (\A i \in Inums : nlink'[i] = nlink[i]) /\ nlink[e] = 0 /\ DiskOK'
      /\ (\A m \in Names \cup Dots : ent[e][m] = NONE)
      /\ (\A i \in Inums : Naming(i)' = Naming(i) /\ Subdirs(i)' = Subdirs(i)) /\ Tree'
      /\ \A i \in Inums : Allocated(i)' <=> Allocated(i) \/ i = e
  BY <1>1, <1>6, NewInode
<1>u. \A q \in Procs : e \notin Uses(q)
  BY DEF FsInv, UsedLive
<1>c. cur[p] # e /\ cwd[p] # e
  BY <1>6 DEF Allocated
<1>i. ip'[p] = e /\ (\A q \in Procs \ {p} : ip'[q] = ip[q]) /\ DOMAIN ip' = Procs
  BY <1>1, <1>6, SetFacts, ZenonT(40) DEF CacheOK
<1>5. Frame(p)
  BY <1>1, <1>4, <1>i DEF Frame
<1>8. Where(p)' = "createNew" /\ ~Linking(p)'
  BY <1>3, <1>4 DEF Where, Linking
<1>9. Gains(p, "ip", e)
  <2>1. Holding(p, "ip") = NONE /\ Holding(p, "ip")' = e
    BY <1>2, <1>3, <1>4, <1>8, <1>i DEF Holding
  <2>2. \A t \in Roles \ {"ip"} : Holding(p, t)' = Holding(p, t)
    BY <1>1, <1>2, <1>3, <1>4, <1>8 DEF Holding, Roles
  <2> QED BY <2>1, <2>2 DEF Gains
<1>10. "ip" \in Roles
  BY DEF Roles
<1>a. Alone(p, "ip")'
  <2>1. \A q \in Procs \ {p} : Holding(p, "ip")' \notin Uses(q)'
    BY <1>5, <1>9, <1>u, FrameFacts DEF Gains
  <2>2. ASSUME NEW s \in Roles \ {"ip"} PROVE Holding(p, s)' # Holding(p, "ip")'
    <3>1. Holding(p, s) # e
      BY <1>4, <1>u, UsesRoles
    <3> QED BY <1>9, <3>1 DEF Gains
  <2> QED BY <2>1, <2>2 DEF Alone, Roles
<1>n. Fresh(p)'
  <2>1. /\ ent'[cur'[p]][path'[p][1]] = NONE /\ dtype'[ip'[p]] = call'[p].type
        /\ nlink'[ip'[p]] = 0 /\ \A m \in Names \cup Dots : ent'[ip'[p]][m] = NONE
    BY <1>1, <1>7, <1>i, ZenonT(40)
  <2> QED BY <1>a, <2>1 DEF Fresh, Name, Dots
<1>l. Local(p)'
  <2>1. dtype'[cwd'[p]] = "T_DIR" /\ dtype'[cur'[p]] = "T_DIR"
    BY <1>1, <1>6, <1>7, <1>c, ZenonT(40)
  <2> QED BY <1>1, <1>3, <1>4, <1>6, <1>i, <1>n, <2>1, StepLocal
<1>11. RefsExact' /\ Uses(p)' = Uses(p) \cup {e}
  BY <1>1, <1>4, <1>5, <1>9, <1>10, GainsCounts
<1>12. DiskType'
  <2>1. ref' \in [Inums -> Nat]
    BY <1>1, <1>6, CountUp DEF CacheOK
  <2>2. CacheOK'
    BY <1>1, <1>4, <1>6, <1>i, <2>1 DEF CacheOK
  <2> QED BY <1>7, <2>2 DEF DiskType
<1>13. LocksExact'
  <2>1. \A i \in Inums : Locked(p, i)' <=> Locked(p, i)
    BY <1>1, <1>2, <1>3, <1>4, <1>8 DEF Locked
  <2> QED BY <1>1, <1>5, <2>1, LocksStay
<1>14. LinksOwed'
  <2>1. ~Counted(p)' /\ ~Counted(p)
    BY <1>2, <1>3, <1>4, <1>8 DEF Counted
  <2>2. \A i \in Inums : Pending(i)' = Pending(i)
    BY <1>5, <2>1, PendingKept
  <2> QED BY <1>7, <2>2 DEF FsInv, LinksOwed, Inums, ROOTINO
<1>15. Cached'
  BY <1>1, <1>7, ZenonT(40) DEF FsInv, Cached, Inums
<1>16. ASSUME NEW i \in Inums, Allocated(i)', nlink'[i] = 0
       PROVE  \/ i \in crossed' \/ (\E q \in Procs : i \in Uses(q)')
              \/ \E q \in Procs : \E o \in Procs \ {q} : put'[q] = i /\ put'[o] = i
  <2>1. CASE i = e
    BY <1>11, <2>1
  <2>2. CASE i # e
    <3>1. \/ i \in crossed \/ (\E q \in Procs : i \in Uses(q))
          \/ \E q \in Procs : \E o \in Procs \ {q} : put[q] = i /\ put[o] = i
      BY <1>7, <1>16, <2>2 DEF FsInv, ToBeFreed
    <3>2. ASSUME NEW q \in Procs, i \in Uses(q) PROVE i \in Uses(q)'
      BY <1>5, <1>11, <3>2, FrameFacts
    <3> QED BY <1>1, <3>1, <3>2
  <2> QED BY <2>1, <2>2
<1>17. ASSUME NEW i \in Inums, Allocated(i)', nlink'[i] = 0
       PROVE  \/ valid'[i] \/ (\E q \in Procs : pc'[q] = "createNew" /\ ip'[q] = i)
              \/ \A h \in Procs \X Roles : held'[h] # i
  <2>1. CASE i = e
    BY <1>4, <1>i, <2>1
  <2>2. CASE i # e
    <3>1. \/ valid[i] \/ (\E q \in Procs : pc[q] = "createNew" /\ ip[q] = i)
          \/ \A h \in Procs \X Roles : held[h] # i
      BY <1>7, <1>17, <2>2, ZenonT(40) DEF FsInv, ToBeFreed
    <3>2. ASSUME NEW q \in Procs, pc[q] = "createNew", ip[q] = i
          PROVE  pc'[q] = "createNew" /\ ip'[q] = i
      BY <1>2, <1>5, <3>2 DEF Frame
    <3>3. ASSUME NEW h \in Procs \X Roles, held[h] # i PROVE held'[h] # i
      <4>1. CASE h[1] # p
        BY <1>5, <3>3, <4>1, HeldOthers
      <4>2. CASE h[1] = p
        <5>1. held[h] = Holding(p, h[2]) /\ held'[h] = Holding(p, h[2])'
          BY <4>2 DEF held
        <5>2. h[2] \in Roles
          BY HeldFacts
        <5> QED BY <1>9, <2>2, <3>3, <5>1, <5>2 DEF Gains
      <4> QED BY <4>1, <4>2
    <3> QED BY <1>1, <3>1, <3>2, <3>3
  <2> QED BY <2>1, <2>2
<1>18. ToBeFreed'
  BY <1>16, <1>17 DEF ToBeFreed, Inums, Roles
<1>19. Touch(p) /\ NewUses(p)
  BY <1>1, <1>7, <1>11 DEF Touch, NewUses
<1>20. \A i \in Uses(p)' : dtype'[i] # "free"
  <2>1. \A i \in Uses(p) : Allocated(i) /\ i \in Inums
    BY DEF FsInv, UsedLive, Uses
  <2>2. \A i \in Uses(p)' : Allocated(i)'
    BY <1>7, <1>11, <2>1
  <2> QED BY <2>2 DEF Allocated
<1> QED BY <1>5, <1>7, <1>11, <1>12, <1>13, <1>14, <1>15, <1>18, <1>19, <1>20, <1>l, Assemble

(* Nothing of the file system changes: ialloc's panic, and stuttering.     *)
LEMMA UnchangedKeeps ==
  ASSUME FsInv, UNCHANGED <<disk, cache, cwd, file, pc, ret, bad, regs, put, crossed>>
  PROVE  FsInv'
<1>1. /\ cwd' = cwd /\ file' = file /\ bad' = bad /\ call' = call /\ path' = path
      /\ cur' = cur /\ ip' = ip /\ next' = next /\ crossed' = crossed
      /\ dtype' = dtype /\ nlink' = nlink /\ ent' = ent
      /\ ref' = ref /\ valid' = valid /\ lock' = lock /\ ret' = ret /\ put' = put /\ pc' = pc
  BY DEF cache, regs, disk
<1>2. \A q \in Procs : Where(q)' = Where(q) /\ Target(q)' = Target(q)
  BY <1>1 DEF Where, Target
<1>3. \A q \in Procs : (Linking(q)' <=> Linking(q)) /\ (Counted(q)' <=> Counted(q))
  BY <1>2 DEF Linking, Counted
<1>4. \A q \in Procs : \A r \in Roles : Holding(q, r)' = Holding(q, r)
  BY <1>1, <1>2, <1>3 DEF Holding
<1>5. \A q \in Procs : Uses(q)' = Uses(q)
  BY <1>1, <1>4 DEF Uses, Dropping
<1>7. RefsExact'
  <2>1. held' = held
    BY <1>4 DEF held
  <2> QED BY <1>1, <2>1 DEF FsInv, RefsExact, Count
<1>8. LocksExact'
  <2>1. \A i \in Inums : \A q \in Procs : Locked(q, i)' <=> Locked(q, i)
    BY <1>1, <1>2 DEF Locked
  <2> QED BY <1>1, <2>1 DEF FsInv, LocksExact, Inums
<1>9. DiskType'
  BY <1>1 DEF FsInv, DiskType, DiskOK, CacheOK
<1>10. Cached'
  BY <1>1 DEF FsInv, Cached, Allocated
<1>11. ToBeFreed'
  <2>1. held' = held
    BY <1>4 DEF held
  <2>2. ASSUME NEW i \in Inums, Allocated(i), nlink[i] = 0
        PROVE  \/ i \in crossed' \/ (\E q \in Procs : i \in Uses(q)')
               \/ \E q \in Procs : \E o \in Procs \ {q} : put'[q] = i /\ put'[o] = i
    <3>1. \/ i \in crossed \/ (\E q \in Procs : i \in Uses(q))
          \/ \E q \in Procs : \E o \in Procs \ {q} : put[q] = i /\ put[o] = i
      BY <2>2 DEF FsInv, ToBeFreed
    <3>2. CASE \E q \in Procs : i \in Uses(q)
      BY <1>5, <3>2
    <3> QED BY <1>1, <3>1, <3>2
  <2>3. ASSUME NEW i \in Inums, Allocated(i), nlink[i] = 0
        PROVE  \/ valid'[i] \/ (\E q \in Procs : pc'[q] = "createNew" /\ ip'[q] = i)
               \/ \A h \in Procs \X Roles : held'[h] # i
    <3>1. \A h \in Procs \X Roles : held'[h] = held[h]
      BY <2>1
    <3>2. CASE \A h \in Procs \X Roles : held[h] # i
      BY <3>1, <3>2
    <3>3. CASE valid[i] \/ (\E q \in Procs : pc[q] = "createNew" /\ ip[q] = i)
      BY <1>1, <3>3
    <3> QED BY <2>3, <3>2, <3>3 DEF FsInv, ToBeFreed
  <2> QED BY <1>1, <2>2, <2>3 DEF ToBeFreed, Allocated
<1>12. LinksOwed' /\ Tree'
  <2>1. \A i \in Inums : Pending(i)' = Pending(i)
    BY <1>1, <1>3 DEF Pending
  <2>2. (\A i \in Inums : Naming(i)' = Naming(i) /\ Subdirs(i)' = Subdirs(i)) /\ Tree'
    BY <1>1, NamesKept
  <2> QED BY <1>1, <2>1, <2>2 DEF FsInv, LinksOwed, Inums, ROOTINO
<1>13. UsedLive'
  BY <1>1, <1>5 DEF FsInv, UsedLive, Allocated
<1>14. ASSUME NEW q \in Procs PROVE Local(q)'
  <2>0. Local(q)
    BY DEF FsInv
  <2>1. Stacked(q)'
    BY <1>1, <2>0 DEF Local, Stacked
  <2>2. Typed(q)'
    BY <1>1, <1>2, <1>3, <2>0 DEF Local, Typed, Inums
  <2>3. Called(q)'
    BY <1>1, <1>2, <2>0 DEF Local, Called, Path
  <2>4. Seen(q)'
    BY <1>1, <1>2, <1>3, <2>0 DEF Local, Seen, IsDir, Name
  <2>a. \A r \in Roles : Alone(q, r) => Alone(q, r)'
    BY <1>4, <1>5 DEF Alone
  <2>b. "ip" \in Roles /\ "put" \in Roles
    BY DEF Roles
  <2>5. Fresh(q)'
    BY <1>1, <1>2, <2>0, <2>a, <2>b DEF Local, Fresh, Name
  <2>6. Last(q)'
    BY <1>1, <2>0, <2>a, <2>b DEF Local, Last
  <2> QED BY <2>1, <2>2, <2>3, <2>4, <2>5, <2>6 DEF Local
<1> QED BY <1>7, <1>8, <1>9, <1>10, <1>11, <1>12, <1>13, <1>14 DEF FsInv

----------------------------------------------------------------------------
(* The steps, call by call.                                                *)

(* The steps on a process's own registers.                                 *)
LEMMA PrivateKeep ==
  ASSUME FiniteFacts, FsInv, NEW p \in Procs,
         \/ namexNext(p) \/ namexFail(p) \/ sys_linkPut(p) \/ sys_chdirDone(p) \/ done(p)
  PROVE  FsInv'
<1>1. CASE namexNext(p) BY <1>1, namexNextKeeps
<1>2. CASE namexFail(p) BY <1>2, namexFailKeeps
<1>3. CASE sys_linkPut(p) BY <1>3, linkPutKeeps
<1>4. CASE sys_chdirDone(p) BY <1>4, chdirDoneKeeps
<1>5. CASE done(p) BY <1>5, doneKeeps
<1> QED BY <1>1, <1>2, <1>3, <1>4, <1>5

(* iput, as it finds the i-node still in use or not.                       *)
LEMMA iputKeeps ==
  ASSUME FiniteFacts, FsInv, NEW p \in Procs, iput(p)
  PROVE  FsInv'
<1>1. CASE valid[put[p]] /\ nlink[put[p]] = 0 /\ ref[put[p]] = 1
  <2>1. /\ pc[p] = "iput" /\ lock[put[p]] = NONE
        /\ lock' = [lock EXCEPT ![put[p]] = p] /\ Goto(p, "iputFree")
        /\ UNCHANGED <<disk, ref, valid, cwd, file, ret, bad, regs, put, panic, crossed>>
    BY <1>1 DEF iput, At, Unreferenced
  <2> QED BY <1>1, <2>1, iputFreesKeeps
<1>2. CASE ~(valid[put[p]] /\ nlink[put[p]] = 0 /\ ref[put[p]] = 1)
  <2>1. /\ pc[p] = "iput" /\ lock' = lock /\ Goto(p, "iputDrop")
        /\ UNCHANGED <<disk, ref, valid, cwd, file, ret, bad, regs, put, panic, crossed>>
    BY <1>2 DEF iput, At, Unreferenced
  <2> QED BY <1>2, <2>1, iputDropsKeeps
<1> QED BY <1>1, <1>2

(* namex at the end of the path, and at the parent.                        *)
LEMMA namexEndKeeps ==
  ASSUME FiniteFacts, FsInv, NEW p \in Procs, namexEnd(p) \/ namexStop(p)
  PROVE  FsInv'
<1>1. CASE namexEnd(p) /\ nameiparent(p)
  <2>1. /\ pc[p] = "namex" /\ iputThen(p, cur[p], "namexFail")
        /\ ref' = ref /\ valid' = valid /\ lock' = lock
        /\ UNCHANGED <<disk, cwd, file, bad, regs, panic, crossed>>
    BY <1>1 DEF namexEnd, At, cache
  <2>2. pc[p] \in {"namex", "namexLocked"}
    BY <2>1
  <2> QED BY <2>1, <2>2, namexPuts
<1>2. CASE namexEnd(p) /\ ~nameiparent(p)
  <2>1. /\ pc[p] = "namex" /\ Goto(p, Head(ret[p])) /\ ret' = [ret EXCEPT ![p] = Tail(@)]
        /\ put' = put /\ ref' = ref /\ valid' = valid /\ lock' = lock
        /\ UNCHANGED <<disk, cwd, file, bad, regs, panic, crossed>>
    BY <1>2 DEF namexEnd, At, cache
  <2>2. pc[p] \in {"namex", "namexLocked"}
    BY <2>1
  <2> QED BY <1>2, <2>1, <2>2, namexReturns
<1>3. CASE namexStop(p)
  <2>1. /\ pc[p] = "namexLocked" /\ Goto(p, Head(ret[p]))
        /\ ret' = [ret EXCEPT ![p] = Tail(@)]
        /\ put' = put /\ ref' = ref /\ valid' = valid
        /\ lock' = [lock EXCEPT ![cur[p]] = NONE] /\ nameiparent(p) /\ IsDir(cur[p])
        /\ UNCHANGED <<disk, cwd, file, bad, regs, panic, crossed>>
    BY <1>3 DEF namexStop, At, iunlock
  <2>2. pc[p] \in {"namex", "namexLocked"}
    BY <2>1
  <2> QED BY <2>1, <2>2, namexReturns
<1> QED BY <1>1, <1>2, <1>3

(* namex looks up a name: the next i-node, or none.                        *)
LEMMA namexLookupKeeps ==
  ASSUME FiniteFacts, FsInv, NEW p \in Procs, namexLookup(p)
  PROVE  FsInv'
<1>1. CASE IsDir(cur[p]) /\ ent[cur[p]][path[p][1]] # NONE
  <2>1. PICK e : e = ent[cur[p]][path[p][1]]
    OBVIOUS
  <2>2. next' = Set(next, p, e) /\ iget(next'[p])
    BY <1>1, <2>1 DEF namexLookup, dirlookup
  <2>3. next'[p] = e
    BY <2>2, SetFacts DEF FsInv, DiskType, CacheOK, Set
  <2>4. iget(e)
    BY <2>2, <2>3 DEF iget
  <2>5. /\ pc[p] = "namexLocked" /\ e # NONE /\ iunlock(cur[p])
        /\ iputThen(p, cur[p], "namexNext")
        /\ UNCHANGED <<disk, cwd, file, bad, call, path, cur, ip, panic, crossed>>
    BY <1>1, <2>1 DEF namexLookup, At, dirlookup
  <2> QED BY <2>1, <2>2, <2>4, <2>5, namexFinds
<1>2. CASE ~(IsDir(cur[p]) /\ ent[cur[p]][path[p][1]] # NONE)
  <2>1. /\ pc[p] = "namexLocked" /\ iunlockputThen(p, cur[p], "namexFail") /\ next' = next
        /\ UNCHANGED <<disk, cwd, file, bad, call, path, cur, ip, panic, crossed>>
    BY <1>2 DEF namexLookup, At, dirlookup
  <2>2. /\ iputThen(p, cur[p], "namexFail") /\ ref' = ref /\ valid' = valid
        /\ lock' = [lock EXCEPT ![cur[p]] = NONE]
        /\ UNCHANGED <<disk, cwd, file, bad, regs, panic, crossed>>
    BY <2>1 DEF iunlockputThen, iunlock, regs
  <2>3. pc[p] \in {"namex", "namexLocked"}
    BY <2>1
  <2> QED BY <2>1, <2>2, <2>3, namexPuts
<1> QED BY <1>1, <1>2

(* The labels of iunlockput that count no link.                            *)
LEMMA NoLinkAt ==
  /\ "done" \notin LinkAt \cup {"unlinkCount"} /\ "unlinkBad" \notin LinkAt \cup {"unlinkCount"}
  /\ "linkExists" \in LinkAt /\ "linkBad" \in LinkAt
  /\ \A l \in {"linkLocked", "unlinkLocked", "unlinkIpLocked", "unlinkBad", "createIpLocked",
               "created", "openLocked", "chdirLocked"} : l \notin LinkAt \cup {"unlinkCount"}
  BY DEF LinkAt

(* sys_link before the parent is looked up, and after it failed.           *)
LEMMA sys_linkCountKeeps ==
  ASSUME FiniteFacts, FsInv, NEW p \in Procs, sys_linkCount(p)
  PROVE  FsInv'
<1>1. CASE IsDir(cur[p])
  <2>1. /\ pc[p] = "linkLocked" /\ iunlockputThen(p, cur[p], "done")
        /\ UNCHANGED <<disk, cwd, file, bad, regs, panic, crossed>>
    BY <1>1 DEF sys_linkCount, At, disk, regs
  <2> QED BY <2>1, PutPairs, NoLinkAt, PutsCurQuiet
<1>2. CASE ~IsDir(cur[p])
  <2>1. /\ pc[p] = "linkLocked" /\ nlink' = [nlink EXCEPT ![cur[p]] = @ + 1]
        /\ iunlock(cur[p]) /\ ip' = Set(ip, p, cur[p])
        /\ namexThen(p, call[p].new, "linkParent", "linkBad") /\ put' = put
        /\ UNCHANGED <<dtype, ent, cwd, file, call, next, panic, crossed>>
    BY <1>2 DEF sys_linkCount, At
  <2> QED BY <1>2, <2>1, linkCountKeeps
<1> QED BY <1>1, <1>2

(* dirlink.                                                                *)
LEMMA sys_linkEntryKeeps ==
  ASSUME FiniteFacts, FsInv, NEW p \in Procs, sys_linkEntry(p)
  PROVE  FsInv'
<1>1. CASE dirlookup(cur[p], Name(p)) # NONE
  BY <1>1, linkFoundKeeps
<1>2. CASE dirlookup(cur[p], Name(p)) = NONE
  <2>1. /\ pc[p] = "linkParentLocked" /\ ent[cur[p]][path[p][1]] = NONE
        /\ link(cur[p], path[p][1], ip[p]) /\ iunlockputThen(p, cur[p], "linkPut")
        /\ UNCHANGED <<dtype, nlink, cwd, file, bad, regs, panic, crossed>>
    BY <1>2 DEF sys_linkEntry, At, dirlookup, Name
  <2> QED BY <2>1, linkEntryKeeps
<1> QED BY <1>1, <1>2

(* sys_link.                                                               *)
LEMMA sys_linkKeeps ==
  ASSUME FiniteFacts, FsInv, NEW p \in Procs, sys_link(p)
  PROVE  FsInv'
<1>1. CASE locks(p, "link", cur[p], "linkLocked") BY <1>1, LockPairs, locksCur
<1>2. CASE sys_linkCount(p) BY <1>2, sys_linkCountKeeps
<1>3. CASE locks(p, "linkParent", cur[p], "linkParentLocked") BY <1>3, LockPairs, locksCur
<1>4. CASE sys_linkEntry(p) BY <1>4, sys_linkEntryKeeps
<1>5. CASE sys_linkExists(p)
  <2>1. /\ pc[p] = "linkExists" /\ iunlockputThen(p, cur[p], "linkBad")
        /\ UNCHANGED <<disk, cwd, file, bad, regs, panic, crossed>>
    BY <1>5 DEF sys_linkExists, At, unlocks
  <2> QED BY <2>1, PutPairs, NoLinkAt, PutsCurQuiet
<1>6. CASE locks(p, "linkBad", ip[p], "linkBadLocked") BY <1>6, LockPairs, locksIp
<1>7. CASE sys_linkBad(p)
  <2>1. /\ pc[p] = "linkBadLocked" /\ nlink' = [nlink EXCEPT ![ip[p]] = @ - 1]
        /\ unlocks(p, ip[p], "done") /\ UNCHANGED <<dtype, ent>>
    BY <1>7 DEF sys_linkBad, At
  <2>2. pc[p] \in {"linkBadLocked", "unlinkCount"}
    BY <2>1
  <2> QED BY <2>1, <2>2, PutPairs, countDownKeeps
<1> QED BY <1>1, <1>2, <1>3, <1>4, <1>5, <1>6, <1>7 DEF sys_link

(* sys_unlink looks the name up.                                           *)
LEMMA sys_unlinkLookupKeeps ==
  ASSUME FiniteFacts, FsInv, NEW p \in Procs, sys_unlinkLookup(p)
  PROVE  FsInv'
<1>1. PICK e : e = ent[cur[p]][path[p][1]]
  OBVIOUS
<1>2. CASE Name(p) \in Dots \/ e = NONE
  <2>1. /\ pc[p] = "unlinkLocked" /\ iunlockputThen(p, cur[p], "done")
        /\ UNCHANGED <<disk, cwd, file, bad, regs, panic, crossed>>
    BY <1>1, <1>2 DEF sys_unlinkLookup, At, dirlookup, Name, regs
  <2> QED BY <2>1, PutPairs, NoLinkAt, PutsCurQuiet
<1>3. CASE ~(Name(p) \in Dots \/ e = NONE)
  <2>1. /\ pc[p] = "unlinkLocked" /\ e # NONE /\ iget(e) /\ ip' = Set(ip, p, e)
        /\ Goto(p, "unlinkIp") /\ UNCHANGED <<lock, ret, put>>
        /\ UNCHANGED <<disk, cwd, file, bad, call, path, cur, next, panic, crossed>>
    BY <1>1, <1>3 DEF sys_unlinkLookup, At, dirlookup, Name
  <2> QED BY <1>1, <2>1, unlinkFoundKeeps
<1> QED BY <1>2, <1>3

(* The entry is cleared, unless a directory is not empty.                  *)
LEMMA sys_unlinkEntryKeeps ==
  ASSUME FiniteFacts, FsInv, NEW p \in Procs, sys_unlinkEntry(p)
  PROVE  FsInv'
<1>1. CASE ~Removable(ip[p])
  <2>1. /\ pc[p] = "unlinkIpLocked" /\ iunlockputThen(p, ip[p], "unlinkBad")
        /\ UNCHANGED <<disk, cwd, file, bad, regs, panic, crossed>>
    BY <1>1 DEF sys_unlinkEntry, At, unlocks
  <2> QED BY <2>1, PutPairs, NoLinkAt, PutsIpQuiet
<1>2. CASE Removable(ip[p])
  <2>1. /\ pc[p] = "unlinkIpLocked" /\ link(cur[p], path[p][1], NONE)
        /\ nlink' = IF IsDir(ip[p]) THEN [nlink EXCEPT ![cur[p]] = @ - 1] ELSE nlink
        /\ unlocks(p, cur[p], "unlinkCount") /\ UNCHANGED dtype
    BY <1>2 DEF sys_unlinkEntry, At, Name
  <2> QED BY <2>1, unlinkEntryKeeps
<1> QED BY <1>1, <1>2

(* All of sys_unlink.                                                      *)
LEMMA sys_unlinkKeeps ==
  ASSUME FiniteFacts, FsInv, NEW p \in Procs, sys_unlink(p)
  PROVE  FsInv'
<1>1. CASE locks(p, "unlink", cur[p], "unlinkLocked") BY <1>1, LockPairs, locksCur
<1>2. CASE sys_unlinkLookup(p) BY <1>2, sys_unlinkLookupKeeps
<1>3. CASE locks(p, "unlinkIp", ip[p], "unlinkIpLocked") BY <1>3, LockPairs, locksIp
<1>4. CASE sys_unlinkEntry(p) BY <1>4, sys_unlinkEntryKeeps
<1>5. CASE At(p, "unlinkBad") /\ unlocks(p, cur[p], "done") /\ UNCHANGED disk
  <2>1. /\ pc[p] = "unlinkBad" /\ iunlockputThen(p, cur[p], "done")
        /\ UNCHANGED <<disk, cwd, file, bad, regs, panic, crossed>>
    BY <1>5 DEF At, unlocks
  <2> QED BY <2>1, PutPairs, NoLinkAt, PutsCurQuiet
<1>6. CASE sys_unlinkCount(p)
  <2>1. /\ pc[p] = "unlinkCount" /\ nlink' = [nlink EXCEPT ![ip[p]] = @ - 1]
        /\ unlocks(p, ip[p], "done") /\ UNCHANGED <<dtype, ent>>
    BY <1>6 DEF sys_unlinkCount, At
  <2>2. pc[p] \in {"linkBadLocked", "unlinkCount"}
    BY <2>1
  <2> QED BY <2>1, <2>2, PutPairs, countDownKeeps
<1> QED BY <1>1, <1>2, <1>3, <1>4, <1>5, <1>6 DEF sys_unlink

(* create.                                                                 *)
LEMMA createKeeps ==
  ASSUME FiniteFacts, FsInv, NEW p \in Procs, create(p)
  PROVE  FsInv'
<1>1. CASE locks(p, "create", cur[p], "createLocked") BY <1>1, LockPairs, locksCur
<1>2. CASE createExists(p) BY <1>2, createExistsKeeps
<1>3. CASE locks(p, "createIp", ip[p], "createIpLocked") BY <1>3, LockPairs, locksIp
<1>4. CASE createCheck(p)
  <2>1. /\ pc[p] = "createIpLocked" /\ UNCHANGED <<disk, cwd, file, bad, regs, panic, crossed>>
        /\ \/ Goto(p, "created") /\ UNCHANGED <<ret, put, cache>>
           \/ iunlockputThen(p, ip[p], "done")
    BY <1>4 DEF createCheck, At
  <2>2. CASE Goto(p, "created") /\ UNCHANGED <<ret, put, cache>>
    BY <2>1, <2>2, createCheckKeeps
  <2>3. CASE iunlockputThen(p, ip[p], "done")
    BY <2>1, <2>3, PutPairs, NoLinkAt, PutsIpQuiet
  <2> QED BY <2>1, <2>2, <2>3
<1>5. CASE ialloc(p)
  <2>1. PICK e \in Inums :
           /\ FreeInum(e) /\ iget(e) /\ ip' = Set(ip, p, e)
           /\ dtype' = [dtype EXCEPT ![e] = call[p].type] /\ nlink' = [nlink EXCEPT ![e] = 0]
    BY <1>5 DEF ialloc
  <2>2. /\ pc[p] = "createLocked" /\ ent[cur[p]][path[p][1]] = NONE /\ Goto(p, "createNew")
        /\ UNCHANGED <<ent, lock, cwd, file, ret, bad, call, path, cur, next, put, panic,
                       crossed>>
    BY <1>5 DEF ialloc, At, dirlookup, Name
  <2>3. ~Allocated(e)
    BY <2>1 DEF FreeInum, Allocated
  <2> QED BY <2>1, <2>2, <2>3, iallocKeeps
<1>6. CASE iallocNone(p)
  BY <1>6, UnchangedKeeps DEF iallocNone
<1>7. CASE locks(p, "createNew", ip[p], "createNewLocked") BY <1>7, LockPairs, locksIp
<1>8. CASE createNew(p) BY <1>8, createNewKeeps
<1> QED BY <1>1, <1>2, <1>3, <1>4, <1>5, <1>6, <1>7, <1>8 DEF create

(* sys_open and sys_chdir once the i-node is found.                        *)
LEMMA sys_openKeeps ==
  ASSUME FiniteFacts, FsInv, NEW p \in Procs, sys_open(p)
  PROVE  FsInv'
<1>1. CASE sys_openFile(p) BY <1>1, openFileKeeps
<1>2. CASE createdPut(p)
  <2>1. /\ pc[p] = "created" /\ iunlockputThen(p, ip[p], "done")
        /\ UNCHANGED <<disk, cwd, file, bad, regs, panic, crossed>>
    BY <1>2 DEF createdPut, At, unlocks
  <2> QED BY <2>1, PutPairs, NoLinkAt, PutsIpQuiet
<1>3. CASE locks(p, "open", cur[p], "openLocked") BY <1>3, LockPairs, locksCur
<1>4. CASE sys_openCheck(p)
  <2>1. CASE IsDir(cur[p]) /\ call[p].write
    <3>1. /\ pc[p] = "openLocked" /\ iunlockputThen(p, cur[p], "done")
          /\ UNCHANGED <<disk, cwd, file, bad, regs, panic, crossed>>
      BY <1>4, <2>1 DEF sys_openCheck, At, regs
    <3> QED BY <3>1, PutPairs, NoLinkAt, PutsCurQuiet
  <2>2. CASE ~(IsDir(cur[p]) /\ call[p].write)
    <3>1. /\ pc[p] = "openLocked" /\ ip' = Set(ip, p, cur[p]) /\ Goto(p, "created")
          /\ UNCHANGED <<cache, ret, put>>
          /\ UNCHANGED <<disk, cwd, file, bad, call, path, cur, next, panic, crossed>>
      BY <1>4, <2>2 DEF sys_openCheck, At
    <3> QED BY <3>1, openFoundKeeps
  <2> QED BY <2>1, <2>2
<1>5. CASE locks(p, "chdir", cur[p], "chdirLocked") BY <1>5, LockPairs, locksCur
<1>6. CASE sys_chdir(p)
  <2>1. CASE IsDir(cur[p])
    BY <1>6, <2>1, chdirKeeps
  <2>2. CASE ~IsDir(cur[p])
    <3>1. /\ pc[p] = "chdirLocked" /\ iunlockputThen(p, cur[p], "done")
          /\ UNCHANGED <<disk, cwd, file, bad, regs, panic, crossed>>
      BY <1>6, <2>2 DEF sys_chdir, At
    <3> QED BY <3>1, PutPairs, NoLinkAt, PutsCurQuiet
  <2> QED BY <2>1, <2>2
<1> QED BY <1>1, <1>2, <1>3, <1>4, <1>5, <1>6 DEF sys_open

(* Every step.                                                             *)
LEMMA StepKeeps ==
  ASSUME FiniteFacts, FsInv, [Next]_vars
  PROVE  FsInv'
<1>1. ASSUME NEW p \in Procs,
             \/ syscall(p) \/ fileclose(p) \/ iput(p) \/ iputFree(p) \/ iputDrop(p)
             \/ namexLock(p) \/ namexEnd(p) \/ namexStop(p) \/ namexLookup(p)
             \/ sys_link(p) \/ sys_unlink(p) \/ create(p) \/ sys_open(p)
      PROVE  FsInv'
  <2>1. CASE syscall(p) BY <2>1, syscallKeeps
  <2>2. CASE fileclose(p) BY <2>2, filecloseKeeps
  <2>3. CASE iput(p) BY <2>3, iputKeeps
  <2>4. CASE iputFree(p) BY <2>4, iputFreeKeeps
  <2>5. CASE iputDrop(p) BY <2>5, iputDropKeeps
  <2>6. CASE namexLock(p) BY <2>6, namexLockKeeps
  <2>7. CASE namexEnd(p) \/ namexStop(p) BY <2>7, namexEndKeeps
  <2>8. CASE namexLookup(p) BY <2>8, namexLookupKeeps
  <2>9. CASE sys_link(p) BY <2>9, sys_linkKeeps
  <2>10. CASE sys_unlink(p) BY <2>10, sys_unlinkKeeps
  <2>11. CASE create(p) BY <2>11, createKeeps
  <2>12. CASE sys_open(p) BY <2>12, sys_openKeeps
  <2> QED BY <1>1, <2>1, <2>2, <2>3, <2>4, <2>5, <2>6, <2>7, <2>8, <2>9, <2>10, <2>11, <2>12
<1>2. CASE Next
  BY <1>1, <1>2, PrivateKeep DEF Next
<1>3. CASE UNCHANGED vars
  BY <1>3, UnchangedKeeps DEF vars
<1> QED BY <1>2, <1>3

----------------------------------------------------------------------------
(* What the invariant says.                                                *)

(* What the invariant says of the links.                                   *)
LEMMA InvLinks ==
  ASSUME FiniteFacts, FsInv
  PROVE  LinksCounted
<1>1. ASSUME NEW i \in Inums
      PROVE  /\ Cardinality(Naming(i)) + Cardinality(Subdirs(i)) <= nlink[i]
             /\ Naming(i) # {} => Allocated(i)
  <2>1. /\ Cardinality(Naming(i)) \in Nat /\ Cardinality(Subdirs(i)) \in Nat
        /\ Cardinality(Pending(i)) \in Nat /\ (Cardinality(Naming(i)) = 0 <=> Naming(i) = {})
    BY Finite, FinCard
  <2>2. Cardinality(Naming(i)) + Cardinality(Subdirs(i)) + Cardinality(Pending(i))
          + (IF i = ROOTINO THEN 1 ELSE 0) <= nlink[i]
    BY DEF FsInv, LinksOwed
  <2>3. nlink[i] \in Nat
    BY DEF FsInv, DiskType, DiskOK
  <2>4. ~Allocated(i) => nlink[i] = 0
    BY DEF FsInv, Tree
  <2>5. /\ Cardinality(Naming(i)) + Cardinality(Subdirs(i)) <= nlink[i]
        /\ nlink[i] = 0 => Cardinality(Naming(i)) = 0
    BY <2>1, <2>2, <2>3, SMTT(30)
  <2> QED BY <2>1, <2>4, <2>5
<1> QED BY <1>1 DEF LinksCounted

(* A file open and a current directory are not freed under the process.    *)
LEMMA InvInUse ==
  ASSUME FsInv
  PROVE  InUseLives
<1>1. ASSUME NEW p \in Procs, file[p] # NONE PROVE Allocated(file[p])
  <2>1. file[p] \in Inums
    BY <1>1 DEF FsInv, Local, Typed
  <2>2. Holding(p, "file") = file[p] /\ "file" \in Roles /\ ~Dropping(p, "file")
    BY DEF Holding, Roles, Dropping
  <2>3. file[p] \in Uses(p)
    BY <2>1, <2>2 DEF Uses
  <2> QED BY <2>3 DEF FsInv, UsedLive
<1>2. ASSUME NEW p \in Procs, put[p] # cwd[p], pc[p] # "chdirDone"
      PROVE  dtype[cwd[p]] = "T_DIR"
  <2>1. Seen(p)
    BY DEF FsInv, Local
  <2>2. Where(p) # "chdirDone"
    <3>1. CASE pc[p] \in InPut
      BY <1>2, <2>1, <3>1 DEF Seen
    <3>2. CASE pc[p] \notin InPut
      BY <1>2, <3>2 DEF Where
    <3> QED BY <3>1, <3>2
  <2> QED BY <2>1, <2>2 DEF Seen, IsDir
<1> QED BY <1>1, <1>2 DEF InUseLives

----------------------------------------------------------------------------
(* From here on, with the theorems on finite sets.                         *)
INSTANCE FiniteSetTheorems

(* The facts on finite sets the steps are proved from.                     *)
LEMMA FiniteFactsHold == FiniteFacts
<1>1. IsFiniteSet(Procs) /\ IsFiniteSet(Names) /\ NINUM \in Nat
  BY FsAssumption, SMTT(30)
<1>2. IsFiniteSet(Inums)
  BY <1>1, FS_Interval, SMTT(30) DEF Inums
<1>3. IsFiniteSet(Roles)
  <2>1. IsFiniteSet({})
    BY FS_EmptySet
  <2> DEFINE A == {} \cup {"cwd"}  B == A \cup {"file"}  C == B \cup {"cur"}
             D == C \cup {"ip"}  E == D \cup {"next"}  F == E \cup {"put"}
  <2>2. IsFiniteSet(A) BY <2>1, FS_AddElement
  <2>3. IsFiniteSet(B) BY <2>2, FS_AddElement
  <2>4. IsFiniteSet(C) BY <2>3, FS_AddElement
  <2>5. IsFiniteSet(D) BY <2>4, FS_AddElement
  <2>6. IsFiniteSet(E) BY <2>5, FS_AddElement
  <2>7. IsFiniteSet(F) BY <2>6, FS_AddElement
  <2>8. F = Roles
    BY DEF Roles
  <2> QED BY <2>7, <2>8
<1>4. IsFiniteSet(Procs \X Roles) /\ IsFiniteSet(Inums \X Names)
  BY <1>1, <1>2, <1>3, FS_Product
<1>5. ASSUME NEW S, IsFiniteSet(S)
      PROVE  /\ Cardinality(S) \in Nat /\ (Cardinality(S) = 0 <=> S = {})
             /\ \A T \in SUBSET S : IsFiniteSet(T) /\ Cardinality(T) <= Cardinality(S)
             /\ \A x : x \notin S => Cardinality(S \cup {x}) = Cardinality(S) + 1
             /\ \A x \in S : Cardinality(S \ {x}) = Cardinality(S) - 1
  <2>1. Cardinality(S) \in Nat
    BY <1>5, FS_CardinalityType
  <2>2. Cardinality(S) = 0 <=> S = {}
    BY <1>5, FS_EmptySet
  <2>3. \A T \in SUBSET S : IsFiniteSet(T) /\ Cardinality(T) <= Cardinality(S)
    BY <1>5, FS_Subset
  <2>4. \A x : x \notin S => Cardinality(S \cup {x}) = Cardinality(S) + 1
    BY <1>5, FS_AddElement
  <2>5. \A x \in S : Cardinality(S \ {x}) = Cardinality(S) - 1
    BY <1>5, FS_RemoveElement
  <2> QED BY <2>1, <2>2, <2>3, <2>4, <2>5
<1> QED BY <1>1, <1>2, <1>4, <1>5 DEF FiniteFacts

(* Counting one role of the processes.                                     *)
LEMMA Column ==
  ASSUME NEW S, NEW x, IsFiniteSet(S)
  PROVE  IsFiniteSet(S \X {x}) /\ Cardinality(S \X {x}) = Cardinality(S)
<1>1. IsFiniteSet({x}) /\ Cardinality({x}) = 1
  BY FS_Singleton
<1>2. IsFiniteSet(S \X {x}) /\ Cardinality(S \X {x}) = Cardinality(S) * Cardinality({x})
  BY <1>1, FS_Product
<1>3. \A n \in Nat : n * 1 = n
  BY SMT
<1>4. Cardinality(S) \in Nat
  BY FS_CardinalityType
<1> QED BY <1>1, <1>2, <1>3, <1>4

(* The initial states: every process in the root directory.                *)
LEMMA InitIdle ==
  ASSUME Init, NEW p \in Procs
  PROVE  /\ pc[p] = "idle" /\ ret[p] = <<>> /\ cwd[p] = ROOTINO /\ file[p] = NONE
         /\ next[p] = NONE /\ put[p] = NONE /\ path[p] = <<>>
         /\ Where(p) = "idle" /\ ~Linking(p) /\ ~Counted(p)
         /\ Holding(p, "cwd") = ROOTINO
         /\ \A r \in Roles \ {"cwd"} : Holding(p, r) = NONE
<1>1. /\ pc[p] = "idle" /\ ret[p] = <<>> /\ cwd[p] = ROOTINO /\ file[p] = NONE
      /\ next[p] = NONE /\ put[p] = NONE /\ path[p] = <<>>
  BY DEF Init
<1>2. Where(p) = "idle"
  BY <1>1 DEF Where, InPut
<1>3. ~Linking(p) /\ ~Counted(p)
  BY <1>2 DEF Linking, Counted, Looking, LinkAt
<1>4. "idle" # "chdirDone" /\ "idle" \notin CurAt /\ "idle" \notin IpAt
  BY DEF CurAt, IpAt
<1>5. Holding(p, "cwd") = ROOTINO
  BY <1>1, <1>2, <1>4 DEF Holding
<1>6. ASSUME NEW r \in Roles \ {"cwd"} PROVE Holding(p, r) = NONE
  BY <1>1, <1>2, <1>3, <1>4, <1>6 DEF Holding, Roles
<1> QED BY <1>1, <1>2, <1>3, <1>5, <1>6

(* The root has a reference for every process.                             *)
LEMMA InitRefs ==
  ASSUME Init
  PROVE  RefsExact
<1>1. Count(held, ROOTINO) = Cardinality(Procs)
  <2>1. \A h \in Procs \X Roles : held[h] = ROOTINO <=> h \in Procs \X {"cwd"}
    <3>1. SUFFICES ASSUME NEW p \in Procs, NEW r \in Roles
                   PROVE  held[<<p, r>>] = ROOTINO <=> r = "cwd"
      BY SMTT(30)
    <3>2. held[<<p, r>>] = Holding(p, r)
      BY DEF held
    <3>3. NONE # ROOTINO
      BY Consts
    <3> QED BY <3>2, <3>3, InitIdle
  <2>2. {h \in Procs \X Roles : held[h] = ROOTINO} = Procs \X {"cwd"}
    BY <2>1 DEF Roles
  <2>3. IsFiniteSet(Procs)
    BY FiniteFactsHold, FinSets
  <2> QED BY <2>2, <2>3, Column DEF Count
<1>2. ASSUME NEW i \in Inums, i # ROOTINO PROVE Count(held, i) = 0
  <2>1. ASSUME NEW p \in Procs, NEW r \in Roles PROVE held[<<p, r>>] # i
    <3>1. held[<<p, r>>] = Holding(p, r)
      BY DEF held
    <3>2. NONE # i
      BY Consts
    <3> QED BY <1>2, <3>1, <3>2, InitIdle
  <2>2. \A h \in Procs \X Roles : held[h] # i
    BY <2>1, SMTT(30)
  <2>3. {h \in Procs \X Roles : held[h] = i} = {}
    BY <2>2
  <2> QED BY <2>3, FS_EmptySet DEF Count
<1>3. \A i \in Inums : ref[i] = IF i = ROOTINO THEN Cardinality(Procs) ELSE 0
  BY DEF Init
<1> QED BY <1>1, <1>2, <1>3 DEF RefsExact

(* The root is the only i-node, and has no name.                           *)
LEMMA InitDisk ==
  ASSUME Init
  PROVE  /\ DiskType /\ LinksOwed /\ Tree /\ Cached /\ ToBeFreed
         /\ IsDir(ROOTINO) /\ \A i \in Inums : lock[i] = NONE
<1>1. /\ \A i \in Inums : /\ dtype[i] = IF i = ROOTINO THEN "T_DIR" ELSE "free"
                          /\ nlink[i] = IF i = ROOTINO THEN 1 ELSE 0
                          /\ lock[i] = NONE /\ valid[i] = FALSE
      /\ \A i \in Inums : \A n \in Names \cup Dots :
           ent[i][n] = IF i = ROOTINO /\ n \in Dots THEN ROOTINO ELSE NONE
  BY DEF Init
<1>2. IsDir(ROOTINO)
  BY <1>1, Consts DEF IsDir
<1>3. DiskOK
  <2>1. /\ dtype \in [Inums -> {"free", "T_DIR", "T_FILE", "T_DEV"}]
    BY DEF Init
  <2>2. nlink \in [Inums -> Nat]
    BY SMT DEF Init
  <2>3. ent \in [Inums -> [Names \cup Dots -> Inums \cup {NONE}]]
    BY Consts DEF Init
  <2> QED BY <2>1, <2>2, <2>3 DEF DiskOK
<1>4. CacheOK
  <2>1. Cardinality(Procs) \in Nat
    BY FiniteFactsHold, FinSets, FinCard
  <2>2. ref \in [Inums -> Nat]
    BY <2>1, SMTT(30) DEF Init
  <2>3. valid \in [Inums -> BOOLEAN] /\ lock \in [Inums -> Procs \cup {NONE}]
    BY DEF Init
  <2> QED BY <2>2, <2>3 DEF Init, CacheOK
<1>5. \A n \in Names : n \in Names \cup Dots /\ n \notin Dots
  BY FsAssumption
<1>6. ASSUME NEW i \in Inums PROVE Naming(i) = {} /\ Subdirs(i) = {}
  <2>1. ASSUME NEW d \in Inums PROVE Naming(d) = {}
    <3>1. \A e \in Inums : \A n \in Names : ent[e][n] # d
      BY <1>1, <1>5, Consts
    <3> QED BY <3>1 DEF Naming
  <2> QED BY <2>1 DEF Subdirs
<1>7. ASSUME NEW i \in Inums PROVE Pending(i) = {}
  BY InitIdle DEF Pending
<1>8. LinksOwed
  <2>1. ASSUME NEW i \in Inums
        PROVE  Cardinality(Naming(i)) + Cardinality(Subdirs(i)) + Cardinality(Pending(i))
                 + (IF i = ROOTINO THEN 1 ELSE 0) <= nlink[i]
    <3>1. /\ Cardinality(Naming(i)) = 0 /\ Cardinality(Subdirs(i)) = 0
          /\ Cardinality(Pending(i)) = 0
      BY <1>6, <1>7, FS_EmptySet
    <3>2. nlink[i] = IF i = ROOTINO THEN 1 ELSE 0
      BY <1>1
    <3> QED BY <3>1, <3>2, SMTT(30)
  <2> QED BY <2>1 DEF LinksOwed
<1>9. Tree
  <2>1. Naming(ROOTINO) = {} /\ \A i \in Inums : \A x, y \in Naming(i) : x = y /\ ent[i][".."] = x[1]
    BY <1>6, Consts
  <2>2. \A i \in Inums : ~IsDir(i) => i # ROOTINO
    BY <1>2
  <2>3. \A i \in Inums : ~IsDir(i) => \A n \in Names \cup Dots : ent[i][n] = NONE
    BY <1>1, <2>2
  <2>4. \A i \in Inums : ~Allocated(i) => nlink[i] = 0
    BY <1>1 DEF Allocated
  <2> QED BY <1>2, <2>1, <2>3, <2>4 DEF Tree
<1>10. Cached
  BY <1>1 DEF Cached
<1>11. ToBeFreed
  <2>1. 1 # 0
    BY SMT
  <2>2. \A i \in Inums : ~(Allocated(i) /\ nlink[i] = 0)
    BY <1>1, <2>1 DEF Allocated
  <2> QED BY <2>2 DEF ToBeFreed
<1> QED BY <1>1, <1>2, <1>3, <1>4, <1>8, <1>9, <1>10, <1>11 DEF DiskType

(* The initial states satisfy the invariant.                               *)
LEMMA InitFsInv ==
  ASSUME Init
  PROVE  FsInv
<1>0. ROOTINO \in Inums /\ NONE \notin Procs /\ IsDir(ROOTINO)
  BY Consts, InitDisk
<1>1. UsedLive
  <2>1. ASSUME NEW p \in Procs, NEW i \in Uses(p) PROVE Allocated(i)
    <3>1. i \in Inums /\ \E r \in Roles : Holding(p, r) = i
      BY DEF Uses
    <3>2. i = ROOTINO
      BY <3>1, Consts, InitIdle
    <3> QED BY <1>0, <3>2 DEF Allocated, IsDir
  <2> QED BY <2>1 DEF UsedLive
<1>2. LocksExact
  <2>1. ASSUME NEW i \in Inums, NEW p \in Procs PROVE ~Locked(p, i)
    BY InitIdle DEF Locked, LocksCur, LocksIp
  <2>2. ASSUME NEW i \in Inums, NEW p \in Procs PROVE lock[i] # p
    BY <1>0, InitDisk
  <2> QED BY <2>1, <2>2 DEF LocksExact
<1>3. ASSUME NEW p \in Procs PROVE Local(p)
  <2>1. Stacked(p)
    BY InitIdle DEF Stacked, Steps
  <2>2. Typed(p)
    <3>1. path[p] \in Seq(Names)
      <4>1. <<>> \in Seq(Names)
        BY SMT
      <4> QED BY <4>1, InitIdle
    <3>2. "idle" \notin CurAt /\ "idle" \notin IpAt /\ "idle" \notin InPut
          /\ "idle" \notin ParentAt \cup {"namexLocked", "namexNext"} /\ "idle" # "namexNext"
      BY DEF CurAt, IpAt, InPut, ParentAt
    <3> QED BY <1>0, <3>1, <3>2, InitIdle DEF Typed
  <2>3. Called(p)
    BY InitIdle DEF Called, Looking
  <2>4. Seen(p)
    BY <1>0, InitIdle DEF Seen, ParentAt, LinkAt
  <2>5. Fresh(p) /\ Last(p)
    BY InitIdle DEF Fresh, Last, NewAt
  <2> QED BY <2>1, <2>2, <2>3, <2>4, <2>5 DEF Local
<1> QED BY <1>1, <1>2, <1>3, InitRefs, InitDisk DEF FsInv

----------------------------------------------------------------------------
(* The cache counts every reference, the i-nodes in use are allocated, the *)
(* sleep locks are those the calls hold, and the links cover the names,    *)
(* whatever calls run at the same time.                                    *)
THEOREM FsInductive == Spec => []FsInv
<1>1. Init => FsInv
  BY InitFsInv
<1>2. FsInv /\ [Next]_vars => FsInv'
  BY FiniteFactsHold, StepKeeps
<1> QED BY <1>1, <1>2, PTL DEF Spec

(* The link count of an i-node never falls behind the names it has, with   *)
(* links and unlinks of any number of processes under way.                 *)
THEOREM LinksSuffice == Spec => []LinksCounted
<1>1. FsInv => LinksCounted
  BY FiniteFactsHold, InvLinks
<1> QED BY <1>1, FsInductive, PTL

(* ilock never finds an i-node of type 0.                                  *)
THEOREM LockedTyped == Spec => []LockedHasType
<1>1. FsInv => LockedHasType
  BY DEF FsInv, Cached, LockedHasType
<1> QED BY <1>1, FsInductive, PTL

(* A file open and a current directory stay allocated.                     *)
THEOREM InUseKept == Spec => []InUseLives
<1>1. FsInv => InUseLives
  BY InvInUse
<1> QED BY <1>1, FsInductive, PTL

(* Between calls the references are those of the current directories and   *)
(* the open files.                                                         *)
LEMMA IdleRefs ==
  ASSUME FsInv, \A p \in Procs : pc[p] = "idle", NEW i \in Inums
  PROVE  ref[i] = Cardinality({p \in Procs : cwd[p] = i})
                  + Cardinality({p \in Procs : file[p] = i})
<1>1. ASSUME NEW p \in Procs
      PROVE  /\ Holding(p, "cwd") = cwd[p] /\ Holding(p, "file") = file[p]
             /\ \A r \in Roles \ {"cwd", "file"} : Holding(p, r) = NONE
             /\ cwd[p] \in Inums /\ file[p] \in Inums \cup {NONE}
  <2>1. pc[p] = "idle" /\ Where(p) = "idle"
    BY DEF Where, InPut
  <2>2. ~Linking(p)
    BY <2>1 DEF Linking, Looking
  <2>3. "idle" # "chdirDone" /\ "idle" \notin CurAt /\ "idle" \notin IpAt
        /\ "idle" # "namexNext" /\ "idle" \notin InPut
    BY DEF CurAt, IpAt, InPut
  <2>4. next[p] = NONE /\ put[p] = NONE /\ cwd[p] \in Inums /\ file[p] \in Inums \cup {NONE}
    BY <2>1, <2>3 DEF FsInv, Local, Typed
  <2>5. Holding(p, "cwd") = cwd[p] /\ Holding(p, "file") = file[p]
    BY <2>1, <2>3 DEF Holding
  <2>6. ASSUME NEW r \in Roles \ {"cwd", "file"} PROVE Holding(p, r) = NONE
    BY <2>1, <2>2, <2>3, <2>4, <2>6 DEF Holding, Roles
  <2> QED BY <2>4, <2>5, <2>6
<1> DEFINE D == {p \in Procs : cwd[p] = i}  F == {p \in Procs : file[p] = i}
<1>2. {h \in Procs \X Roles : held[h] = i} = (D \X {"cwd"}) \cup (F \X {"file"})
  <2>1. i # NONE /\ "cwd" \in Roles /\ "file" \in Roles /\ "cwd" # "file"
    BY Consts DEF Roles
  <2>2. ASSUME NEW p \in Procs, NEW r \in Roles
        PROVE  held[<<p, r>>] = i <=> (r = "cwd" /\ p \in D) \/ (r = "file" /\ p \in F)
    <3>1. held[<<p, r>>] = Holding(p, r)
      BY DEF held
    <3>2. CASE r = "cwd" BY <1>1, <2>1, <3>1, <3>2
    <3>3. CASE r = "file" BY <1>1, <2>1, <3>1, <3>3
    <3>4. CASE r \in Roles \ {"cwd", "file"} BY <1>1, <2>1, <3>1, <3>4
    <3> QED BY <3>2, <3>3, <3>4
  <2> HIDE DEF held
  <2> QED BY <2>1, <2>2, SMTT(30)
<1>3. IsFiniteSet(D) /\ IsFiniteSet(F) /\ Cardinality(D) \in Nat /\ Cardinality(F) \in Nat
  <2>1. D \subseteq Procs /\ F \subseteq Procs /\ IsFiniteSet(Procs)
    BY FiniteFactsHold, FinSets
  <2>2. IsFiniteSet(D) /\ IsFiniteSet(F)
    BY <2>1, FiniteFactsHold, FinSubset
  <2> QED BY <2>2, FiniteFactsHold, FinCard
<1>4. Count(held, i) = Cardinality(D) + Cardinality(F)
  <2> HIDE DEF D, F, held
  <2>2. /\ IsFiniteSet(D \X {"cwd"}) /\ Cardinality(D \X {"cwd"}) = Cardinality(D)
        /\ IsFiniteSet(F \X {"file"}) /\ Cardinality(F \X {"file"}) = Cardinality(F)
    BY <1>3, Column
  <2>4. (D \X {"cwd"}) \cap (F \X {"file"}) = {}
    BY SMT
  <2>5. Cardinality({}) = 0 /\ \A m, n \in Nat : m + n - 0 = m + n
    BY FS_EmptySet, SMTT(30)
  <2>6. Cardinality((D \X {"cwd"}) \cup (F \X {"file"}))
          = Cardinality(D \X {"cwd"}) + Cardinality(F \X {"file"})
              - Cardinality((D \X {"cwd"}) \cap (F \X {"file"}))
    BY <2>2, FS_Union
  <2>7. Cardinality((D \X {"cwd"}) \cup (F \X {"file"})) = Cardinality(D) + Cardinality(F)
    BY <1>3, <2>2, <2>4, <2>5, <2>6, ZenonT(40)
  <2> QED BY <1>2, <2>7 DEF Count
<1> QED BY <1>4 DEF FsInv, RefsExact

(* So nothing is left over between calls.                                  *)
LEMMA InvIdle ==
  ASSUME FsInv
  PROVE  NothingLeaks
<1> SUFFICES ASSUME \A p \in Procs : pc[p] = "idle", NEW i \in Inums
             PROVE  /\ ref[i] = Cardinality({p \in Procs : cwd[p] = i})
                                + Cardinality({p \in Procs : file[p] = i})
                    /\ lock[i] = NONE
                    /\ nlink[i] = 0 /\ ref[i] = 0 /\ i \notin crossed => ~Allocated(i)
  BY DEF NothingLeaks
<1>1. ASSUME NEW p \in Procs PROVE Where(p) = "idle" /\ put[p] = NONE
  <2>1. Where(p) = "idle" /\ pc[p] \notin InPut
    BY DEF Where, InPut
  <2> QED BY <2>1 DEF FsInv, Local, Typed
<1>2. lock[i] = NONE
  <2>1. \A p \in Procs : ~Locked(p, i)
    BY <1>1 DEF Locked, LocksCur, LocksIp
  <2>2. lock[i] \in Procs \cup {NONE}
    BY DEF FsInv, DiskType, CacheOK
  <2> QED BY <2>1, <2>2 DEF FsInv, LocksExact
<1>3. ASSUME nlink[i] = 0, ref[i] = 0, i \notin crossed, Allocated(i) PROVE FALSE
  <2>1. i # NONE
    BY Consts
  <2>2. PICK p \in Procs : i \in Uses(p)
    BY <1>1, <1>3, <2>1 DEF FsInv, ToBeFreed
  <2>3. PICK r \in Roles : Holding(p, r) = i
    BY <2>2 DEF Uses
  <2>4. held[<<p, r>>] = i /\ <<p, r>> \in Procs \X Roles
    BY <2>3 DEF held
  <2>5. {h \in Procs \X Roles : held[h] = i} # {}
    BY <2>4
  <2>6. IsFiniteSet({h \in Procs \X Roles : held[h] = i})
    BY FiniteFactsHold, FinSets, FinSubset
  <2>7. Count(held, i) # 0
    BY <2>5, <2>6, FiniteFactsHold, FinCard DEF Count
  <2> QED BY <1>3, <2>7 DEF FsInv, RefsExact
<1> QED BY <1>2, <1>3, IdleRefs

(* Every path through the calls gives back the references and locks it     *)
(* took, and what has no name and no user is free, but for the i-nodes two *)
(* iput's let go together.                                                 *)
THEOREM CallsGiveBack == Spec => []NothingLeaks
<1>1. FsInv => NothingLeaks
  BY InvIdle
<1> QED BY <1>1, FsInductive, PTL
=============================================================================
