------------------------------- MODULE FsSteps -------------------------------
(***************************************************************************)
(* An invariant of the i-nodes, their cache and the directories (Fs), for  *)
(* any number of processes, i-nodes and names, and any calls on paths of   *)
(* names; and that the steps that leave the directories alone keep it.     *)
(***************************************************************************)
EXTENDS Fs, TLAPS

----------------------------------------------------------------------------
(* Where a process is in its call: inside iput, where iput goes on.        *)
InPut == {"iput", "iputFree", "iputDrop"}
Looking == {"namex", "namexLocked", "namexNext", "namexFail"}
Targets == {"link", "linkParent", "unlink", "create", "open", "chdir"}
Conts == {"done", "namexNext", "namexFail", "linkPut", "linkExists", "linkBad",
          "unlinkBad", "unlinkCount", "createIp", "created", "chdirDone"}
Steps == {"link", "linkLocked", "linkParent", "linkParentLocked", "linkExists",
          "linkBad", "linkBadLocked", "linkPut", "unlink", "unlinkLocked", "unlinkIp",
          "unlinkIpLocked", "unlinkBad", "unlinkCount", "create", "createLocked",
          "createIp", "createIpLocked", "createNew", "createNewLocked", "created",
          "open", "openLocked", "chdir", "chdirLocked", "chdirDone", "done", "idle"}

Where(p) == IF pc[p] \in InPut THEN Head(ret[p]) ELSE pc[p]
Target(p) == IF pc[p] \in InPut THEN Head(Tail(ret[p])) ELSE Head(ret[p])

(* The return labels a process has stacked.                                *)
Stacked(p) ==
  \/ pc[p] \in Steps /\ ret[p] = <<>>
  \/ pc[p] \in Looking /\ \E l \in Targets : ret[p] = <<l>>
  \/ pc[p] \in InPut /\ \E k \in Conts \ Looking : ret[p] = <<k>>
  \/ pc[p] \in InPut /\ \E k \in Conts \cap Looking, l \in Targets : ret[p] = <<k, l>>

----------------------------------------------------------------------------
(* What a process has a reference to: its current directory, its file, and *)
(* the i-nodes of its call.                                                *)
CurAt == {"namex", "namexLocked", "link", "linkLocked", "linkParent", "linkParentLocked",
          "linkExists", "unlink", "unlinkLocked", "unlinkIp", "unlinkIpLocked",
          "unlinkBad", "create", "createLocked", "createNew", "createNewLocked",
          "open", "openLocked", "chdir", "chdirLocked", "chdirDone"}
IpAt == {"linkParent", "linkParentLocked", "linkExists", "linkBad", "linkBadLocked",
         "linkPut", "unlinkIp", "unlinkIpLocked", "unlinkCount", "createIp",
         "createIpLocked", "createNew", "createNewLocked", "created"}
Roles == {"cwd", "file", "cur", "ip", "next", "put"}

(* The second namex of sys_link, with the link counted.                    *)
Linking(p) == Where(p) \in Looking /\ Target(p) = "linkParent"

Holding(p, r) ==
  IF r = "cwd" THEN IF Where(p) = "chdirDone" THEN NONE ELSE cwd[p]
  ELSE IF r = "file" THEN file[p]
  ELSE IF r = "cur" THEN IF Where(p) \in CurAt THEN cur[p] ELSE NONE
  ELSE IF r = "ip" THEN IF Where(p) \in IpAt \/ Linking(p) THEN ip[p] ELSE NONE
  ELSE IF r = "next" THEN next[p]
  ELSE put[p]

held == [h \in Procs \X Roles |-> Holding(h[1], h[2])]
Count(f, i) == Cardinality({h \in Procs \X Roles : f[h] = i})

(* A reference counts for one process in one role.                         *)
RefsExact == \A i \in Inums : ref[i] = Count(held, i)

(* iput that has read nlink and ref only drops its reference.              *)
Dropping(p, r) == r = "put" /\ pc[p] = "iputDrop"
Uses(p) == {i \in Inums : \E r \in Roles : Holding(p, r) = i /\ ~Dropping(p, r)}

(* No one else uses what p has in role r.                                  *)
Alone(p, r) ==
  /\ \A q \in Procs \ {p} : Holding(p, r) \notin Uses(q)
  /\ \A s \in Roles \ {r} : Holding(p, s) # Holding(p, r)

(* An i-node in use is allocated.                                          *)
UsedLive == \A p \in Procs : \A i \in Uses(p) : Allocated(i)

----------------------------------------------------------------------------
(* The sleep locks a process holds.                                        *)
LocksCur == {"namexLocked", "linkLocked", "linkParentLocked", "linkExists",
             "unlinkLocked", "unlinkIp", "unlinkIpLocked", "unlinkBad", "createLocked",
             "createNew", "createNewLocked", "openLocked", "chdirLocked"}
LocksIp == {"linkBadLocked", "unlinkIpLocked", "unlinkCount", "createIpLocked",
            "createNewLocked", "created"}

Locked(p, i) ==
  \/ Where(p) \in LocksCur /\ cur[p] = i
  \/ Where(p) \in LocksIp /\ ip[p] = i
  \/ pc[p] = "iputFree" /\ put[p] = i

LocksExact == \A i \in Inums : \A p \in Procs : lock[i] = p <=> Locked(p, i)

----------------------------------------------------------------------------
(* What a process knows at its place in its call.                          *)
LinkAt == {"linkParent", "linkParentLocked", "linkExists", "linkBad", "linkBadLocked"}
ParentAt == {"linkParent", "linkParentLocked", "linkExists", "unlink", "unlinkLocked",
             "unlinkIp", "unlinkIpLocked", "unlinkBad", "create", "createLocked",
             "createNew", "createNewLocked"}
NewAt == {"createNew", "createNewLocked"}

Typed(p) ==
  /\ cwd[p] \in Inums /\ file[p] \in Inums \cup {NONE}
  /\ Where(p) \in CurAt => cur[p] \in Inums
  /\ Where(p) \in IpAt \/ Linking(p) => ip[p] \in Inums
  /\ next[p] \in Inums \cup {NONE} /\ (next[p] # NONE <=> Where(p) = "namexNext")
  /\ put[p] \in Inums \cup {NONE} /\ (put[p] # NONE <=> pc[p] \in InPut)
  /\ path[p] \in Seq(Names)
  /\ Where(p) \in ParentAt \cup {"namexLocked", "namexNext"} => path[p] # <<>>

(* What the call brought, and what it needs later.                         *)
Called(p) ==
  /\ Where(p) \in Looking => bad[p] = IF Target(p) = "linkParent" THEN "linkBad" ELSE "done"
  /\ (Where(p) \in Looking /\ Target(p) = "link") \/ Where(p) \in {"link", "linkLocked"}
       => call[p].new \in Path
  /\ (Where(p) \in Looking /\ Target(p) = "create")
       \/ Where(p) \in {"create", "createLocked", "createNew", "createNewLocked"}
       => call[p].type \in {"T_DIR", "T_FILE", "T_DEV"}
  /\ Where(p) \notin {"done", "idle"} /\ call[p].op = "open" => file[p] = NONE

Seen(p) ==
  /\ Where(p) \in ParentAt \cup {"chdirDone"} => IsDir(cur[p])
  /\ Where(p) # "chdirDone" => IsDir(cwd[p])
  /\ Where(p) = "chdirDone" /\ pc[p] \in InPut => put[p] = cwd[p]
  /\ Where(p) \in LinkAt \/ Linking(p) => ~IsDir(ip[p])
  /\ Where(p) \in {"unlinkIp", "unlinkIpLocked"} => ent[cur[p]][Name(p)] = ip[p]
  /\ Where(p) = "unlinkIpLocked" => ip[p] # cur[p]

(* An i-node just allocated.                                               *)
Fresh(p) ==
  Where(p) \in NewAt =>
    /\ ent[cur[p]][Name(p)] = NONE
    /\ dtype[ip[p]] = call[p].type /\ nlink[ip[p]] = 0
    /\ \A n \in Names \cup Dots : ent[ip[p]][n] = NONE
    /\ Alone(p, "ip")

(* An i-node iput is about to free.                                        *)
Last(p) == pc[p] = "iputFree" => nlink[put[p]] = 0 /\ Alone(p, "put")

Local(p) == Stacked(p) /\ Typed(p) /\ Called(p) /\ Seen(p) /\ Fresh(p) /\ Last(p)

----------------------------------------------------------------------------
(* The disk.                                                               *)
DiskOK ==
  /\ dtype \in [Inums -> {"free", "T_DIR", "T_FILE", "T_DEV"}]
  /\ nlink \in [Inums -> Nat]
  /\ ent \in [Inums -> [Names \cup Dots -> Inums \cup {NONE}]]

CacheOK ==
  /\ ref \in [Inums -> Nat] /\ valid \in [Inums -> BOOLEAN]
  /\ lock \in [Inums -> Procs \cup {NONE}]
  /\ DOMAIN pc = Procs /\ DOMAIN ret = Procs /\ DOMAIN bad = Procs
  /\ DOMAIN cwd = Procs /\ DOMAIN file = Procs /\ DOMAIN call = Procs
  /\ DOMAIN path = Procs /\ DOMAIN cur = Procs /\ DOMAIN ip = Procs
  /\ DOMAIN next = Procs /\ DOMAIN put = Procs

DiskType == DiskOK /\ CacheOK

(* Links counted and not yet in a directory, or no longer.                 *)
Counted(p) == Where(p) \in LinkAt \cup {"unlinkCount"} \/ Linking(p)
Pending(i) == {p \in Procs : Counted(p) /\ ip[p] = i}

LinksOwed ==
  \A i \in Inums :
    Cardinality(Naming(i)) + Cardinality(Subdirs(i)) + Cardinality(Pending(i))
      + (IF i = ROOTINO THEN 1 ELSE 0) <= nlink[i]

(* A directory has one name, in the directory its ".." names; what is not  *)
(* a directory has no entries, and what is free no links.                  *)
Tree ==
  /\ IsDir(ROOTINO) /\ Naming(ROOTINO) = {}
  /\ \A i \in Inums : IsDir(i) =>
       \A x, y \in Naming(i) : x = y /\ ent[i][".."] = x[1]
  /\ \A i \in Inums : ~IsDir(i) => \A n \in Names \cup Dots : ent[i][n] = NONE
  /\ \A i \in Inums : ~Allocated(i) => nlink[i] = 0

(* The cache entry of a locked i-node is read in, and of a free one is not.*)
Cached ==
  \A i \in Inums : (lock[i] # NONE => valid[i]) /\ (valid[i] => Allocated(i))

(* An allocated i-node without links is still to be freed by a process     *)
(* that uses it, or two are about to let it go together.                   *)
ToBeFreed ==
  \A i \in Inums : Allocated(i) /\ nlink[i] = 0 =>
    /\ \/ i \in crossed \/ (\E p \in Procs : i \in Uses(p))
       \/ \E p \in Procs : \E q \in Procs \ {p} : put[p] = i /\ put[q] = i
    /\ \/ valid[i] \/ (\E p \in Procs : pc[p] = "createNew" /\ ip[p] = i)
       \/ \A h \in Procs \X Roles : held[h] # i

FsInv ==
  /\ DiskType /\ RefsExact /\ UsedLive /\ LocksExact /\ (\A p \in Procs : Local(p))
  /\ LinksOwed /\ Tree /\ Cached /\ ToBeFreed

----------------------------------------------------------------------------
(* What is used of finite sets, from the theorems on them.                 *)
FiniteFacts ==
  /\ IsFiniteSet(Procs) /\ IsFiniteSet(Inums) /\ IsFiniteSet(Procs \X Roles)
  /\ IsFiniteSet(Inums \X Names)
  /\ \A S : IsFiniteSet(S) =>
       /\ Cardinality(S) \in Nat /\ (Cardinality(S) = 0 <=> S = {})
       /\ \A T \in SUBSET S : IsFiniteSet(T) /\ Cardinality(T) <= Cardinality(S)
       /\ \A x : x \notin S => Cardinality(S \cup {x}) = Cardinality(S) + 1
       /\ \A x \in S : Cardinality(S \ {x}) = Cardinality(S) - 1

(* The proofs use Zenon where they name no other prover.                   *)
USE Zenon

(* A subset of a finite set.                                               *)
LEMMA FinSubset ==
  ASSUME FiniteFacts, NEW S, IsFiniteSet(S), NEW T, T \subseteq S
  PROVE  IsFiniteSet(T) /\ Cardinality(T) <= Cardinality(S)
  BY DEF FiniteFacts

(* The size of a finite set.                                               *)
LEMMA FinCard ==
  ASSUME FiniteFacts, NEW S, IsFiniteSet(S)
  PROVE  Cardinality(S) \in Nat /\ (Cardinality(S) = 0 <=> S = {})
  BY DEF FiniteFacts

(* One element more, one less.                                             *)
LEMMA FinAdd ==
  ASSUME FiniteFacts, NEW S, IsFiniteSet(S), NEW x, x \notin S
  PROVE  Cardinality(S \cup {x}) = Cardinality(S) + 1
  BY DEF FiniteFacts

(* One element less.                                                       *)
LEMMA FinRemove ==
  ASSUME FiniteFacts, NEW S, IsFiniteSet(S), NEW x \in S
  PROVE  IsFiniteSet(S \ {x}) /\ Cardinality(S \ {x}) = Cardinality(S) - 1
<1>1. S \ {x} \in SUBSET S
  OBVIOUS
<1> QED BY <1>1 DEF FiniteFacts

(* The constants.                                                          *)
LEMMA Consts ==
  ROOTINO \in Inums /\ NONE \notin Inums /\ NONE \notin Procs /\ Inums \subseteq Nat
<1>1. NINUM \in Nat /\ NINUM >= 1 /\ NONE \notin Procs
  BY FsAssumption, SMT
<1> QED BY <1>1, SMT DEF ROOTINO, NONE, Inums

(* The sets of processes, i-nodes and places are finite.                   *)
LEMMA FinSets ==
  ASSUME FiniteFacts
  PROVE  /\ IsFiniteSet(Procs) /\ IsFiniteSet(Inums) /\ IsFiniteSet(Procs \X Roles)
         /\ IsFiniteSet(Inums \X Names)
  BY DEF FiniteFacts

(* Return labels pushed and popped.                                        *)
LEMMA Stack ==
  ASSUME NEW k, NEW l
  PROVE  /\ Head(<<k>>) = k /\ Tail(<<k>>) = <<>> /\ <<k>> \o <<>> = <<k>>
         /\ Head(<<k, l>>) = k /\ Tail(<<k, l>>) = <<l>> /\ <<k>> \o <<l>> = <<k, l>>
<1>1. Head(<<k>>) = k BY SMT
<1>2. Tail(<<k>>) = <<>> BY SMT
<1>3. <<k>> \o <<>> = <<k>> BY SMT
<1>4. Head(<<k, l>>) = k BY SMT
<1>5. Tail(<<k, l>>) = <<l>> BY SMT
<1>6. <<k>> \o <<l>> = <<k, l>>
  <2> DEFINE s == <<k>> \o <<l>>
  <2>1. <<k>> \in Seq({k, l}) /\ <<l>> \in Seq({k, l}) /\ <<k, l>> \in Seq({k, l})
    BY SMT
  <2>2. s \in Seq({k, l}) /\ Len(s) = 2 /\ s[1] = k /\ s[2] = l
    BY <2>1, SMT
  <2>3. Len(<<k, l>>) = 2 /\ <<k, l>>[1] = k /\ <<k, l>>[2] = l
    OBVIOUS
  <2> HIDE DEF s
  <2>4. \A i \in 1..2 : s[i] = <<k, l>>[i]
    BY <2>2, <2>3, SMT
  <2>5. s = <<k, l>>
    BY <2>1, <2>2, <2>3, <2>4, SMT
  <2> QED BY <2>5 DEF s
<1> QED BY <1>1, <1>2, <1>3, <1>4, <1>5, <1>6

(* f and g are the same but in the place x.                                *)
SameBut(f, g, x) == \A h \in Procs \X Roles : h # x => g[h] = f[h]

(* One reference more to e, in the place x.                                *)
LEMMA CountGains ==
  ASSUME FiniteFacts, NEW f, NEW g, NEW x \in Procs \X Roles, NEW e, SameBut(f, g, x),
         f[x] # e, g[x] = e
  PROVE  Count(f, e) \in Nat /\ Count(g, e) = Count(f, e) + 1
<1> DEFINE F == {h \in Procs \X Roles : f[h] = e}
           G == {h \in Procs \X Roles : g[h] = e}
<1>1. IsFiniteSet(F)
  BY FinSets, FinSubset
<1>2. x \notin F /\ G = F \cup {x}
  BY DEF SameBut
<1>3. Cardinality(F) \in Nat
  BY <1>1, FinCard
<1>4. Cardinality(F \cup {x}) = Cardinality(F) + 1
  BY <1>1, <1>2, FinAdd
<1> QED BY <1>2, <1>3, <1>4 DEF Count

(* One reference less to e, in the place x.                                *)
LEMMA CountLoses ==
  ASSUME FiniteFacts, NEW f, NEW g, NEW x \in Procs \X Roles, NEW e, SameBut(f, g, x),
         f[x] = e, g[x] # e
  PROVE  Count(g, e) \in Nat /\ Count(f, e) = Count(g, e) + 1
<1>1. SameBut(g, f, x)
  BY DEF SameBut
<1> QED BY <1>1, CountGains

(* The references to i, where none came or went.                           *)
LEMMA CountSame ==
  ASSUME NEW f, NEW g, NEW i,
         \A h \in Procs \X Roles : f[h] = i <=> g[h] = i
  PROVE  Count(g, i) = Count(f, i)
<1>1. {h \in Procs \X Roles : f[h] = i} = {h \in Procs \X Roles : g[h] = i}
  OBVIOUS
<1> QED BY <1>1 DEF Count

(* A reference goes from the place x to the place y.                       *)
LEMMA CountMoves ==
  ASSUME FiniteFacts, NEW f, NEW g, NEW x \in Procs \X Roles, NEW y \in Procs \X Roles, x # y,
         \A h \in Procs \X Roles : h # x /\ h # y => g[h] = f[h],
         f[y] = NONE, g[x] = NONE, g[y] = f[x]
  PROVE  \A i \in Inums : Count(g, i) = Count(f, i)
<1> TAKE i \in Inums
<1>1. CASE f[x] # i
  BY <1>1, CountSame, Consts, SMT
<1>2. CASE f[x] = i
  <2> DEFINE m == [h \in Procs \X Roles |-> IF h = x THEN NONE ELSE f[h]]
  <2>0. m[x] # i /\ m[y] # i /\ g[y] = i
    BY <1>2, Consts
  <2>a. SameBut(m, f, x) /\ SameBut(m, g, y)
    BY DEF SameBut
  <2> HIDE DEF m
  <2>1. Count(f, i) = Count(m, i) + 1
    BY <1>2, <2>0, <2>a, CountGains, SMT
  <2>2. Count(g, i) = Count(m, i) + 1
    BY <2>0, <2>a, CountGains, SMT
  <2> QED BY <2>1, <2>2
<1> QED BY <1>1, <1>2

(* A reference goes from the place x to the place y, and z gets a new one. *)
LEMMA CountMovesGains ==
  ASSUME FiniteFacts, NEW f, NEW g, NEW x \in Procs \X Roles, NEW y \in Procs \X Roles, x # y,
         NEW z \in Procs \X Roles, z # y, NEW e \in Inums,
         \A h \in Procs \X Roles : h # x /\ h # y /\ h # z => g[h] = f[h],
         f[y] = NONE, g[y] = f[x], g[z] = e, z # x => f[z] = NONE /\ g[x] = NONE
  PROVE  /\ Count(g, e) = Count(f, e) + 1
         /\ \A i \in Inums \ {e} : Count(g, i) = Count(f, i)
<1> DEFINE m == [h \in Procs \X Roles |-> IF h = x THEN NONE
                                          ELSE IF h = y THEN f[x] ELSE f[h]]
<1>1. /\ m[x] = NONE /\ m[y] = f[x] /\ m[z] = NONE
      /\ \A h \in Procs \X Roles : h # x /\ h # y => m[h] = f[h]
  OBVIOUS
<1>2. SameBut(m, g, z)
  BY <1>1 DEF SameBut
<1> HIDE DEF m
<1>3. \A i \in Inums : Count(m, i) = Count(f, i)
  BY <1>1, CountMoves, SMT
<1>4. m[z] # e
  BY <1>1, Consts
<1>5. Count(g, e) = Count(m, e) + 1
  BY <1>2, <1>4, CountGains, SMT
<1>6. \A i \in Inums \ {e} : Count(g, i) = Count(m, i)
  <2>0. \A i \in Inums \ {e} : m[z] # i /\ g[z] # i
    BY <1>1, Consts
  <2>1. \A i \in Inums \ {e} : \A h \in Procs \X Roles : m[h] = i <=> g[h] = i
    BY <1>2, <2>0 DEF SameBut
  <2> QED BY <2>1, CountSame, SMT
<1> QED BY <1>3, <1>5, <1>6

----------------------------------------------------------------------------
(* A step of p leaves the registers of the others.                         *)
Frame(p) ==
  \A q \in Procs \ {p} :
    /\ pc'[q] = pc[q] /\ ret'[q] = ret[q] /\ bad'[q] = bad[q]
    /\ cwd'[q] = cwd[q] /\ file'[q] = file[q] /\ call'[q] = call[q] /\ path'[q] = path[q]
    /\ cur'[q] = cur[q] /\ ip'[q] = ip[q] /\ next'[q] = next[q] /\ put'[q] = put[q]

(* A step of p leaves what the other processes hold, use and lock.         *)
LEMMA FrameFacts ==
  ASSUME NEW p \in Procs, Frame(p), NEW q \in Procs \ {p}
  PROVE  /\ Where(q)' = Where(q) /\ Target(q)' = Target(q)
         /\ (Linking(q)' <=> Linking(q)) /\ (Counted(q)' <=> Counted(q))
         /\ \A r \in Roles : Holding(q, r)' = Holding(q, r)
         /\ Uses(q)' = Uses(q)
         /\ \A i \in Inums : Locked(q, i)' <=> Locked(q, i)
<1>0. /\ pc'[q] = pc[q] /\ ret'[q] = ret[q] /\ cwd'[q] = cwd[q] /\ file'[q] = file[q]
      /\ cur'[q] = cur[q] /\ ip'[q] = ip[q] /\ next'[q] = next[q] /\ put'[q] = put[q]
  BY DEF Frame
<1>1. Where(q)' = Where(q) /\ Target(q)' = Target(q)
  BY <1>0 DEF Where, Target
<1>2. (Linking(q)' <=> Linking(q)) /\ (Counted(q)' <=> Counted(q))
  BY <1>1 DEF Linking, Counted
<1>3. \A r \in Roles : Holding(q, r)' = Holding(q, r)
  BY <1>0, <1>1, <1>2 DEF Holding
<1>4. \A r \in Roles : Dropping(q, r)' <=> Dropping(q, r)
  BY <1>0 DEF Dropping
<1>5. Uses(q)' = Uses(q)
  BY <1>3, <1>4 DEF Uses
<1>6. \A i \in Inums : Locked(q, i)' <=> Locked(q, i)
  BY <1>0, <1>1 DEF Locked
<1> QED BY <1>1, <1>2, <1>3, <1>5, <1>6

(* What a process uses.                                                    *)
LEMMA UsesFacts ==
  ASSUME NEW p \in Procs, Typed(p)
  PROVE  /\ Where(p) # "chdirDone" => cwd[p] \in Uses(p)
         /\ file[p] # NONE => file[p] \in Uses(p)
         /\ Where(p) \in CurAt => cur[p] \in Uses(p)
         /\ Where(p) \in IpAt \/ Linking(p) => ip[p] \in Uses(p)
         /\ next[p] # NONE => next[p] \in Uses(p)
         /\ put[p] # NONE /\ pc[p] # "iputDrop" => put[p] \in Uses(p)
<1>1. ASSUME NEW r \in Roles, ~Dropping(p, r), Holding(p, r) \in Inums
      PROVE  Holding(p, r) \in Uses(p)
  BY <1>1 DEF Uses
<1>2. \A r \in Roles \ {"put"} : ~Dropping(p, r)
  BY DEF Dropping
<1>3. Where(p) # "chdirDone" => cwd[p] \in Uses(p)
  BY <1>1, <1>2 DEF Holding, Roles, Typed
<1>4. file[p] # NONE => file[p] \in Uses(p)
  BY <1>1, <1>2 DEF Holding, Roles, Typed
<1>5. Where(p) \in CurAt => cur[p] \in Uses(p)
  BY <1>1, <1>2 DEF Holding, Roles, Typed
<1>6. Where(p) \in IpAt \/ Linking(p) => ip[p] \in Uses(p)
  BY <1>1, <1>2 DEF Holding, Roles, Typed
<1>7. next[p] # NONE => next[p] \in Uses(p)
  BY <1>1, <1>2 DEF Holding, Roles, Typed
<1>8. put[p] # NONE /\ pc[p] # "iputDrop" => put[p] \in Uses(p)
  BY <1>1 DEF Holding, Roles, Typed, Dropping
<1> QED BY <1>3, <1>4, <1>5, <1>6, <1>7, <1>8

(* A lock is on an i-node in use.                                          *)
LEMMA LockUses ==
  ASSUME NEW p \in Procs, Typed(p), NEW i \in Inums, Locked(p, i)
  PROVE  i \in Uses(p)
<1>1. CASE Where(p) \in LocksCur /\ cur[p] = i
  <2>1. Where(p) \in CurAt
    BY <1>1 DEF LocksCur, CurAt
  <2> QED BY <1>1, <2>1, UsesFacts
<1>2. CASE Where(p) \in LocksIp /\ ip[p] = i
  <2>1. Where(p) \in IpAt
    BY <1>2 DEF LocksIp, IpAt
  <2> QED BY <1>2, <2>1, UsesFacts
<1>3. CASE pc[p] = "iputFree" /\ put[p] = i
  <2>1. put[p] # NONE
    BY <1>3, Consts
  <2> QED BY <1>3, <2>1, UsesFacts
<1> QED BY <1>1, <1>2, <1>3 DEF Locked

----------------------------------------------------------------------------
(* A step of p changes on the disk what it has locked or allocates, and    *)
(* comes to use what it used, allocates, or found linked.                  *)
Touch(p) ==
  \A i \in Inums :
    /\ dtype'[i] # dtype[i] => ~Allocated(i) \/ (pc[p] = "iputFree" /\ i = put[p])
    /\ nlink'[i] # nlink[i] \/ ent'[i] # ent[i] => lock[i] = p \/ ~Allocated(i)
NewUses(p) == \A i \in Uses(p)' : i \in Uses(p) \/ ~Allocated(i) \/ nlink[i] # 0

(* The type of an i-node another process uses is kept.                     *)
LEMMA DtypeKept ==
  ASSUME FsInv, NEW p \in Procs, Touch(p), NEW q \in Procs \ {p}, NEW i \in Uses(q)
  PROVE  dtype'[i] = dtype[i] /\ Allocated(i)
<1>1. i \in Inums /\ Allocated(i)
  BY DEF FsInv, UsedLive, Uses
<1>2. ASSUME pc[p] = "iputFree", i = put[p] PROVE FALSE
  <2>1. Alone(p, "put")
    BY <1>2 DEF FsInv, Local, Last
  <2>2. Holding(p, "put") = put[p]
    BY DEF Holding
  <2> QED BY <1>2, <2>1, <2>2 DEF Alone
<1> QED BY <1>1, <1>2 DEF Touch

(* What p does not use or lock stays as another process left it.           *)
LEMMA DiskKept ==
  ASSUME FsInv, NEW p \in Procs, Touch(p), NEW q \in Procs \ {p}, NEW i \in Inums,
         Allocated(i), lock[i] # p
  PROVE  nlink'[i] = nlink[i] /\ ent'[i] = ent[i]
  BY DEF Touch

(* What another process has alone stays with it.                           *)
LEMMA AloneKept ==
  ASSUME FsInv, NEW p \in Procs, Frame(p), NewUses(p), NEW q \in Procs \ {p},
         NEW r \in {"ip", "put"}, Alone(q, r), nlink[Holding(q, r)] = 0,
         Allocated(Holding(q, r))
  PROVE  Alone(q, r)'
<1>1. Holding(q, r)' = Holding(q, r) /\ \A s \in Roles : Holding(q, s)' = Holding(q, s)
  BY FrameFacts DEF Roles
<1>2. \A s \in Roles \ {r} : Holding(q, s)' # Holding(q, r)'
  BY <1>1 DEF Alone
<1>3. ASSUME NEW o \in Procs \ {q} PROVE Holding(q, r)' \notin Uses(o)'
  <2>1. CASE o = p
    BY <1>1, <2>1 DEF NewUses, Alone
  <2>2. CASE o # p
    BY <1>1, <2>2, FrameFacts DEF Alone
  <2> QED BY <2>1, <2>2
<1> QED BY <1>2, <1>3 DEF Alone

(* What another process knows stays true.                                  *)
LEMMA OthersLocal ==
  ASSUME FsInv, NEW p \in Procs, Frame(p), Touch(p), NewUses(p), NEW q \in Procs \ {p}
  PROVE  Local(q)'
<1>0. /\ pc'[q] = pc[q] /\ ret'[q] = ret[q] /\ bad'[q] = bad[q]
      /\ cwd'[q] = cwd[q] /\ file'[q] = file[q] /\ call'[q] = call[q] /\ path'[q] = path[q]
      /\ cur'[q] = cur[q] /\ ip'[q] = ip[q] /\ next'[q] = next[q] /\ put'[q] = put[q]
  BY DEF Frame
<1>1. /\ Where(q)' = Where(q) /\ Target(q)' = Target(q) /\ (Linking(q)' <=> Linking(q))
      /\ \A r \in Roles : Holding(q, r)' = Holding(q, r)
  BY FrameFacts
<1>2. Local(q) /\ Typed(q)
  BY DEF FsInv, Local
<1>3. \A i \in Uses(q) : dtype'[i] = dtype[i] /\ Allocated(i)
  BY DtypeKept
<1>4. ASSUME Where(q) \in LocksCur
      PROVE  ent'[cur[q]] = ent[cur[q]] /\ nlink'[cur[q]] = nlink[cur[q]]
  <2>1. cur[q] \in Inums /\ Where(q) \in CurAt
    BY <1>2, <1>4 DEF Typed, LocksCur, CurAt
  <2>2. lock[cur[q]] = q
    BY <1>4, <2>1 DEF FsInv, LocksExact, Locked
  <2>3. Allocated(cur[q])
    BY <1>2, <1>3, <2>1, UsesFacts
  <2> QED BY <2>1, <2>2, <2>3, DiskKept
<1>5. Stacked(q)'
  BY <1>0, <1>2 DEF Local, Stacked
<1>6. Typed(q)'
  BY <1>0, <1>1, <1>2 DEF Typed
<1>7. Called(q)'
  BY <1>0, <1>1, <1>2 DEF Local, Called
<1>8. Seen(q)'
  <2>0. Seen(q)
    BY <1>2 DEF Local
  <2>1. Where(q) \in ParentAt \cup {"chdirDone"} => IsDir(cur[q])'
    <3>1. Where(q) \in ParentAt \cup {"chdirDone"} => Where(q) \in CurAt
      BY DEF ParentAt, CurAt
    <3> QED BY <1>0, <1>2, <1>3, <2>0, <3>1, UsesFacts DEF Seen, IsDir
  <2>2. Where(q) # "chdirDone" => IsDir(cwd[q])'
    BY <1>0, <1>2, <1>3, <2>0, UsesFacts DEF Seen, IsDir
  <2>3. Where(q) \in LinkAt \/ Linking(q) => ~IsDir(ip[q])'
    <3>1. Where(q) \in LinkAt => Where(q) \in IpAt
      BY DEF LinkAt, IpAt
    <3> QED BY <1>0, <1>2, <1>3, <2>0, <3>1, UsesFacts DEF Seen, IsDir
  <2>4. Where(q) \in {"unlinkIp", "unlinkIpLocked"} => (ent[cur[q]][Name(q)] = ip[q])'
    <3>1. Where(q) \in {"unlinkIp", "unlinkIpLocked"} => Where(q) \in LocksCur
      BY DEF LocksCur
    <3> QED BY <1>0, <1>4, <2>0, <3>1 DEF Seen, Name
  <2> QED BY <1>0, <1>1, <2>0, <2>1, <2>2, <2>3, <2>4 DEF Seen
<1>9. Fresh(q)'
  <2>1. SUFFICES ASSUME Where(q) \in NewAt
                 PROVE  /\ ent'[cur[q]][Name(q)] = NONE
                        /\ dtype'[ip[q]] = call[q].type /\ nlink'[ip[q]] = 0
                        /\ \A n \in Names \cup Dots : ent'[ip[q]][n] = NONE
                        /\ Alone(q, "ip")'
    BY <1>0, <1>1 DEF Fresh, Name
  <2>2. /\ ent[cur[q]][Name(q)] = NONE
        /\ dtype[ip[q]] = call[q].type /\ nlink[ip[q]] = 0
        /\ \A n \in Names \cup Dots : ent[ip[q]][n] = NONE
        /\ Alone(q, "ip")
    BY <1>2, <2>1 DEF Local, Fresh
  <2>3. Where(q) \in LocksCur /\ Where(q) \in IpAt
    BY <2>1 DEF NewAt, LocksCur, IpAt
  <2>4. ip[q] \in Uses(q) /\ ip[q] \in Inums /\ Holding(q, "ip") = ip[q]
    BY <1>2, <2>3, UsesFacts DEF Typed, Holding
  <2>5. lock[ip[q]] # p
    <3>1. SUFFICES ASSUME lock[ip[q]] = p PROVE FALSE
      OBVIOUS
    <3>2. ip[q] \in Uses(p)
      BY <2>4, <3>1, LockUses DEF FsInv, LocksExact, Local
    <3> QED BY <2>2, <2>4, <3>2 DEF Alone
  <2>6. nlink'[ip[q]] = nlink[ip[q]] /\ ent'[ip[q]] = ent[ip[q]]
    BY <1>3, <2>4, <2>5, DiskKept
  <2>7. Alone(q, "ip")'
    BY <1>3, <2>2, <2>4, AloneKept
  <2> QED BY <1>3, <1>4, <2>2, <2>3, <2>4, <2>6, <2>7 DEF Name
<1>10. Last(q)'
  <2>1. SUFFICES ASSUME pc[q] = "iputFree" PROVE nlink'[put[q]] = 0 /\ Alone(q, "put")'
    BY <1>0 DEF Last
  <2>2. nlink[put[q]] = 0 /\ Alone(q, "put") /\ Holding(q, "put") = put[q]
    BY <1>2, <2>1 DEF Local, Last, Holding
  <2>3. put[q] \in Inums /\ put[q] \in Uses(q)
    BY <1>2, <2>1, UsesFacts DEF Typed, InPut
  <2>4. lock[put[q]] = q
    BY <2>1, <2>3 DEF FsInv, LocksExact, Locked
  <2>5. nlink'[put[q]] = nlink[put[q]]
    BY <1>3, <2>3, <2>4, DiskKept
  <2>6. Alone(q, "put")'
    BY <1>3, <2>2, <2>3, AloneKept
  <2> QED BY <2>2, <2>5, <2>6
<1> QED BY <1>5, <1>6, <1>7, <1>8, <1>9, <1>10 DEF Local

----------------------------------------------------------------------------
(* How the references and locks of p change in a step.                     *)
Stays(p) == \A t \in Roles : Holding(p, t)' = Holding(p, t)
Moves(p, r, s) ==
  /\ Holding(p, s) = NONE /\ Holding(p, r)' = NONE /\ Holding(p, s)' = Holding(p, r)
  /\ \A t \in Roles \ {r, s} : Holding(p, t)' = Holding(p, t)
Gains(p, s, e) ==
  /\ Holding(p, s) = NONE /\ Holding(p, s)' = e
  /\ \A t \in Roles \ {s} : Holding(p, t)' = Holding(p, t)
MovesGains(p, r, s, u, e) ==
  /\ Holding(p, s) = NONE /\ Holding(p, s)' = Holding(p, r) /\ Holding(p, u)' = e
  /\ u # r => Holding(p, u) = NONE /\ Holding(p, r)' = NONE
  /\ \A t \in Roles \ {r, s, u} : Holding(p, t)' = Holding(p, t)

(* What held is, process by process and role by role.                      *)
LEMMA HeldFacts ==
  /\ \A p \in Procs : \A r \in Roles : held[<<p, r>>] = Holding(p, r)
  /\ \A h \in Procs \X Roles : h = <<h[1], h[2]>> /\ h[1] \in Procs /\ h[2] \in Roles
<1>1. \A h \in Procs \X Roles : h = <<h[1], h[2]>> /\ h[1] \in Procs /\ h[2] \in Roles
  BY SMT
<1> QED BY <1>1 DEF held

(* A step of p leaves what the others hold.                                *)
LEMMA HeldOthers ==
  ASSUME NEW p \in Procs, Frame(p)
  PROVE  \A h \in Procs \X Roles : h[1] # p => held'[h] = held[h]
<1>1. ASSUME NEW h \in Procs \X Roles, h[1] # p PROVE Holding(h[1], h[2])' = Holding(h[1], h[2])
  <2>1. h[1] \in Procs \ {p} /\ h[2] \in Roles
    BY <1>1
  <2> QED BY <2>1, FrameFacts
<1> QED BY <1>1 DEF held

(* What is used, by the roles.                                             *)
LEMMA UsesRoles ==
  ASSUME NEW p \in Procs, NEW i \in Inums
  PROVE  /\ pc[p] # "iputDrop" => (i \in Uses(p) <=> \E r \in Roles : Holding(p, r) = i)
         /\ pc'[p] # "iputDrop" => (i \in Uses(p)' <=> \E r \in Roles : Holding(p, r)' = i)
  BY DEF Uses, Dropping

(* No reference is taken, moved or dropped.                                *)
LEMMA StaysCounts ==
  ASSUME FsInv, NEW p \in Procs, Frame(p), Stays(p), ref' = ref,
         pc[p] # "iputDrop", pc'[p] # "iputDrop"
  PROVE  RefsExact' /\ Uses(p)' = Uses(p)
<1>1. \A h \in Procs \X Roles : held'[h] = held[h]
  <2>1. \A h \in Procs \X Roles : h[1] = p => held'[h] = held[h]
    BY DEF Stays, held
  <2> QED BY <2>1, HeldOthers
<1>2. \A i \in Inums : Count(held', i) = Count(held, i)
  BY <1>1, CountSame, SMT
<1>3. RefsExact'
  BY <1>2 DEF FsInv, RefsExact, Count
<1>4. Uses(p) \subseteq Inums /\ Uses(p)' \subseteq Inums
  BY DEF Uses, Inums
<1>5. \A i \in Inums : i \in Uses(p)' <=> i \in Uses(p)
  BY UsesRoles DEF Stays
<1> QED BY <1>3, <1>4, <1>5

(* A reference moves from one role to another.                             *)
LEMMA MovesCounts ==
  ASSUME FiniteFacts, FsInv, NEW p \in Procs, Frame(p), NEW r \in Roles, NEW s \in Roles, r # s,
         Moves(p, r, s), ref' = ref, pc[p] # "iputDrop", pc'[p] # "iputDrop"
  PROVE  RefsExact' /\ Uses(p)' = Uses(p)
<1> DEFINE x == <<p, r>>  y == <<p, s>>
<1>1. /\ x \in Procs \X Roles /\ y \in Procs \X Roles /\ x # y
      /\ held[y] = NONE /\ held'[x] = NONE /\ held'[y] = held[x]
  BY DEF Moves, held
<1>2. \A h \in Procs \X Roles : h # x /\ h # y => held'[h] = held[h]
  <2>1. \A h \in Procs \X Roles : h[1] = p /\ h[2] \notin {r, s} => held'[h] = held[h]
    BY DEF Moves, held
  <2>2. \A h \in Procs \X Roles : h # x /\ h # y => h[1] # p \/ h[2] \notin {r, s}
    BY HeldFacts
  <2> QED BY <2>1, <2>2, HeldOthers
<1> HIDE DEF x, y
<1>3. \A i \in Inums : Count(held', i) = Count(held, i)
  BY <1>1, <1>2, CountMoves
<1>4. RefsExact'
  BY <1>3 DEF FsInv, RefsExact, Count
<1>5. Uses(p) \subseteq Inums /\ Uses(p)' \subseteq Inums
  BY DEF Uses, Inums
<1>6. \A i \in Inums : i \in Uses(p)' <=> i \in Uses(p)
  BY UsesRoles, Consts, ZenonT(40) DEF Moves
<1> QED BY <1>4, <1>5, <1>6

(* iget counts one reference more.                                         *)
LEMMA GainsCounts ==
  ASSUME FiniteFacts, FsInv, NEW p \in Procs, Frame(p), NEW s \in Roles, NEW e \in Inums,
         Gains(p, s, e), ref' = [ref EXCEPT ![e] = @ + 1],
         pc[p] # "iputDrop", pc'[p] # "iputDrop"
  PROVE  RefsExact' /\ Uses(p)' = Uses(p) \cup {e}
<1> DEFINE y == <<p, s>>
<1>1. y \in Procs \X Roles /\ held[y] = NONE /\ held'[y] = e
  BY DEF Gains, held
<1>2. SameBut(held, held', y)
  <2>1. \A h \in Procs \X Roles : h[1] = p /\ h[2] # s => held'[h] = held[h]
    BY DEF Gains, held
  <2>2. \A h \in Procs \X Roles : h # y => h[1] # p \/ h[2] # s
    BY HeldFacts
  <2> QED BY <2>1, <2>2, HeldOthers DEF SameBut
<1>a. held[y] # e /\ \A i \in Inums \ {e} : \A h \in Procs \X Roles : held[h] = i <=> held'[h] = i
  BY <1>1, <1>2, Consts DEF SameBut
<1> HIDE DEF y
<1>3. Count(held', e) = Count(held, e) + 1
  BY <1>1, <1>2, <1>a, CountGains, SMT
<1>4. \A i \in Inums \ {e} : Count(held', i) = Count(held, i)
  BY <1>a, CountSame, SMT
<1>5. RefsExact'
  <2>1. ref'[e] = ref[e] + 1 /\ \A i \in Inums \ {e} : ref'[i] = ref[i]
    BY DEF FsInv, DiskType, DiskOK, CacheOK
  <2>2. \A i \in Inums : ref'[i] = Count(held', i)
    BY <1>3, <1>4, <2>1 DEF FsInv, RefsExact
  <2> QED BY <2>2 DEF RefsExact, Count
<1>6. Uses(p) \subseteq Inums /\ Uses(p)' \subseteq Inums
  BY DEF Uses, Inums
<1>7. \A i \in Inums : i \in Uses(p)' <=> (i \in Uses(p) \/ i = e)
  BY UsesRoles, Consts, ZenonT(40) DEF Gains
<1> QED BY <1>5, <1>6, <1>7

(* One reference moves, and iget counts another.                           *)
LEMMA MovesGainsCounts ==
  ASSUME FiniteFacts, FsInv, NEW p \in Procs, Frame(p), NEW r \in Roles, NEW s \in Roles, r # s,
         NEW u \in Roles, u # s, NEW e \in Inums,
         MovesGains(p, r, s, u, e), ref' = [ref EXCEPT ![e] = @ + 1],
         pc[p] # "iputDrop", pc'[p] # "iputDrop"
  PROVE  RefsExact' /\ Uses(p)' = Uses(p) \cup {e}
<1> DEFINE x == <<p, r>>  y == <<p, s>>  z == <<p, u>>
<1>1. /\ x \in Procs \X Roles /\ y \in Procs \X Roles /\ x # y
      /\ z \in Procs \X Roles /\ z # y
      /\ held[y] = NONE /\ held'[y] = held[x] /\ held'[z] = e
      /\ z # x => held[z] = NONE /\ held'[x] = NONE
  BY DEF MovesGains, held
<1>2. \A h \in Procs \X Roles : h # x /\ h # y /\ h # z => held'[h] = held[h]
  <2>1. \A h \in Procs \X Roles : h[1] = p /\ h[2] \notin {r, s, u} => held'[h] = held[h]
    BY DEF MovesGains, held
  <2>2. \A h \in Procs \X Roles :
          h # x /\ h # y /\ h # z => h[1] # p \/ h[2] \notin {r, s, u}
    BY HeldFacts
  <2> QED BY <2>1, <2>2, HeldOthers
<1> HIDE DEF x, y, z
<1>3. /\ Count(held', e) = Count(held, e) + 1
      /\ \A i \in Inums \ {e} : Count(held', i) = Count(held, i)
  BY <1>1, <1>2, CountMovesGains, SMT
<1>8. RefsExact'
  <2>1. ref'[e] = ref[e] + 1 /\ \A i \in Inums \ {e} : ref'[i] = ref[i]
    BY DEF FsInv, DiskType, DiskOK, CacheOK
  <2>2. \A i \in Inums : ref'[i] = Count(held', i)
    BY <1>3, <2>1 DEF FsInv, RefsExact
  <2> QED BY <2>2 DEF RefsExact, Count
<1>9. Uses(p) \subseteq Inums /\ Uses(p)' \subseteq Inums
  BY DEF Uses, Inums
<1>10. \A i \in Inums : i \in Uses(p)' <=> (i \in Uses(p) \/ i = e)
  BY UsesRoles, Consts, SMT DEF MovesGains
<1> QED BY <1>8, <1>9, <1>10

----------------------------------------------------------------------------
(* No sleep lock is taken or given back.                                   *)
LEMMA LocksStay ==
  ASSUME FsInv, NEW p \in Procs, Frame(p), lock' = lock,
         \A i \in Inums : Locked(p, i)' <=> Locked(p, i)
  PROVE  LocksExact'
<1>1. ASSUME NEW i \in Inums, NEW q \in Procs PROVE lock[i] = q <=> Locked(q, i)'
  BY <1>1, FrameFacts DEF FsInv, LocksExact
<1> QED BY <1>1 DEF LocksExact, Inums

(* ilock takes one.                                                        *)
LEMMA LocksTaken ==
  ASSUME FsInv, NEW p \in Procs, Frame(p), NEW e \in Inums, lock[e] = NONE,
         lock' = [lock EXCEPT ![e] = p],
         \A i \in Inums : Locked(p, i)' <=> Locked(p, i) \/ i = e
  PROVE  LocksExact'
<1>1. lock'[e] = p /\ \A i \in Inums \ {e} : lock'[i] = lock[i]
  BY DEF FsInv, DiskType, DiskOK, CacheOK
<1>2. ASSUME NEW i \in Inums, NEW q \in Procs PROVE lock'[i] = q <=> Locked(q, i)'
  <2>1. lock[i] = q <=> Locked(q, i)
    BY DEF FsInv, LocksExact
  <2>2. CASE q = p
    BY <1>1, <2>1, <2>2
  <2>3. CASE q # p
    <3>1. Locked(q, i)' <=> Locked(q, i)
      BY <2>3, FrameFacts
    <3> QED BY <1>1, <2>1, <2>3, <3>1, Consts
  <2> QED BY <2>2, <2>3
<1> QED BY <1>2 DEF LocksExact, Inums

(* iunlock gives one back.                                                 *)
LEMMA LocksDropped ==
  ASSUME FsInv, NEW p \in Procs, Frame(p), NEW e \in Inums, Locked(p, e),
         lock' = [lock EXCEPT ![e] = NONE],
         \A i \in Inums : Locked(p, i)' <=> Locked(p, i) /\ i # e
  PROVE  LocksExact'
<1>1. lock'[e] = NONE /\ \A i \in Inums \ {e} : lock'[i] = lock[i]
  BY DEF FsInv, DiskType, DiskOK, CacheOK
<1>2. ASSUME NEW i \in Inums, NEW q \in Procs PROVE lock'[i] = q <=> Locked(q, i)'
  <2>1. (lock[i] = q <=> Locked(q, i)) /\ lock[e] = p
    BY DEF FsInv, LocksExact
  <2>2. CASE q = p
    BY <1>1, <2>1, <2>2, Consts
  <2>3. CASE q # p
    <3>1. Locked(q, i)' <=> Locked(q, i)
      BY <2>3, FrameFacts
    <3> QED BY <1>1, <2>1, <2>3, <3>1, Consts
  <2> QED BY <2>2, <2>3
<1> QED BY <1>2 DEF LocksExact, Inums

(* The invariant after a step, from its parts.                             *)
LEMMA Assemble ==
  ASSUME FsInv, NEW p \in Procs, Frame(p), Touch(p), NewUses(p), Local(p)',
         DiskType', RefsExact', LocksExact', LinksOwed', Tree', Cached', ToBeFreed',
         \A i \in Uses(p)' : dtype'[i] # "free"
  PROVE  FsInv'
<1>1. \A q \in Procs : Local(q)'
  BY OthersLocal
<1>2. ASSUME NEW q \in Procs, NEW i \in Uses(q)' PROVE Allocated(i)'
  <2>1. CASE q = p
    BY <2>1, <1>2 DEF Allocated
  <2>2. CASE q # p
    BY <2>2, <1>2, FrameFacts, DtypeKept DEF Allocated
  <2> QED BY <2>1, <2>2
<1>3. UsedLive'
  BY <1>2 DEF UsedLive
<1> QED BY <1>1, <1>3 DEF FsInv

(* Links and names do not change with the disk.                            *)
LEMMA LinksKept ==
  ASSUME FsInv, NEW p \in Procs, Frame(p), disk' = disk, (Counted(p)' <=> Counted(p)),
         Counted(p) => ip'[p] = ip[p]
  PROVE  LinksOwed' /\ Tree'
<1>1. dtype' = dtype /\ nlink' = nlink /\ ent' = ent
  BY DEF disk
<1>2. \A i \in Inums : Naming(i)' = Naming(i)
  BY <1>1 DEF Naming, Allocated
<1>3. \A i \in Inums : Subdirs(i)' = Subdirs(i)
  BY <1>1, <1>2 DEF Subdirs
<1>4. ASSUME NEW i \in Inums PROVE Pending(i)' = Pending(i)
  <2>1. \A q \in Procs \ {p} : (Counted(q)' <=> Counted(q)) /\ ip'[q] = ip[q]
    BY FrameFacts DEF Frame
  <2> QED BY <2>1 DEF Pending
<1>5. LinksOwed'
  BY <1>1, <1>2, <1>3, <1>4 DEF FsInv, LinksOwed
<1>6. Tree'
  <2>1. Tree /\ Inums' = Inums
    BY DEF FsInv, Inums
  <2>2. IsDir(ROOTINO)' /\ Naming(ROOTINO)' = {}
    BY <1>1, <1>2, <2>1, Consts DEF Tree, IsDir
  <2>3. \A i \in Inums : IsDir(i)' => \A x, y \in Naming(i)' : x = y /\ ent'[i][".."] = x[1]
    BY <1>1, <1>2, <2>1 DEF Tree, IsDir
  <2>4. \A i \in Inums : ~IsDir(i)' => \A n \in Names \cup Dots : ent'[i][n] = NONE
    BY <1>1, <2>1 DEF Tree, IsDir
  <2>5. \A i \in Inums : ~Allocated(i)' => nlink'[i] = 0
    BY <1>1, <2>1 DEF Tree, Allocated
  <2> QED BY <2>2, <2>3, <2>4, <2>5 DEF Tree
<1> QED BY <1>5, <1>6

(* The cache and what is to be freed, over a step that leaves the disk and *)
(* does not drop a reference.                                              *)
CacheStep(p) ==
  \A i \in Inums : /\ lock'[i] # NONE => lock[i] # NONE \/ valid'[i]
                   /\ valid[i] => valid'[i]
                   /\ valid'[i] => valid[i] \/ i \in Uses(p)

(* ilock reads an i-node that is in use, so an allocated one.              *)
LEMMA CacheKept ==
  ASSUME FsInv, NEW p \in Procs, dtype' = dtype, CacheStep(p)
  PROVE  Cached'
<1>1. \A i \in Uses(p) : Allocated(i)
  BY DEF FsInv, UsedLive
<1> QED BY <1>1 DEF FsInv, Cached, CacheStep, Allocated

(* Without iput, what is still to be freed is still used by someone.       *)
LEMMA ToBeFreedKept ==
  ASSUME FsInv, NEW p \in Procs, Frame(p), disk' = disk, crossed' = crossed,
         CacheStep(p), pc[p] \notin InPut, pc'[p] # "iputDrop",
         pc[p] = "createNew" => valid'[ip[p]], Uses(p) \subseteq Uses(p)',
         \A i \in Uses(p)' : i \in Uses(p) \/ nlink[i] # 0
  PROVE  ToBeFreed'
<1>1. dtype' = dtype /\ nlink' = nlink
  BY DEF disk
<1>2. ASSUME NEW i \in Inums, Allocated(i), nlink[i] = 0
      PROVE  \/ i \in crossed' \/ (\E q \in Procs : i \in Uses(q)')
             \/ \E q \in Procs : \E o \in Procs \ {q} : put'[q] = i /\ put'[o] = i
  <2>1. CASE i \in crossed
    BY <2>1
  <2>2. ASSUME NEW q \in Procs, i \in Uses(q) PROVE i \in Uses(q)'
    BY <2>2, FrameFacts
  <2>3. ASSUME NEW q \in Procs, NEW o \in Procs \ {q}, put[q] = i, put[o] = i
        PROVE  put'[q] = i /\ put'[o] = i
    <3>1. put[p] = NONE
      BY DEF FsInv, Local, Typed
    <3>2. q # p /\ o # p
      BY <2>3, <3>1, Consts
    <3> QED BY <2>3, <3>2 DEF Frame
  <2> QED BY <1>2, <2>1, <2>2, <2>3 DEF FsInv, ToBeFreed
<1>3. ASSUME NEW i \in Inums, Allocated(i), nlink[i] = 0
      PROVE  \/ valid'[i] \/ (\E q \in Procs : pc'[q] = "createNew" /\ ip'[q] = i)
             \/ \A h \in Procs \X Roles : held'[h] # i
  <2>1. CASE valid[i]
    BY <2>1 DEF CacheStep
  <2>2. ASSUME NEW q \in Procs, pc[q] = "createNew", ip[q] = i
        PROVE  valid'[i] \/ (pc'[q] = "createNew" /\ ip'[q] = i)
    BY <2>2 DEF Frame
  <2>3. ASSUME \A h \in Procs \X Roles : held[h] # i
        PROVE  \A h \in Procs \X Roles : held'[h] # i
    <3>1. i \notin Uses(p)'
      <4>1. SUFFICES ASSUME i \in Uses(p) PROVE FALSE
        BY <1>3
      <4>2. PICK r \in Roles : Holding(p, r) = i
        BY <4>1 DEF Uses
      <4> QED BY <2>3, <4>2, HeldFacts
    <3>2. \A r \in Roles : Holding(p, r)' # i
      BY <3>1, UsesRoles
    <3>3. \A h \in Procs \X Roles : h[1] = p => held'[h] # i
      BY <3>2 DEF held
    <3> QED BY <2>3, <3>3, HeldOthers
  <2> QED BY <1>3, <2>1, <2>2, <2>3 DEF FsInv, ToBeFreed
<1> QED BY <1>1, <1>2, <1>3 DEF ToBeFreed, Allocated

(* A step that leaves the disk and drops no reference.                     *)
LEMMA QuietStep ==
  ASSUME FsInv, NEW p \in Procs, Frame(p), disk' = disk, crossed' = crossed,
         CacheStep(p), pc[p] \notin InPut, pc'[p] # "iputDrop",
         pc[p] = "createNew" => valid'[ip[p]], Uses(p) \subseteq Uses(p)',
         \A i \in Uses(p)' : i \in Uses(p) \/ nlink[i] # 0,
         (Counted(p)' <=> Counted(p)), Counted(p) => ip'[p] = ip[p],
         Local(p)', DiskType', RefsExact', LocksExact'
  PROVE  FsInv'
<1>1. dtype' = dtype /\ nlink' = nlink /\ ent' = ent
  BY DEF disk
<1>2. Touch(p) /\ NewUses(p)
  BY <1>1 DEF Touch, NewUses
<1>3. \A i \in Uses(p)' : dtype'[i] # "free"
  <2>1. \A i \in Uses(p)' : i \in Inums
    BY DEF Uses, Inums
  <2> QED BY <1>1, <2>1 DEF FsInv, UsedLive, Tree, Allocated
<1>4. LinksOwed' /\ Tree' /\ Cached' /\ ToBeFreed'
  BY <1>1, LinksKept, CacheKept, ToBeFreedKept
<1> QED BY <1>2, <1>3, <1>4, Assemble

----------------------------------------------------------------------------
(* Where a process is that is not in iput.                                 *)
LEMMA AtFacts ==
  ASSUME FsInv, NEW p \in Procs, pc[p] \notin InPut
  PROVE  /\ Where(p) = pc[p] /\ put[p] = NONE /\ Holding(p, "put") = NONE
         /\ Target(p) = Head(ret[p])
         /\ pc[p] \in Steps => ret[p] = <<>> /\ ~Linking(p) /\ next[p] = NONE
         /\ pc[p] \in Looking => Target(p) \in Targets /\ ret[p] = <<Target(p)>>
         /\ pc[p] \in Steps \cup Looking
<1>1. Where(p) = pc[p] /\ Target(p) = Head(ret[p])
  BY DEF Where, Target
<1>2. Stacked(p) /\ Typed(p)
  BY DEF FsInv, Local
<1>3. put[p] = NONE /\ Holding(p, "put") = NONE
  BY <1>2 DEF Typed, Holding
<1>4. Steps \cap Looking = {} /\ Steps \cap InPut = {} /\ Looking \cap InPut = {}
  BY DEF Steps, Looking, InPut
<1>5. pc[p] \in Steps => ret[p] = <<>> /\ ~Linking(p) /\ next[p] = NONE
  <2>1. pc[p] \in Steps => pc[p] \notin Looking /\ pc[p] # "namexNext"
    BY <1>4 DEF Looking
  <2> QED BY <1>1, <1>2, <1>4, <2>1 DEF Stacked, Linking, Typed
<1>6. pc[p] \in Looking => Target(p) \in Targets /\ ret[p] = <<Target(p)>>
  <2>1. SUFFICES ASSUME pc[p] \in Looking PROVE Target(p) \in Targets /\ ret[p] = <<Target(p)>>
    OBVIOUS
  <2>2. PICK l \in Targets : ret[p] = <<l>>
    BY <1>2, <1>4, <2>1 DEF Stacked
  <2>3. Target(p) = l
    BY <1>1, <2>2, Stack
  <2> QED BY <2>2, <2>3
<1>7. pc[p] \in Steps \cup Looking
  BY <1>2 DEF Stacked
<1> QED BY <1>1, <1>3, <1>5, <1>6, <1>7

(* The registers of p but pc, ret and put are left.                        *)
SameRegs(p) ==
  /\ cwd'[p] = cwd[p] /\ file'[p] = file[p] /\ bad'[p] = bad[p] /\ call'[p] = call[p]
  /\ path'[p] = path[p] /\ cur'[p] = cur[p] /\ ip'[p] = ip[p] /\ next'[p] = next[p]

(* Two places of a call at which a process holds and knows the same.       *)
Like(w, l) ==
  /\ w \notin InPut /\ l \notin InPut
  /\ (w \in Steps <=> l \in Steps) /\ (w \in Looking <=> l \in Looking)
  /\ (w \in CurAt <=> l \in CurAt) /\ (w \in IpAt <=> l \in IpAt)
  /\ (w \in ParentAt <=> l \in ParentAt) /\ (w \in LinkAt <=> l \in LinkAt)
  /\ (w \in NewAt <=> l \in NewAt)
  /\ (w = "chdirDone" <=> l = "chdirDone") /\ (w = "namexNext" <=> l = "namexNext")
  /\ (w \in {"unlinkIp", "unlinkIpLocked"} <=> l \in {"unlinkIp", "unlinkIpLocked"})
  /\ (w \in {"link", "linkLocked"} <=> l \in {"link", "linkLocked"})
  /\ (w \in {"create", "createLocked", "createNew", "createNewLocked"}
       <=> l \in {"create", "createLocked", "createNew", "createNewLocked"})
  /\ (w \in {"done", "idle"} <=> l \in {"done", "idle"})
  /\ (w = "unlinkCount" <=> l = "unlinkCount")

(* From one place in a call to another like it, nothing changes hands.     *)
LEMMA Relabel ==
  ASSUME FsInv, NEW p \in Procs, Like(pc[p], pc'[p]), SameRegs(p), ret'[p] = ret[p],
         put'[p] = put[p], disk' = disk, Frame(p),
         pc'[p] = "namexLocked" => path[p] # <<>>,
         pc'[p] = "unlinkIpLocked" => ip[p] # cur[p]
  PROVE  Stays(p) /\ (Counted(p)' <=> Counted(p)) /\ Local(p)'
<1>0. Local(p) /\ Stacked(p) /\ Typed(p) /\ Called(p) /\ Seen(p) /\ Fresh(p)
  BY DEF FsInv, Local
<1>1. /\ Where(p) = pc[p] /\ Where(p)' = pc'[p] /\ Target(p)' = Target(p)
      /\ pc[p] \notin InPut /\ pc'[p] \notin InPut
  BY DEF Like, Where, Target
<1>2. Linking(p)' <=> Linking(p)
  BY <1>1 DEF Like, Linking
<1>3. Counted(p)' <=> Counted(p)
  BY <1>1, <1>2 DEF Like, Counted
<1>4. Stays(p)
  BY <1>1, <1>2 DEF Like, SameRegs, Stays, Holding
<1>5. Stacked(p)'
  BY <1>0, <1>1 DEF Like, Stacked
<1>6. Typed(p)'
  <2>1. pc'[p] \in ParentAt \cup {"namexLocked", "namexNext"} => path[p] # <<>>
    BY <1>0, <1>1 DEF Like, Typed
  <2> QED BY <1>0, <1>1, <1>2, <2>1 DEF Like, Typed, SameRegs
<1>7. Called(p)'
  BY <1>0, <1>1 DEF Like, Called, SameRegs
<1>8. dtype' = dtype /\ nlink' = nlink /\ ent' = ent
  BY DEF disk
<1>9. Seen(p)'
  <2>1. (pc'[p] \in ParentAt \cup {"chdirDone"} => IsDir(cur[p])') /\ (pc'[p] # "chdirDone" => IsDir(cwd[p])')
    BY <1>0, <1>1, <1>8 DEF Like, Seen, IsDir, SameRegs
  <2>2. (pc'[p] \in LinkAt \/ Linking(p)') => ~IsDir(ip[p])'
    BY <1>0, <1>1, <1>2, <1>8 DEF Like, Seen, IsDir, SameRegs
  <2>3. pc'[p] \in {"unlinkIp", "unlinkIpLocked"} => (ent[cur[p]][Name(p)] = ip[p])'
    BY <1>0, <1>1, <1>8 DEF Like, Seen, Name, SameRegs
  <2>4. pc'[p] = "unlinkIpLocked" => (ip[p] # cur[p])'
    BY DEF SameRegs
  <2> QED BY <1>1, <2>1, <2>2, <2>3, <2>4 DEF Seen
<1>10. Uses(p)' = Uses(p)
  <2>1. pc[p] # "iputDrop" /\ pc'[p] # "iputDrop"
    BY <1>1 DEF InPut
  <2> QED BY <1>4, <2>1, UsesRoles DEF Stays, Uses, Dropping, Inums
<1>11. Fresh(p)'
  <2>1. pc'[p] \in NewAt => Alone(p, "ip")'
    <3>1. SUFFICES ASSUME pc'[p] \in NewAt PROVE Alone(p, "ip")'
      OBVIOUS
    <3>2. Alone(p, "ip")
      BY <1>0, <1>1, <3>1 DEF Fresh, Like
    <3>3. Holding(p, "ip")' = Holding(p, "ip") /\ \A s \in Roles : Holding(p, s)' = Holding(p, s)
      BY <1>4 DEF Stays, Roles
    <3>4. \A q \in Procs \ {p} : Uses(q)' = Uses(q)
      BY FrameFacts
    <3> QED BY <3>2, <3>3, <3>4 DEF Alone
  <2> QED BY <1>0, <1>1, <1>8, <2>1 DEF Fresh, Like, SameRegs, Name
<1>12. Last(p)'
  BY <1>1 DEF Last, InPut
<1> QED BY <1>3, <1>4, <1>5, <1>6, <1>7, <1>9, <1>11, <1>12 DEF Local

(* A register that a step of p sets.                                       *)
LEMMA SetFacts ==
  ASSUME NEW f, NEW p \in Procs, NEW v, DOMAIN f = Procs
  PROVE  /\ [f EXCEPT ![p] = v][p] = v /\ DOMAIN [f EXCEPT ![p] = v] = Procs
         /\ \A q \in Procs \ {p} : [f EXCEPT ![p] = v][q] = f[q]
  OBVIOUS

(* A count that a step of p raises.                                        *)
LEMMA CountUp ==
  ASSUME NEW f \in [Inums -> Nat], NEW e \in Inums
  PROVE  [f EXCEPT ![e] = @ + 1] \in [Inums -> Nat]
  BY SMTT(30)

(* ilock, in namex and in the calls.                                       *)
LEMMA LockStep ==
  ASSUME FsInv, NEW p \in Procs, NEW e \in Inums, NEW l, Like(pc[p], l),
         ilock(p, e), Goto(p, l),
         UNCHANGED <<disk, cwd, file, ret, bad, regs, put, panic, crossed>>,
         \/ /\ e = cur[p] /\ pc[p] \in CurAt /\ pc[p] \notin LocksCur /\ l \in LocksCur
            /\ (pc[p] \in LocksIp <=> l \in LocksIp) /\ pc[p] # "createNew"
            /\ l # "unlinkIpLocked"
         \/ /\ e = ip[p] /\ pc[p] \in IpAt /\ pc[p] \notin LocksIp /\ l \in LocksIp
            /\ (pc[p] \in LocksCur <=> l \in LocksCur)
            /\ l = "unlinkIpLocked" => pc[p] \in LocksCur /\ pc[p] \in CurAt,
         l = "namexLocked" => path[p] # <<>>
  PROVE  FsInv'
<1>0. DiskType /\ Typed(p)
  BY DEF FsInv, Local
<1>1. /\ disk' = disk /\ cwd' = cwd /\ file' = file /\ ret' = ret /\ bad' = bad /\ put' = put
      /\ crossed' = crossed /\ call' = call /\ path' = path /\ cur' = cur /\ ip' = ip
      /\ next' = next
  BY DEF regs
<1>2. pc'[p] = l /\ (\A q \in Procs \ {p} : pc'[q] = pc[q]) /\ DOMAIN pc' = Procs
  BY <1>0, SetFacts DEF Goto, DiskType, DiskOK, CacheOK
<1>3. Frame(p) /\ SameRegs(p)
  BY <1>1, <1>2 DEF Frame, SameRegs
<1>4. Where(p) = pc[p] /\ Where(p)' = l /\ pc[p] \notin InPut /\ l \notin InPut
  BY <1>2 DEF Where, Like
<1>5. l = "unlinkIpLocked" => ip[p] # cur[p]
  <2>1. SUFFICES ASSUME l = "unlinkIpLocked", ip[p] = cur[p] PROVE FALSE
    OBVIOUS
  <2>2. pc[p] \in LocksCur /\ cur[p] \in Inums /\ e = cur[p]
    BY <1>0, <1>4, <2>1 DEF Typed
  <2>3. Locked(p, e)
    BY <1>4, <2>2 DEF Locked
  <2>4. lock[e] = p
    BY <2>3 DEF FsInv, LocksExact
  <2> QED BY <2>4, Consts DEF ilock
<1>6. Stays(p) /\ (Counted(p)' <=> Counted(p)) /\ Local(p)'
  BY <1>1, <1>2, <1>3, <1>5, Relabel
<1>7. pc[p] # "iputDrop" /\ pc'[p] # "iputDrop"
  BY <1>2, <1>4 DEF InPut
<1>8. RefsExact' /\ Uses(p)' = Uses(p)
  BY <1>3, <1>6, <1>7, StaysCounts DEF ilock
<1>9. \A i \in Inums : Locked(p, i)' <=> Locked(p, i) \/ i = e
  <2>1. pc[p] # "iputFree" /\ pc'[p] # "iputFree"
    BY <1>2, <1>4 DEF InPut
  <2> QED BY <1>1, <1>2, <1>4, <2>1 DEF Locked
<1>10. LocksExact'
  BY <1>3, <1>9, LocksTaken DEF ilock
<1>11. e \in Uses(p)
  BY <1>0, <1>4, UsesFacts
<1>12. DiskType'
  BY <1>0, <1>1, <1>2 DEF DiskType, DiskOK, CacheOK, ilock, disk
<1>13. valid'[e] /\ (\A i \in Inums \ {e} : valid'[i] = valid[i] /\ lock'[i] = lock[i])
  BY <1>0 DEF ilock, DiskType, DiskOK, CacheOK
<1>14. CacheStep(p)
  BY <1>11, <1>13 DEF CacheStep
<1>15. pc[p] = "createNew" => valid'[ip[p]]
  BY <1>13
<1> QED BY <1>1, <1>3, <1>4, <1>6, <1>7, <1>8, <1>10, <1>12, <1>14, <1>15, QuietStep

(* The places before and after ilock on cur, and on ip.                    *)
CurPair(w, l) ==
  /\ Like(w, l) /\ w \in CurAt /\ w \notin LocksCur /\ l \in LocksCur
  /\ (w \in LocksIp <=> l \in LocksIp) /\ w # "createNew" /\ l # "unlinkIpLocked"
IpPair(w, l) ==
  /\ Like(w, l) /\ w \in IpAt /\ w \notin LocksIp /\ l \in LocksIp
  /\ (w \in LocksCur <=> l \in LocksCur)
  /\ l = "unlinkIpLocked" => w \in LocksCur /\ w \in CurAt

(* The places where the calls take a sleep lock, and where they go on.     *)
LEMMA LockPairs ==
  /\ CurPair("link", "linkLocked") /\ CurPair("linkParent", "linkParentLocked")
  /\ CurPair("unlink", "unlinkLocked") /\ CurPair("create", "createLocked")
  /\ CurPair("open", "openLocked") /\ CurPair("chdir", "chdirLocked")
  /\ CurPair("namex", "namexLocked")
  /\ IpPair("linkBad", "linkBadLocked") /\ IpPair("unlinkIp", "unlinkIpLocked")
  /\ IpPair("createIp", "createIpLocked") /\ IpPair("createNew", "createNewLocked")
<1> USE DEF CurPair, IpPair, Like, InPut, Steps, Looking, CurAt, IpAt, ParentAt, LinkAt, NewAt,
            LocksCur, LocksIp
<1>1. CurPair("link", "linkLocked") OBVIOUS
<1>2. CurPair("linkParent", "linkParentLocked") OBVIOUS
<1>3. CurPair("unlink", "unlinkLocked") OBVIOUS
<1>4. CurPair("create", "createLocked") OBVIOUS
<1>5. CurPair("open", "openLocked") OBVIOUS
<1>6. CurPair("chdir", "chdirLocked") OBVIOUS
<1>7. CurPair("namex", "namexLocked") OBVIOUS
<1>8. IpPair("linkBad", "linkBadLocked") OBVIOUS
<1>9. IpPair("unlinkIp", "unlinkIpLocked") OBVIOUS
<1>10. IpPair("createIp", "createIpLocked") OBVIOUS
<1>11. IpPair("createNew", "createNewLocked") OBVIOUS
<1> HIDE DEF CurPair, IpPair
<1> QED BY <1>1, <1>2, <1>3, <1>4, <1>5, <1>6, <1>7, <1>8, <1>9, <1>10, <1>11

(* ilock(dp) and ilock(ip) in the calls.                                   *)
LEMMA locksCur ==
  ASSUME FsInv, NEW p \in Procs, NEW w, NEW l, CurPair(w, l), l # "namexLocked",
         locks(p, w, cur[p], l)
  PROVE  FsInv'
<1>1. /\ pc[p] = w /\ ilock(p, cur[p]) /\ Goto(p, l)
      /\ UNCHANGED <<disk, cwd, file, ret, bad, regs, put, panic, crossed>>
  BY DEF locks, At
<1>2. cur[p] \in Inums
  <2>1. w \notin InPut
    BY DEF CurPair, Like
  <2> QED BY <1>1, <2>1, AtFacts DEF FsInv, Local, Typed, CurPair
<1> QED BY <1>1, <1>2, LockStep DEF CurPair

(* ilock(ip).                                                              *)
LEMMA locksIp ==
  ASSUME FsInv, NEW p \in Procs, NEW w, NEW l, IpPair(w, l), l # "namexLocked",
         locks(p, w, ip[p], l)
  PROVE  FsInv'
<1>1. /\ pc[p] = w /\ ilock(p, ip[p]) /\ Goto(p, l)
      /\ UNCHANGED <<disk, cwd, file, ret, bad, regs, put, panic, crossed>>
  BY DEF locks, At
<1>2. ip[p] \in Inums
  <2>1. w \notin InPut
    BY DEF IpPair, Like
  <2> QED BY <1>1, <2>1, AtFacts DEF FsInv, Local, Typed, IpPair
<1> QED BY <1>1, <1>2, LockStep DEF IpPair

(* ilock(ip) in namex.                                                     *)
LEMMA namexLockKeeps ==
  ASSUME FsInv, NEW p \in Procs, namexLock(p)
  PROVE  FsInv'
<1>1. /\ pc[p] = "namex" /\ ilock(p, cur[p]) /\ Goto(p, "namexLocked") /\ path[p] # <<>>
      /\ UNCHANGED <<disk, cwd, file, ret, bad, regs, put, panic, crossed>>
  BY DEF namexLock, At
<1>2. CurPair("namex", "namexLocked")
  BY LockPairs
<1>3. cur[p] \in Inums
  <2>1. "namex" \notin InPut
    BY DEF InPut
  <2> QED BY <1>1, <1>2, <2>1, AtFacts DEF FsInv, Local, Typed, CurPair
<1> QED BY <1>1, <1>2, <1>3, LockStep DEF CurPair

----------------------------------------------------------------------------
(* What p must know as it enters iput.                                     *)
LEMMA PutLocal ==
  ASSUME NEW p \in Procs, NEW k \in Conts \ Looking, pc'[p] = "iput", ret'[p] = <<k>>,
         put'[p] \in Inums, cwd'[p] \in Inums, file'[p] \in Inums \cup {NONE},
         next'[p] = NONE, path'[p] \in Seq(Names),
         k \in CurAt => cur'[p] \in Inums, k \in IpAt => ip'[p] \in Inums,
         k \in {"linkExists", "unlinkBad"} => path'[p] # <<>> /\ dtype'[cur'[p]] = "T_DIR",
         k = "chdirDone" => dtype'[cur'[p]] = "T_DIR" /\ put'[p] = cwd'[p],
         k # "chdirDone" => dtype'[cwd'[p]] = "T_DIR",
         k \in {"linkExists", "linkBad"} => dtype'[ip'[p]] # "T_DIR",
         k # "done" /\ call'[p].op = "open" => file'[p] = NONE
  PROVE  Local(p)' /\ Where(p)' = k /\ ~Linking(p)'
<1>1. "iput" \in InPut /\ "iput" \notin Steps /\ "iput" # "iputFree"
  BY DEF InPut, Steps
<1>2. Where(p)' = k
  BY <1>1, Stack DEF Where
<1>3. ~Linking(p)'
  BY <1>2 DEF Linking
<1>4. Stacked(p)'
  BY <1>1 DEF Stacked
<1>5. /\ k \in ParentAt => k \in {"linkExists", "unlinkBad"}
      /\ k \in LinkAt => k \in {"linkExists", "linkBad"}
      /\ k \notin NewAt /\ k \notin {"unlinkIp", "unlinkIpLocked"} /\ k # "unlinkIpLocked"
      /\ k \notin {"link", "linkLocked"} /\ k \notin {"namexLocked", "namexNext"}
      /\ k \notin {"create", "createLocked", "createNew", "createNewLocked"}
      /\ k \notin Looking /\ k # "namexNext"
  BY DEF Conts, Looking, ParentAt, LinkAt, NewAt
<1>6. Typed(p)'
  <2>1. NONE \notin Inums
    BY Consts
  <2>2. /\ (next'[p] # NONE <=> k = "namexNext") /\ (put'[p] # NONE <=> pc'[p] \in InPut)
        /\ k \in ParentAt \cup {"namexLocked", "namexNext"} => path'[p] # <<>>
    BY <1>1, <1>5, <2>1
  <2> QED BY <1>2, <1>3, <2>2 DEF Typed, Inums
<1>7. Called(p)'
  BY <1>2, <1>5 DEF Called
<1>8. Seen(p)'
  BY <1>2, <1>3, <1>5 DEF Seen, IsDir
<1>9. Fresh(p)' /\ Last(p)'
  BY <1>1, <1>2, <1>5 DEF Fresh, Last
<1> QED BY <1>2, <1>3, <1>4, <1>6, <1>7, <1>8, <1>9 DEF Local

(* The places before iunlockput of cur, and where it goes on.              *)
PutsCur(w, k) ==
  /\ w \in Steps /\ k \in Conts \ Looking /\ w \in CurAt /\ k \notin CurAt
  /\ (w \in IpAt <=> k \in IpAt) /\ w \in LocksCur /\ k \notin LocksCur
  /\ (w \in LocksIp <=> k \in LocksIp)
  /\ w \in LocksIp => w \in {"unlinkIpLocked", "createNewLocked"}
  /\ k \in LinkAt => w \in LinkAt
  /\ w # "chdirDone" /\ k # "chdirDone" /\ w \notin {"done", "idle", "createNew"}
  /\ k \notin {"linkExists", "unlinkBad"}

(* iunlockput(dp): the reference moves to iput.                            *)
LEMMA PutsCurStep ==
  ASSUME FiniteFacts, FsInv, NEW p \in Procs, NEW k, PutsCur(pc[p], k), iunlockputThen(p, cur[p], k),
         dtype' = dtype, UNCHANGED <<cwd, file, bad, regs, panic>>
  PROVE  /\ Frame(p) /\ RefsExact' /\ Uses(p)' = Uses(p) /\ LocksExact' /\ Local(p)'
         /\ CacheOK' /\ CacheStep(p) /\ pc'[p] = "iput" /\ Where(p)' = k /\ ~Linking(p)'
         /\ Where(p) = pc[p] /\ ~Linking(p) /\ pc[p] \notin InPut /\ cur[p] \in Inums
         /\ Locked(p, cur[p]) /\ UNCHANGED <<ref, valid, cur, ip, path, call>>
<1>0. CacheOK /\ Typed(p) /\ Seen(p) /\ Fresh(p) /\ Called(p)
  BY DEF FsInv, Local, DiskType
<1>1. /\ cwd' = cwd /\ file' = file /\ bad' = bad /\ call' = call /\ path' = path
      /\ cur' = cur /\ ip' = ip /\ next' = next /\ ref' = ref /\ valid' = valid
  BY DEF regs, iunlockputThen
<1>2. pc[p] \notin InPut /\ pc[p] \in Steps /\ k \in Conts \ Looking
  BY DEF PutsCur, Steps, InPut
<1>3. /\ Where(p) = pc[p] /\ ~Linking(p) /\ put[p] = NONE /\ ret[p] = <<>> /\ next[p] = NONE
  BY <1>2, AtFacts
<1>4. /\ pc'[p] = "iput" /\ put'[p] = cur[p] /\ ret'[p] = <<k>> \o ret[p]
      /\ \A q \in Procs \ {p} : pc'[q] = pc[q] /\ put'[q] = put[q] /\ ret'[q] = ret[q]
      /\ DOMAIN pc' = Procs /\ DOMAIN put' = Procs /\ DOMAIN ret' = Procs
  BY <1>0, SetFacts DEF iunlockputThen, iputThen, Goto, Set, CacheOK
<1>5. ret'[p] = <<k>>
  BY <1>3, <1>4, Stack
<1>6. Frame(p)
  BY <1>1, <1>4 DEF Frame
<1>7. cur[p] \in Inums
  BY <1>0, <1>3 DEF Typed, PutsCur
<1>8. Local(p)' /\ Where(p)' = k /\ ~Linking(p)'
  <2>1. /\ cwd'[p] \in Inums /\ file'[p] \in Inums \cup {NONE} /\ path'[p] \in Seq(Names)
        /\ k \in IpAt => ip'[p] \in Inums
    BY <1>0, <1>1, <1>3 DEF Typed, PutsCur
  <2>2. dtype'[cwd'[p]] = "T_DIR"
    BY <1>0, <1>1, <1>3 DEF Seen, PutsCur, IsDir
  <2>3. k \in {"linkExists", "linkBad"} => dtype'[ip'[p]] # "T_DIR"
    <3>1. k \in {"linkExists", "linkBad"} => k \in LinkAt
      BY DEF LinkAt
    <3> QED BY <1>0, <1>1, <1>3, <3>1 DEF Seen, PutsCur, IsDir
  <2>4. k # "done" /\ call'[p].op = "open" => file'[p] = NONE
    BY <1>0, <1>1, <1>3 DEF Called, PutsCur
  <2>5. put'[p] \in Inums /\ next'[p] = NONE
    BY <1>1, <1>3, <1>4, <1>7
  <2>6. k \notin CurAt /\ k \notin {"linkExists", "unlinkBad"} /\ k # "chdirDone"
    BY DEF PutsCur
  <2> QED BY <1>2, <1>4, <1>5, <2>1, <2>2, <2>3, <2>4, <2>5, <2>6, PutLocal
<1>9. Moves(p, "cur", "put")
  <2>1. Holding(p, "put") = NONE /\ Holding(p, "put")' = cur[p] /\ Holding(p, "cur") = cur[p]
    BY <1>3, <1>4 DEF Holding, PutsCur
  <2>2. Holding(p, "cur")' = NONE
    BY <1>8 DEF Holding, PutsCur
  <2>3. \A t \in Roles \ {"cur", "put"} : Holding(p, t)' = Holding(p, t)
    BY <1>1, <1>3, <1>8 DEF Holding, PutsCur, Roles
  <2> QED BY <2>1, <2>2, <2>3 DEF Moves
<1>10. pc[p] # "iputDrop" /\ pc'[p] # "iputDrop" /\ pc[p] # "iputFree" /\ pc'[p] # "iputFree"
  BY <1>2, <1>4 DEF InPut
<1>11. RefsExact' /\ Uses(p)' = Uses(p)
  <2>1. "cur" \in Roles /\ "put" \in Roles /\ "cur" # "put"
    BY DEF Roles
  <2> QED BY <1>1, <1>6, <1>9, <1>10, <2>1, MovesCounts
<1>12. Locked(p, cur[p])
  BY <1>3 DEF Locked, PutsCur
<1>13. pc[p] \in LocksIp => ip[p] # cur[p]
  <2>1. CASE pc[p] = "unlinkIpLocked"
    BY <1>0, <1>3, <2>1 DEF Seen
  <2>2. CASE pc[p] = "createNewLocked"
    <3>1. pc[p] \in NewAt /\ pc[p] \in IpAt /\ pc[p] \in CurAt
      BY <2>2 DEF NewAt, IpAt, CurAt
    <3>2. Alone(p, "ip") /\ Holding(p, "ip") = ip[p] /\ Holding(p, "cur") = cur[p]
      BY <1>0, <1>3, <3>1 DEF Fresh, Holding
    <3> QED BY <3>2 DEF Alone, Roles
  <2> QED BY <2>1, <2>2 DEF PutsCur
<1>14. \A i \in Inums : Locked(p, i)' <=> Locked(p, i) /\ i # cur[p]
  BY <1>1, <1>3, <1>8, <1>10, <1>13 DEF Locked, PutsCur
<1>15. LocksExact'
  BY <1>6, <1>7, <1>12, <1>14, LocksDropped DEF iunlockputThen, iunlock
<1>16. CacheOK'
  BY <1>0, <1>1, <1>4 DEF CacheOK, iunlockputThen, iunlock
<1>17. CacheStep(p)
  <2>1. \A i \in Inums : lock'[i] # NONE => lock[i] # NONE
    BY <1>0, <1>7 DEF CacheOK, iunlockputThen, iunlock
  <2> QED BY <1>1, <2>1 DEF CacheStep
<1> QED BY <1>1, <1>2, <1>3, <1>4, <1>6, <1>7, <1>8, <1>11, <1>12, <1>15, <1>16, <1>17

(* The places before iunlockput of ip, and where it goes on.               *)
PutsIp(w, k) ==
  /\ w \in Steps /\ k \in Conts \ Looking /\ w \in IpAt /\ k \notin IpAt
  /\ (w \in CurAt <=> k \in CurAt) /\ w \in LocksIp /\ k \notin LocksIp
  /\ (w \in LocksCur <=> k \in LocksCur)
  /\ w \in LocksCur => w = "unlinkIpLocked"
  /\ k \in ParentAt => w \in ParentAt
  /\ w # "chdirDone" /\ k # "chdirDone" /\ w \notin {"done", "idle"}
  /\ k \notin {"linkExists", "linkBad"}

(* iunlockput(ip): the reference moves to iput.                            *)
LEMMA PutsIpStep ==
  ASSUME FiniteFacts, FsInv, NEW p \in Procs, NEW k, PutsIp(pc[p], k), iunlockputThen(p, ip[p], k),
         dtype' = dtype, UNCHANGED <<cwd, file, bad, regs, panic>>
  PROVE  /\ Frame(p) /\ RefsExact' /\ Uses(p)' = Uses(p) /\ LocksExact' /\ Local(p)'
         /\ CacheOK' /\ CacheStep(p) /\ pc'[p] = "iput" /\ Where(p)' = k /\ ~Linking(p)'
         /\ Where(p) = pc[p] /\ ~Linking(p) /\ pc[p] \notin InPut /\ ip[p] \in Inums
         /\ Locked(p, ip[p]) /\ UNCHANGED <<ref, valid, cur, ip, path, call>>
<1>0. CacheOK /\ Typed(p) /\ Seen(p) /\ Fresh(p) /\ Called(p)
  BY DEF FsInv, Local, DiskType
<1>1. /\ cwd' = cwd /\ file' = file /\ bad' = bad /\ call' = call /\ path' = path
      /\ cur' = cur /\ ip' = ip /\ next' = next /\ ref' = ref /\ valid' = valid
  BY DEF regs, iunlockputThen
<1>2. pc[p] \notin InPut /\ pc[p] \in Steps /\ k \in Conts \ Looking
  BY DEF PutsIp, Steps, InPut
<1>3. /\ Where(p) = pc[p] /\ ~Linking(p) /\ put[p] = NONE /\ ret[p] = <<>> /\ next[p] = NONE
  BY <1>2, AtFacts
<1>4. /\ pc'[p] = "iput" /\ put'[p] = ip[p] /\ ret'[p] = <<k>> \o ret[p]
      /\ \A q \in Procs \ {p} : pc'[q] = pc[q] /\ put'[q] = put[q] /\ ret'[q] = ret[q]
      /\ DOMAIN pc' = Procs /\ DOMAIN put' = Procs /\ DOMAIN ret' = Procs
  BY <1>0, SetFacts DEF iunlockputThen, iputThen, Goto, Set, CacheOK
<1>5. ret'[p] = <<k>>
  BY <1>3, <1>4, Stack
<1>6. Frame(p)
  BY <1>1, <1>4 DEF Frame
<1>7. ip[p] \in Inums
  BY <1>0, <1>3 DEF Typed, PutsIp
<1>8. Local(p)' /\ Where(p)' = k /\ ~Linking(p)'
  <2>1. /\ cwd'[p] \in Inums /\ file'[p] \in Inums \cup {NONE} /\ path'[p] \in Seq(Names)
        /\ k \in CurAt => cur'[p] \in Inums
    BY <1>0, <1>1, <1>3 DEF Typed, PutsIp
  <2>2. dtype'[cwd'[p]] = "T_DIR"
    BY <1>0, <1>1, <1>3 DEF Seen, PutsIp, IsDir
  <2>3. k \in {"linkExists", "unlinkBad"} => path'[p] # <<>> /\ dtype'[cur'[p]] = "T_DIR"
    <3>1. k \in {"linkExists", "unlinkBad"} => k \in ParentAt
      BY DEF ParentAt
    <3> QED BY <1>0, <1>1, <1>3, <3>1 DEF Seen, Typed, PutsIp, IsDir
  <2>4. k # "done" /\ call'[p].op = "open" => file'[p] = NONE
    BY <1>0, <1>1, <1>3 DEF Called, PutsIp
  <2>5. put'[p] \in Inums /\ next'[p] = NONE
    BY <1>1, <1>3, <1>4, <1>7
  <2>6. k \notin IpAt /\ k \notin {"linkExists", "linkBad"} /\ k # "chdirDone"
    BY DEF PutsIp
  <2> QED BY <1>2, <1>4, <1>5, <2>1, <2>2, <2>3, <2>4, <2>5, <2>6, PutLocal
<1>9. Moves(p, "ip", "put")
  <2>1. Holding(p, "put") = NONE /\ Holding(p, "put")' = ip[p] /\ Holding(p, "ip") = ip[p]
    BY <1>3, <1>4 DEF Holding, PutsIp
  <2>2. Holding(p, "ip")' = NONE
    BY <1>8 DEF Holding, PutsIp
  <2>3. \A t \in Roles \ {"ip", "put"} : Holding(p, t)' = Holding(p, t)
    BY <1>1, <1>3, <1>8 DEF Holding, PutsIp, Roles
  <2> QED BY <2>1, <2>2, <2>3 DEF Moves
<1>10. pc[p] # "iputDrop" /\ pc'[p] # "iputDrop" /\ pc[p] # "iputFree" /\ pc'[p] # "iputFree"
  BY <1>2, <1>4 DEF InPut
<1>11. RefsExact' /\ Uses(p)' = Uses(p)
  <2>1. "ip" \in Roles /\ "put" \in Roles /\ "ip" # "put"
    BY DEF Roles
  <2> QED BY <1>1, <1>6, <1>9, <1>10, <2>1, MovesCounts
<1>12. Locked(p, ip[p])
  BY <1>3 DEF Locked, PutsIp
<1>13. pc[p] \in LocksCur => ip[p] # cur[p]
  BY <1>0, <1>3 DEF Seen, PutsIp
<1>14. \A i \in Inums : Locked(p, i)' <=> Locked(p, i) /\ i # ip[p]
  BY <1>1, <1>3, <1>8, <1>10, <1>13 DEF Locked, PutsIp
<1>15. LocksExact'
  BY <1>6, <1>7, <1>12, <1>14, LocksDropped DEF iunlockputThen, iunlock
<1>16. CacheOK'
  BY <1>0, <1>1, <1>4 DEF CacheOK, iunlockputThen, iunlock
<1>17. CacheStep(p)
  <2>1. \A i \in Inums : lock'[i] # NONE => lock[i] # NONE
    BY <1>0, <1>7 DEF CacheOK, iunlockputThen, iunlock
  <2> QED BY <1>1, <2>1 DEF CacheStep
<1> QED BY <1>1, <1>2, <1>3, <1>4, <1>6, <1>7, <1>8, <1>11, <1>12, <1>15, <1>16, <1>17

(* The places where the calls call iunlockput, and where they go on.       *)
LEMMA PutPairs ==
  /\ PutsCur("linkLocked", "done") /\ PutsCur("linkParentLocked", "linkPut")
  /\ PutsCur("linkExists", "linkBad") /\ PutsCur("unlinkLocked", "done")
  /\ PutsCur("unlinkIpLocked", "unlinkCount") /\ PutsCur("unlinkBad", "done")
  /\ PutsCur("createNewLocked", "created") /\ PutsCur("openLocked", "done")
  /\ PutsCur("chdirLocked", "done")
  /\ PutsIp("linkBadLocked", "done") /\ PutsIp("unlinkIpLocked", "unlinkBad")
  /\ PutsIp("unlinkCount", "done") /\ PutsIp("createIpLocked", "done")
  /\ PutsIp("created", "done")
<1> USE DEF PutsCur, PutsIp, Conts, Steps, Looking, CurAt, IpAt, LocksCur, LocksIp, LinkAt,
            ParentAt
<1>1. PutsCur("linkLocked", "done") OBVIOUS
<1>2. PutsCur("linkParentLocked", "linkPut") OBVIOUS
<1>3. PutsCur("linkExists", "linkBad") OBVIOUS
<1>4. PutsCur("unlinkLocked", "done") OBVIOUS
<1>5. PutsCur("unlinkIpLocked", "unlinkCount") OBVIOUS
<1>6. PutsCur("unlinkBad", "done") OBVIOUS
<1>7. PutsCur("createNewLocked", "created") OBVIOUS
<1>8. PutsCur("openLocked", "done") OBVIOUS
<1>9. PutsCur("chdirLocked", "done") OBVIOUS
<1>10. PutsIp("linkBadLocked", "done") OBVIOUS
<1>11. PutsIp("unlinkIpLocked", "unlinkBad") OBVIOUS
<1>12. PutsIp("unlinkCount", "done") OBVIOUS
<1>13. PutsIp("createIpLocked", "done") OBVIOUS
<1>14. PutsIp("created", "done") OBVIOUS
<1> HIDE DEF PutsCur, PutsIp
<1> QED BY <1>1, <1>2, <1>3, <1>4, <1>5, <1>6, <1>7, <1>8, <1>9, <1>10, <1>11, <1>12, <1>13,
           <1>14

(* iunlockput on a path that leaves the disk.                              *)
LEMMA PutsCurQuiet ==
  ASSUME FiniteFacts, FsInv, NEW p \in Procs, NEW k, PutsCur(pc[p], k), iunlockputThen(p, cur[p], k),
         UNCHANGED <<disk, cwd, file, bad, regs, panic, crossed>>,
         pc[p] \in LinkAt \cup {"unlinkCount"} <=> k \in LinkAt \cup {"unlinkCount"}
  PROVE  FsInv'
<1>1. /\ disk' = disk /\ dtype' = dtype /\ crossed' = crossed
      /\ UNCHANGED <<cwd, file, bad, regs, panic>>
  BY DEF disk
<1>2. /\ Frame(p) /\ RefsExact' /\ Uses(p)' = Uses(p) /\ LocksExact' /\ Local(p)'
      /\ CacheOK' /\ CacheStep(p) /\ pc'[p] = "iput" /\ Where(p)' = k /\ ~Linking(p)'
      /\ Where(p) = pc[p] /\ ~Linking(p) /\ pc[p] \notin InPut
      /\ UNCHANGED <<ref, valid, cur, ip, path, call>>
  BY <1>1, PutsCurStep
<1>3. (Counted(p)' <=> Counted(p)) /\ ip'[p] = ip[p]
  BY <1>2 DEF Counted
<1>4. DiskType'
  BY <1>1, <1>2 DEF FsInv, DiskType, DiskOK, disk
<1>5. pc'[p] # "iputDrop" /\ (pc[p] = "createNew" => valid'[ip[p]])
  BY <1>2 DEF PutsCur
<1> QED BY <1>1, <1>2, <1>3, <1>4, <1>5, QuietStep

(* The same for ip.                                                        *)
LEMMA PutsIpQuiet ==
  ASSUME FiniteFacts, FsInv, NEW p \in Procs, NEW k, PutsIp(pc[p], k), iunlockputThen(p, ip[p], k),
         UNCHANGED <<disk, cwd, file, bad, regs, panic, crossed>>,
         pc[p] \in LinkAt \cup {"unlinkCount"} <=> k \in LinkAt \cup {"unlinkCount"}
  PROVE  FsInv'
<1>1. /\ disk' = disk /\ dtype' = dtype /\ crossed' = crossed
      /\ UNCHANGED <<cwd, file, bad, regs, panic>>
  BY DEF disk
<1>2. /\ Frame(p) /\ RefsExact' /\ Uses(p)' = Uses(p) /\ LocksExact' /\ Local(p)'
      /\ CacheOK' /\ CacheStep(p) /\ pc'[p] = "iput" /\ Where(p)' = k /\ ~Linking(p)'
      /\ Where(p) = pc[p] /\ ~Linking(p) /\ pc[p] \notin InPut
      /\ UNCHANGED <<ref, valid, cur, ip, path, call>>
  BY <1>1, PutsIpStep
<1>3. (Counted(p)' <=> Counted(p)) /\ ip'[p] = ip[p]
  BY <1>2 DEF Counted
<1>4. DiskType'
  BY <1>1, <1>2 DEF FsInv, DiskType, DiskOK, disk
<1>5. pc'[p] # "iputDrop" /\ (pc[p] = "createNew" => valid'[ip[p]])
  BY <1>2 DEF PutsIp, LocksIp
<1> QED BY <1>1, <1>2, <1>3, <1>4, <1>5, QuietStep

----------------------------------------------------------------------------
(* A step that leaves the disk, drops no reference, and takes no lock.     *)
LEMMA FinishStay ==
  ASSUME FsInv, NEW p \in Procs, Frame(p), disk' = disk, crossed' = crossed,
         pc[p] \notin InPut, pc[p] # "createNew", pc'[p] \notin {"iputDrop", "iputFree"},
         Local(p)', CacheOK', RefsExact', Uses(p) \subseteq Uses(p)',
         \A i \in Uses(p)' : i \in Uses(p) \/ nlink[i] # 0,
         (Counted(p)' <=> Counted(p)), Counted(p) => ip'[p] = ip[p],
         valid' = valid, lock' = lock, \A i \in Inums : Locked(p, i)' <=> Locked(p, i)
  PROVE  FsInv'
<1>1. LocksExact'
  BY LocksStay
<1>2. CacheStep(p)
  BY DEF CacheStep
<1>3. DiskType'
  BY DEF FsInv, DiskType, DiskOK, disk
<1>4. pc'[p] # "iputDrop"
  OBVIOUS
<1> QED BY <1>1, <1>2, <1>3, <1>4, QuietStep

(* A step that leaves the disk and gives a lock back.                      *)
LEMMA FinishDrop ==
  ASSUME FsInv, NEW p \in Procs, Frame(p), disk' = disk, crossed' = crossed,
         pc[p] \notin InPut, pc[p] # "createNew", pc'[p] \notin {"iputDrop", "iputFree"},
         Local(p)', CacheOK', RefsExact', Uses(p) \subseteq Uses(p)',
         \A i \in Uses(p)' : i \in Uses(p) \/ nlink[i] # 0,
         (Counted(p)' <=> Counted(p)), Counted(p) => ip'[p] = ip[p],
         valid' = valid, NEW e \in Inums, lock' = [lock EXCEPT ![e] = NONE], Locked(p, e),
         \A i \in Inums : Locked(p, i)' <=> Locked(p, i) /\ i # e
  PROVE  FsInv'
<1>1. LocksExact'
  BY LocksDropped
<1>2. \A i \in Inums : lock'[i] # NONE => lock[i] # NONE
  BY DEF FsInv, DiskType, CacheOK
<1>3. CacheStep(p)
  BY <1>2 DEF CacheStep
<1>4. DiskType'
  BY DEF FsInv, DiskType, DiskOK, disk
<1>5. pc'[p] # "iputDrop"
  OBVIOUS
<1> QED BY <1>1, <1>3, <1>4, <1>5, QuietStep

(* What p must know as it comes to a place l of a call.                    *)
LEMMA StepLocal ==
  ASSUME NEW p \in Procs, NEW l \in Steps, pc'[p] = l, ret'[p] = <<>>, put'[p] = NONE,
         next'[p] = NONE, cwd'[p] \in Inums, file'[p] \in Inums \cup {NONE},
         path'[p] \in Seq(Names), dtype'[cwd'[p]] = "T_DIR",
         l \notin {"chdirDone", "unlinkIpLocked"},
         l \in CurAt => cur'[p] \in Inums, l \in IpAt => ip'[p] \in Inums,
         l \in ParentAt => path'[p] # <<>> /\ dtype'[cur'[p]] = "T_DIR",
         l \in LinkAt => dtype'[ip'[p]] # "T_DIR",
         l = "unlinkIp" => ent'[cur'[p]][path'[p][1]] = ip'[p],
         l \in {"link", "linkLocked"} => call'[p].new \in Path,
         l \in {"create", "createLocked", "createNew", "createNewLocked"}
           => call'[p].type \in {"T_DIR", "T_FILE", "T_DEV"},
         l \notin {"done", "idle"} /\ call'[p].op = "open" => file'[p] = NONE,
         Fresh(p)'
  PROVE  Local(p)' /\ Where(p)' = l /\ ~Linking(p)'
<1>1. l \notin InPut /\ l \notin Looking /\ l # "namexNext" /\ l # "iputFree"
      /\ l \notin {"namexLocked", "namexNext"}
  BY DEF InPut, Steps, Looking
<1>2. Where(p)' = l
  BY <1>1 DEF Where
<1>3. ~Linking(p)'
  BY <1>1, <1>2 DEF Linking
<1>4. Stacked(p)'
  BY DEF Stacked
<1>5. Typed(p)'
  <2>1. (next'[p] # NONE <=> l = "namexNext") /\ (put'[p] # NONE <=> pc'[p] \in InPut)
    BY <1>1
  <2>2. l \in ParentAt \cup {"namexLocked", "namexNext"} => path'[p] # <<>>
    BY <1>1
  <2> QED BY <1>2, <1>3, <2>1, <2>2 DEF Typed, Inums
<1>6. Called(p)'
  BY <1>1, <1>2 DEF Called, Path
<1>7. Seen(p)'
  BY <1>1, <1>2, <1>3 DEF Seen, IsDir, Name
<1>8. Last(p)'
  BY <1>1 DEF Last
<1> QED BY <1>2, <1>3, <1>4, <1>5, <1>6, <1>7, <1>8 DEF Local

(* What a process knows all through namex, to go on at l.                  *)
LookOK(p, l) ==
  /\ cwd[p] \in Inums /\ file[p] \in Inums \cup {NONE} /\ path[p] \in Seq(Names)
  /\ dtype[cwd[p]] = "T_DIR" /\ (call[p].op = "open" => file[p] = NONE)
  /\ l = "linkParent" => ip[p] \in Inums /\ dtype[ip[p]] # "T_DIR"
  /\ bad[p] = IF l = "linkParent" THEN "linkBad" ELSE "done"
  /\ l = "link" => call[p].new \in Path
  /\ l = "create" => call[p].type \in {"T_DIR", "T_FILE", "T_DEV"}

(* What the invariant says of a process in namex.                          *)
LEMMA LookFacts ==
  ASSUME FsInv, NEW p \in Procs, Where(p) \in Looking
  PROVE  LookOK(p, Target(p)) /\ (Linking(p) <=> Target(p) = "linkParent")
<1>1. Typed(p) /\ Called(p) /\ Seen(p)
  BY DEF FsInv, Local
<1>2. Where(p) # "chdirDone" /\ Where(p) \notin {"done", "idle"}
  BY DEF Looking
<1>3. Linking(p) <=> Target(p) = "linkParent"
  BY DEF Linking
<1> QED BY <1>1, <1>2, <1>3 DEF Typed, Called, Seen, LookOK, IsDir

(* And what a process in namex owes the invariant.                         *)
LEMMA LookLocal ==
  ASSUME NEW p \in Procs, NEW k \in Looking, NEW l \in Targets, LookOK(p, l)',
         \/ pc'[p] = k /\ ret'[p] = <<l>> /\ put'[p] = NONE
         \/ pc'[p] = "iput" /\ k \in Conts /\ ret'[p] = <<k, l>> /\ put'[p] \in Inums,
         k \in {"namex", "namexLocked"} => cur'[p] \in Inums,
         next'[p] \in Inums \cup {NONE}, next'[p] # NONE <=> k = "namexNext",
         k \in {"namexLocked", "namexNext"} => path'[p] # <<>>
  PROVE  /\ Local(p)' /\ Where(p)' = k /\ Target(p)' = l
         /\ (Linking(p)' <=> l = "linkParent")
<1>1. /\ k \notin InPut /\ "iput" \in InPut /\ k \notin ParentAt /\ k \notin IpAt
      /\ k \notin LinkAt /\ k \notin NewAt /\ k # "iputFree" /\ k \notin Steps
      /\ k \notin {"link", "linkLocked"} /\ k # "chdirDone"
      /\ k \notin {"create", "createLocked", "createNew", "createNewLocked"}
      /\ k \notin {"unlinkIp", "unlinkIpLocked"} /\ k # "unlinkIpLocked"
      /\ k \notin {"done", "idle"} /\ "iput" # "iputFree"
      /\ k \in CurAt => k \in {"namex", "namexLocked"}
  BY DEF Looking, InPut, ParentAt, IpAt, LinkAt, NewAt, Steps, CurAt
<1>2. Where(p)' = k /\ Target(p)' = l
  <2>1. CASE pc'[p] = k /\ ret'[p] = <<l>>
    BY <1>1, <2>1, Stack DEF Where, Target
  <2>2. CASE pc'[p] = "iput" /\ ret'[p] = <<k, l>>
    BY <1>1, <2>2, Stack, SMT DEF Where, Target
  <2> QED BY <2>1, <2>2
<1>3. Linking(p)' <=> l = "linkParent"
  BY <1>2 DEF Linking
<1>4. Stacked(p)'
  BY <1>1 DEF Stacked
<1>5. Typed(p)'
  <2>1. NONE \notin Inums
    BY Consts
  <2>2. put'[p] \in Inums \cup {NONE} /\ (put'[p] # NONE <=> pc'[p] \in InPut)
    BY <1>1, <2>1
  <2> QED BY <1>1, <1>2, <1>3, <2>2 DEF Typed, Inums, LookOK
<1>6. Called(p)'
  BY <1>1, <1>2 DEF Called, LookOK, Path
<1>7. Seen(p)'
  BY <1>1, <1>2, <1>3 DEF Seen, LookOK, IsDir
<1>8. Fresh(p)' /\ Last(p)'
  BY <1>1, <1>2 DEF Fresh, Last
<1> QED BY <1>2, <1>3, <1>4, <1>5, <1>6, <1>7, <1>8 DEF Local

----------------------------------------------------------------------------
(* The sets that LinksOwed counts are finite.                              *)
LEMMA Finite ==
  ASSUME FiniteFacts PROVE
  \A i : /\ IsFiniteSet(Naming(i)) /\ IsFiniteSet(Subdirs(i)) /\ IsFiniteSet(Pending(i))
         /\ Cardinality(Naming(i)) \in Nat /\ Cardinality(Subdirs(i)) \in Nat
         /\ Cardinality(Pending(i)) \in Nat
<1> TAKE i
<1>1. IsFiniteSet(Inums \X Names)
  BY FinSets
<1>2. IsFiniteSet(Naming(i))
  BY <1>1, FinSubset DEF Naming
<1>3. IsFiniteSet(Subdirs(i))
  BY FinSets, FinSubset DEF Subdirs
<1>4. IsFiniteSet(Pending(i))
  BY FinSets, FinSubset DEF Pending
<1> QED BY <1>2, <1>3, <1>4, FinCard

(* An i-node with a name, a subdirectory or a call that counted it has     *)
(* links.                                                                  *)
LEMMA Linked ==
  ASSUME FiniteFacts, FsInv, NEW i \in Inums
  PROVE  /\ nlink[i] \in Nat
         /\ Naming(i) # {} \/ Subdirs(i) # {} \/ Pending(i) # {} \/ i = ROOTINO
              => nlink[i] # 0 /\ Allocated(i)
<1>1. nlink[i] \in Nat
  BY DEF FsInv, DiskType, DiskOK
<1>2. Cardinality(Naming(i)) + Cardinality(Subdirs(i)) + Cardinality(Pending(i))
      + (IF i = ROOTINO THEN 1 ELSE 0) <= nlink[i]
  BY DEF FsInv, LinksOwed
<1>3. /\ Naming(i) # {} => Cardinality(Naming(i)) # 0
      /\ Subdirs(i) # {} => Cardinality(Subdirs(i)) # 0
      /\ Pending(i) # {} => Cardinality(Pending(i)) # 0
  BY Finite, FinCard
<1>4. Naming(i) # {} \/ Subdirs(i) # {} \/ Pending(i) # {} \/ i = ROOTINO => nlink[i] # 0
  BY <1>1, <1>2, <1>3, Finite, SMT
<1> QED BY <1>1, <1>4 DEF FsInv, Tree

(* What dirlookup finds.                                                   *)
LEMMA Found ==
  ASSUME FiniteFacts, FsInv, NEW d \in Inums, Allocated(d), NEW n \in Names, ent[d][n] # NONE
  PROVE  /\ ent[d][n] \in Inums /\ nlink[ent[d][n]] # 0 /\ Allocated(ent[d][n])
         /\ <<d, n>> \in Naming(ent[d][n])
<1>1. ent[d][n] \in Inums
  BY DEF FsInv, DiskType, DiskOK
<1>2. <<d, n>> \in Naming(ent[d][n])
  BY DEF Naming
<1> QED BY <1>1, <1>2, Linked

(* What a process knows outside iput.                                      *)
LEMMA BaseFacts ==
  ASSUME FsInv, NEW p \in Procs, pc[p] \notin InPut
  PROVE  /\ CacheOK /\ cwd[p] \in Inums /\ file[p] \in Inums \cup {NONE}
         /\ path[p] \in Seq(Names) /\ (pc[p] # "chdirDone" => dtype[cwd[p]] = "T_DIR")
         /\ (pc[p] \notin {"done", "idle"} /\ call[p].op = "open" => file[p] = NONE)
         /\ (pc[p] \in CurAt => cur[p] \in Inums /\ Allocated(cur[p]))
         /\ (pc[p] \in IpAt => ip[p] \in Inums /\ Allocated(ip[p]))
         /\ (pc[p] \in ParentAt => path[p] # <<>> /\ path[p][1] \in Names
                                   /\ dtype[cur[p]] = "T_DIR")
         /\ (pc[p] \in LinkAt => dtype[ip[p]] # "T_DIR")
         /\ (pc[p] \in {"link", "linkLocked"} => call[p].new \in Path)
         /\ (pc[p] \in {"create", "createLocked", "createNew", "createNewLocked"}
               => call[p].type \in {"T_DIR", "T_FILE", "T_DEV"})
         /\ (pc[p] = "chdirDone" => dtype[cur[p]] = "T_DIR")
<1>1. Where(p) = pc[p]
  BY AtFacts
<1>2. CacheOK /\ Typed(p) /\ Seen(p) /\ Called(p)
  BY DEF FsInv, Local, DiskType
<1>3. pc[p] \in CurAt => cur[p] \in Inums /\ Allocated(cur[p])
  BY <1>1, <1>2, UsesFacts DEF FsInv, UsedLive, Typed
<1>4. pc[p] \in IpAt => ip[p] \in Inums /\ Allocated(ip[p])
  BY <1>1, <1>2, UsesFacts DEF FsInv, UsedLive, Typed
<1>5. path[p] \in Seq(Names) /\ (pc[p] \in ParentAt => path[p] # <<>>)
  BY <1>1, <1>2 DEF Typed
<1>6. pc[p] \in ParentAt => path[p][1] \in Names
  BY <1>5, SMT
<1>7. cwd[p] \in Inums /\ file[p] \in Inums \cup {NONE}
  BY <1>2 DEF Typed
<1>8. /\ pc[p] # "chdirDone" => dtype[cwd[p]] = "T_DIR"
      /\ pc[p] \in ParentAt => dtype[cur[p]] = "T_DIR"
      /\ pc[p] \in LinkAt => dtype[ip[p]] # "T_DIR"
      /\ pc[p] = "chdirDone" => dtype[cur[p]] = "T_DIR"
  BY <1>1, <1>2 DEF Seen, IsDir
<1>9. /\ pc[p] \notin {"done", "idle"} /\ call[p].op = "open" => file[p] = NONE
      /\ pc[p] \in {"link", "linkLocked"} => call[p].new \in Path
      /\ pc[p] \in {"create", "createLocked", "createNew", "createNewLocked"}
               => call[p].type \in {"T_DIR", "T_FILE", "T_DEV"}
  BY <1>1, <1>2 DEF Called
<1> QED BY <1>2, <1>3, <1>4, <1>5, <1>6, <1>7, <1>8, <1>9

(* iputThen from a place of a call.                                        *)
LEMMA PutRegs ==
  ASSUME FsInv, NEW p \in Procs, pc[p] \in Steps, NEW e, NEW k, iputThen(p, e, k)
  PROVE  /\ pc'[p] = "iput" /\ put'[p] = e /\ ret'[p] = <<k>>
         /\ \A q \in Procs \ {p} : pc'[q] = pc[q] /\ put'[q] = put[q] /\ ret'[q] = ret[q]
         /\ DOMAIN pc' = Procs /\ DOMAIN put' = Procs /\ DOMAIN ret' = Procs
         /\ pc[p] \notin InPut /\ Where(p) = pc[p] /\ ~Linking(p) /\ next[p] = NONE
         /\ Holding(p, "put") = NONE /\ Holding(p, "put")' = e
<1>1. pc[p] \notin InPut
  BY DEF Steps, InPut
<1>2. ret[p] = <<>> /\ Where(p) = pc[p] /\ ~Linking(p) /\ next[p] = NONE /\ Holding(p, "put") = NONE
  BY <1>1, AtFacts
<1>3. CacheOK
  BY DEF FsInv, DiskType
<1>4. /\ pc'[p] = "iput" /\ put'[p] = e /\ ret'[p] = <<k>> \o ret[p]
      /\ \A q \in Procs \ {p} : pc'[q] = pc[q] /\ put'[q] = put[q] /\ ret'[q] = ret[q]
      /\ DOMAIN pc' = Procs /\ DOMAIN put' = Procs /\ DOMAIN ret' = Procs
  BY <1>3 DEF iputThen, Goto, Set, CacheOK
<1>5. ret'[p] = <<k>>
  BY <1>2, <1>4, Stack
<1>6. Holding(p, "put")' = e
  BY <1>4 DEF Holding
<1> QED BY <1>1, <1>2, <1>4, <1>5, <1>6

----------------------------------------------------------------------------
(* The steps of the calls that leave the disk.                             *)
LEMMA linkPutKeeps ==
  ASSUME FiniteFacts, FsInv, NEW p \in Procs, sys_linkPut(p)
  PROVE  FsInv'
<1>1. /\ pc[p] = "linkPut" /\ iputThen(p, ip[p], "done") /\ disk' = disk
      /\ cwd' = cwd /\ file' = file /\ bad' = bad /\ call' = call /\ path' = path
      /\ cur' = cur /\ ip' = ip /\ next' = next /\ crossed' = crossed
      /\ ref' = ref /\ valid' = valid /\ lock' = lock
  BY DEF sys_linkPut, At, regs, cache
<1>2. /\ pc[p] \in Steps /\ pc[p] \in IpAt /\ pc[p] \notin CurAt /\ pc[p] \notin LocksCur
      /\ pc[p] \notin LocksIp /\ pc[p] # "chdirDone" /\ pc[p] \notin LinkAt
      /\ pc[p] # "createNew" /\ pc[p] # "unlinkCount" /\ pc[p] # "iputFree"
      /\ pc[p] # "iputDrop"
  BY <1>1 DEF Steps, IpAt, CurAt, LocksCur, LocksIp, LinkAt
<1>3. /\ "done" \in Conts \ Looking /\ "done" \notin CurAt /\ "done" \notin IpAt
      /\ "done" \notin LocksCur /\ "done" \notin LocksIp /\ "done" \notin LinkAt
      /\ "done" \notin {"linkExists", "unlinkBad"} /\ "done" \notin {"linkExists", "linkBad"}
  BY DEF Conts, Looking, CurAt, IpAt, LocksCur, LocksIp, LinkAt
<1>4. /\ pc'[p] = "iput" /\ put'[p] = ip[p] /\ ret'[p] = <<"done">>
      /\ \A q \in Procs \ {p} : pc'[q] = pc[q] /\ put'[q] = put[q] /\ ret'[q] = ret[q]
      /\ DOMAIN pc' = Procs /\ DOMAIN put' = Procs /\ DOMAIN ret' = Procs
      /\ pc[p] \notin InPut /\ Where(p) = pc[p] /\ ~Linking(p) /\ next[p] = NONE
      /\ Holding(p, "put") = NONE /\ Holding(p, "put")' = ip[p]
  BY <1>1, <1>2, PutRegs
<1>5. Frame(p)
  BY <1>1, <1>4 DEF Frame
<1>6. /\ CacheOK /\ cwd[p] \in Inums /\ file[p] \in Inums \cup {NONE}
      /\ path[p] \in Seq(Names) /\ dtype[cwd[p]] = "T_DIR" /\ ip[p] \in Inums
  BY <1>2, <1>4, BaseFacts
<1>7. dtype' = dtype
  BY <1>1 DEF disk
<1>8. Local(p)' /\ Where(p)' = "done" /\ ~Linking(p)'
  BY <1>1, <1>3, <1>4, <1>6, <1>7, PutLocal
<1>9. Moves(p, "ip", "put")
  <2>1. Holding(p, "ip") = ip[p] /\ Holding(p, "ip")' = NONE
    BY <1>2, <1>3, <1>4, <1>8 DEF Holding
  <2>2. \A t \in Roles \ {"ip", "put"} : Holding(p, t)' = Holding(p, t)
    BY <1>1, <1>2, <1>3, <1>4, <1>8 DEF Holding, Roles
  <2> QED BY <1>4, <2>1, <2>2 DEF Moves
<1>10. pc'[p] \notin {"iputDrop", "iputFree"} /\ "ip" \in Roles /\ "put" \in Roles
  BY <1>4 DEF Roles
<1>11. RefsExact' /\ Uses(p)' = Uses(p)
  BY <1>1, <1>2, <1>5, <1>9, <1>10, MovesCounts
<1>12. CacheOK'
  BY <1>1, <1>4, <1>6 DEF CacheOK
<1>13. \A i \in Inums : Locked(p, i)' <=> Locked(p, i)
  BY <1>2, <1>3, <1>4, <1>8, <1>10 DEF Locked
<1>14. Counted(p)' <=> Counted(p)
  BY <1>2, <1>3, <1>4, <1>8 DEF Counted
<1> QED BY <1>1, <1>2, <1>4, <1>5, <1>8, <1>10, <1>11, <1>12, <1>13, <1>14, FinishStay

(* The last close of a file.                                               *)
LEMMA filecloseKeeps ==
  ASSUME FiniteFacts, FsInv, NEW p \in Procs, fileclose(p)
  PROVE  FsInv'
<1>1. /\ pc[p] = "idle" /\ iputThen(p, file[p], "done") /\ disk' = disk /\ file[p] # NONE
      /\ cwd' = cwd /\ file' = [file EXCEPT ![p] = NONE] /\ bad' = bad /\ call' = call
      /\ path' = path /\ cur' = cur /\ ip' = ip /\ next' = next /\ crossed' = crossed
      /\ ref' = ref /\ valid' = valid /\ lock' = lock
  BY DEF fileclose, At, regs, cache, Set
<1>2. /\ pc[p] \in Steps /\ pc[p] \notin IpAt /\ pc[p] \notin CurAt /\ pc[p] \notin LocksCur
      /\ pc[p] \notin LocksIp /\ pc[p] # "chdirDone" /\ pc[p] \notin LinkAt
      /\ pc[p] # "createNew" /\ pc[p] # "unlinkCount" /\ pc[p] # "iputFree"
      /\ pc[p] # "iputDrop"
  BY <1>1 DEF Steps, IpAt, CurAt, LocksCur, LocksIp, LinkAt
<1>3. /\ "done" \in Conts \ Looking /\ "done" \notin CurAt /\ "done" \notin IpAt
      /\ "done" \notin LocksCur /\ "done" \notin LocksIp /\ "done" \notin LinkAt
      /\ "done" \notin {"linkExists", "unlinkBad"} /\ "done" \notin {"linkExists", "linkBad"}
  BY DEF Conts, Looking, CurAt, IpAt, LocksCur, LocksIp, LinkAt
<1>4. /\ pc'[p] = "iput" /\ put'[p] = file[p] /\ ret'[p] = <<"done">>
      /\ \A q \in Procs \ {p} : pc'[q] = pc[q] /\ put'[q] = put[q] /\ ret'[q] = ret[q]
      /\ DOMAIN pc' = Procs /\ DOMAIN put' = Procs /\ DOMAIN ret' = Procs
      /\ pc[p] \notin InPut /\ Where(p) = pc[p] /\ ~Linking(p) /\ next[p] = NONE
      /\ Holding(p, "put") = NONE /\ Holding(p, "put")' = file[p]
  BY <1>1, <1>2, PutRegs
<1>6. /\ CacheOK /\ cwd[p] \in Inums /\ file[p] \in Inums \cup {NONE}
      /\ path[p] \in Seq(Names) /\ dtype[cwd[p]] = "T_DIR"
  BY <1>2, <1>4, BaseFacts
<1>f. /\ file'[p] = NONE /\ \A q \in Procs \ {p} : file'[q] = file[q]
      /\ DOMAIN file' = Procs
  BY <1>1, <1>6, SetFacts, ZenonT(40) DEF CacheOK
<1>5. Frame(p)
  BY <1>1, <1>4, <1>f DEF Frame
<1>7. dtype' = dtype /\ file[p] \in Inums
  BY <1>1, <1>6 DEF disk
<1>8. Local(p)' /\ Where(p)' = "done" /\ ~Linking(p)'
  BY <1>1, <1>3, <1>4, <1>6, <1>7, <1>f, PutLocal
<1>9. Moves(p, "file", "put")
  <2>1. Holding(p, "file") = file[p] /\ Holding(p, "file")' = NONE
    BY <1>f DEF Holding
  <2>2. \A t \in Roles \ {"file", "put"} : Holding(p, t)' = Holding(p, t)
    BY <1>1, <1>2, <1>3, <1>4, <1>8 DEF Holding, Roles
  <2> QED BY <1>4, <2>1, <2>2 DEF Moves
<1>10. pc'[p] \notin {"iputDrop", "iputFree"} /\ "file" \in Roles /\ "put" \in Roles
  BY <1>4 DEF Roles
<1>11. RefsExact' /\ Uses(p)' = Uses(p)
  BY <1>1, <1>2, <1>5, <1>9, <1>10, MovesCounts
<1>12. CacheOK'
  BY <1>1, <1>4, <1>6, <1>f DEF CacheOK
<1>13. \A i \in Inums : Locked(p, i)' <=> Locked(p, i)
  BY <1>2, <1>3, <1>4, <1>8, <1>10 DEF Locked
<1>14. Counted(p)' <=> Counted(p)
  BY <1>2, <1>3, <1>4, <1>8 DEF Counted
<1> QED BY <1>1, <1>2, <1>4, <1>5, <1>8, <1>10, <1>11, <1>12, <1>13, <1>14, FinishStay

(* sys_chdir puts the old directory.                                       *)
LEMMA chdirKeeps ==
  ASSUME FiniteFacts, FsInv, NEW p \in Procs, sys_chdir(p), IsDir(cur[p])
  PROVE  FsInv'
<1>1. /\ pc[p] = "chdirLocked" /\ iputThen(p, cwd[p], "chdirDone") /\ disk' = disk
      /\ cwd' = cwd /\ file' = file /\ bad' = bad /\ call' = call /\ path' = path
      /\ cur' = cur /\ ip' = ip /\ next' = next /\ crossed' = crossed
      /\ ref' = ref /\ valid' = valid /\ lock' = [lock EXCEPT ![cur[p]] = NONE]
  BY DEF sys_chdir, At, regs, iunlock
<1>2. /\ pc[p] \in Steps /\ pc[p] \notin IpAt /\ pc[p] \in CurAt /\ pc[p] \in LocksCur
      /\ pc[p] \notin LocksIp /\ pc[p] # "chdirDone" /\ pc[p] \notin LinkAt
      /\ pc[p] # "createNew" /\ pc[p] # "unlinkCount" /\ pc[p] # "iputFree"
      /\ pc[p] # "iputDrop" /\ pc[p] \notin {"done", "idle"}
  BY <1>1 DEF Steps, IpAt, CurAt, LocksCur, LocksIp, LinkAt
<1>3. /\ "chdirDone" \in Conts \ Looking /\ "chdirDone" \in CurAt /\ "chdirDone" \notin IpAt
      /\ "chdirDone" \notin LocksCur /\ "chdirDone" \notin LocksIp /\ "chdirDone" \notin LinkAt
      /\ "chdirDone" \notin {"linkExists", "unlinkBad"}
      /\ "chdirDone" \notin {"linkExists", "linkBad"} /\ "chdirDone" # "unlinkCount"
  BY DEF Conts, Looking, CurAt, IpAt, LocksCur, LocksIp, LinkAt
<1>4. /\ pc'[p] = "iput" /\ put'[p] = cwd[p] /\ ret'[p] = <<"chdirDone">>
      /\ \A q \in Procs \ {p} : pc'[q] = pc[q] /\ put'[q] = put[q] /\ ret'[q] = ret[q]
      /\ DOMAIN pc' = Procs /\ DOMAIN put' = Procs /\ DOMAIN ret' = Procs
      /\ pc[p] \notin InPut /\ Where(p) = pc[p] /\ ~Linking(p) /\ next[p] = NONE
      /\ Holding(p, "put") = NONE /\ Holding(p, "put")' = cwd[p]
  BY <1>1, <1>2, PutRegs
<1>5. Frame(p)
  BY <1>1, <1>4 DEF Frame
<1>6. /\ CacheOK /\ cwd[p] \in Inums /\ file[p] \in Inums \cup {NONE}
      /\ path[p] \in Seq(Names) /\ cur[p] \in Inums /\ (call[p].op = "open" => file[p] = NONE)
  BY <1>2, <1>4, BaseFacts
<1>7. dtype' = dtype
  BY <1>1 DEF disk
<1>8. Local(p)' /\ Where(p)' = "chdirDone" /\ ~Linking(p)'
  BY <1>1, <1>3, <1>4, <1>6, <1>7, PutLocal DEF IsDir
<1>9. Moves(p, "cwd", "put")
  <2>1. Holding(p, "cwd") = cwd[p] /\ Holding(p, "cwd")' = NONE
    BY <1>2, <1>4, <1>8 DEF Holding
  <2>2. \A t \in Roles \ {"cwd", "put"} : Holding(p, t)' = Holding(p, t)
    BY <1>1, <1>2, <1>3, <1>4, <1>8 DEF Holding, Roles
  <2> QED BY <1>4, <2>1, <2>2 DEF Moves
<1>10. pc'[p] \notin {"iputDrop", "iputFree"} /\ "cwd" \in Roles /\ "put" \in Roles
  BY <1>4 DEF Roles
<1>11. RefsExact' /\ Uses(p)' = Uses(p)
  BY <1>1, <1>2, <1>5, <1>9, <1>10, MovesCounts
<1>12. CacheOK'
  BY <1>1, <1>4, <1>6 DEF CacheOK
<1>13. Locked(p, cur[p]) /\ \A i \in Inums : Locked(p, i)' <=> Locked(p, i) /\ i # cur[p]
  BY <1>1, <1>2, <1>3, <1>4, <1>8, <1>10 DEF Locked
<1>14. Counted(p)' <=> Counted(p)
  BY <1>2, <1>3, <1>4, <1>8 DEF Counted
<1> QED BY <1>1, <1>2, <1>4, <1>5, <1>6, <1>8, <1>10, <1>11, <1>12, <1>13, <1>14, FinishDrop

(* dirlink finds the name taken.                                           *)
LEMMA linkFoundKeeps ==
  ASSUME FiniteFacts, FsInv, NEW p \in Procs, sys_linkEntry(p), dirlookup(cur[p], Name(p)) # NONE
  PROVE  FsInv'
<1> DEFINE e == ent[cur[p]][path[p][1]]
<1>1. /\ pc[p] = "linkParentLocked" /\ iputThen(p, e, "linkExists") /\ e # NONE
      /\ dtype' = dtype /\ nlink' = nlink /\ ent' = ent
      /\ cwd' = cwd /\ file' = file /\ bad' = bad /\ call' = call /\ path' = path
      /\ cur' = cur /\ ip' = ip /\ next' = next /\ crossed' = crossed
      /\ ref' = [ref EXCEPT ![e] = @ + 1] /\ valid' = valid /\ lock' = lock
  BY DEF sys_linkEntry, At, regs, iget, dirlookup, Name
<1>2. /\ pc[p] \in Steps /\ pc[p] \in IpAt /\ pc[p] \in CurAt /\ pc[p] \in LocksCur
      /\ pc[p] \notin LocksIp /\ pc[p] # "chdirDone" /\ pc[p] \in LinkAt
      /\ pc[p] # "createNew" /\ pc[p] # "unlinkCount" /\ pc[p] # "iputFree"
      /\ pc[p] # "iputDrop" /\ pc[p] \notin {"done", "idle"} /\ pc[p] \in ParentAt
  BY <1>1 DEF Steps, IpAt, CurAt, LocksCur, LocksIp, LinkAt, ParentAt
<1>3. /\ "linkExists" \in Conts \ Looking /\ "linkExists" \in CurAt /\ "linkExists" \in IpAt
      /\ "linkExists" \in LocksCur /\ "linkExists" \notin LocksIp /\ "linkExists" \in LinkAt
      /\ "linkExists" # "chdirDone"
  BY DEF Conts, Looking, CurAt, IpAt, LocksCur, LocksIp, LinkAt
<1>4. /\ pc'[p] = "iput" /\ put'[p] = e /\ ret'[p] = <<"linkExists">>
      /\ \A q \in Procs \ {p} : pc'[q] = pc[q] /\ put'[q] = put[q] /\ ret'[q] = ret[q]
      /\ DOMAIN pc' = Procs /\ DOMAIN put' = Procs /\ DOMAIN ret' = Procs
      /\ pc[p] \notin InPut /\ Where(p) = pc[p] /\ ~Linking(p) /\ next[p] = NONE
      /\ Holding(p, "put") = NONE /\ Holding(p, "put")' = e
  BY <1>1, <1>2, PutRegs
<1>5. Frame(p)
  BY <1>1, <1>4 DEF Frame
<1>6. /\ CacheOK /\ cwd[p] \in Inums /\ file[p] \in Inums \cup {NONE}
      /\ path[p] \in Seq(Names) /\ cur[p] \in Inums /\ (call[p].op = "open" => file[p] = NONE)
      /\ Allocated(cur[p]) /\ ip[p] \in Inums /\ dtype[cwd[p]] = "T_DIR"
      /\ dtype[cur[p]] = "T_DIR" /\ dtype[ip[p]] # "T_DIR" /\ path[p] # <<>>
      /\ path[p][1] \in Names
  BY <1>2, <1>4, BaseFacts
<1>7. e \in Inums /\ nlink[e] # 0
  BY <1>1, <1>6, Found
<1> HIDE DEF e
<1>8. Local(p)' /\ Where(p)' = "linkExists" /\ ~Linking(p)'
  BY <1>1, <1>3, <1>4, <1>6, <1>7, PutLocal
<1>9. Gains(p, "put", e)
  <2>2. \A t \in Roles \ {"put"} : Holding(p, t)' = Holding(p, t)
    BY <1>1, <1>2, <1>3, <1>4, <1>8 DEF Holding, Roles
  <2> QED BY <1>4, <2>2 DEF Gains
<1>10. pc'[p] \notin {"iputDrop", "iputFree"} /\ "put" \in Roles
  BY <1>4 DEF Roles
<1>11. RefsExact' /\ Uses(p)' = Uses(p) \cup {e}
  BY <1>1, <1>2, <1>5, <1>7, <1>9, <1>10, GainsCounts
<1>12. CacheOK'
  <2>1. ref' \in [Inums -> Nat]
    BY <1>1, <1>6, <1>7, CountUp DEF CacheOK
  <2> QED BY <1>1, <1>4, <1>6, <2>1 DEF CacheOK
<1>13. \A i \in Inums : Locked(p, i)' <=> Locked(p, i)
  BY <1>1, <1>2, <1>3, <1>4, <1>8, <1>10 DEF Locked
<1>14. Counted(p)' <=> Counted(p)
  BY <1>2, <1>3, <1>4, <1>8 DEF Counted
<1>15. disk' = disk /\ Uses(p) \subseteq Uses(p)' /\ \A i \in Uses(p)' : i \in Uses(p) \/ nlink[i] # 0
  BY <1>1, <1>7, <1>11 DEF disk
<1> QED BY <1>1, <1>2, <1>4, <1>5, <1>8, <1>10, <1>11, <1>12, <1>13, <1>14, <1>15, FinishStay

(* create finds the name taken.                                            *)
LEMMA createExistsKeeps ==
  ASSUME FiniteFacts, FsInv, NEW p \in Procs, createExists(p)
  PROVE  FsInv'
<1> DEFINE e == ent[cur[p]][path[p][1]]
<1>1. /\ pc[p] = "createLocked" /\ iputThen(p, cur[p], "createIp") /\ e # NONE
      /\ dtype' = dtype /\ nlink' = nlink /\ ent' = ent
      /\ cwd' = cwd /\ file' = file /\ bad' = bad /\ call' = call /\ path' = path
      /\ cur' = cur /\ ip' = [ip EXCEPT ![p] = e] /\ next' = next /\ crossed' = crossed
      /\ ref' = [ref EXCEPT ![e] = @ + 1] /\ valid' = valid
      /\ lock' = [lock EXCEPT ![cur[p]] = NONE]
  BY DEF createExists, At, regs, disk, iget, iunlock, Set, dirlookup, Name
<1>2. /\ pc[p] \in Steps /\ pc[p] \notin IpAt /\ pc[p] \in CurAt /\ pc[p] \in LocksCur
      /\ pc[p] \notin LocksIp /\ pc[p] # "chdirDone" /\ pc[p] \notin LinkAt
      /\ pc[p] # "createNew" /\ pc[p] # "unlinkCount" /\ pc[p] # "iputFree"
      /\ pc[p] # "iputDrop" /\ pc[p] \notin {"done", "idle"} /\ pc[p] \in ParentAt
  BY <1>1 DEF Steps, IpAt, CurAt, LocksCur, LocksIp, LinkAt, ParentAt
<1>3. /\ "createIp" \in Conts \ Looking /\ "createIp" \notin CurAt /\ "createIp" \in IpAt
      /\ "createIp" \notin LocksCur /\ "createIp" \notin LocksIp /\ "createIp" \notin LinkAt
      /\ "createIp" # "chdirDone" /\ "createIp" \notin {"linkExists", "unlinkBad"}
      /\ "createIp" \notin {"linkExists", "linkBad"} /\ "createIp" # "unlinkCount"
  BY DEF Conts, Looking, CurAt, IpAt, LocksCur, LocksIp, LinkAt
<1>4. /\ pc'[p] = "iput" /\ put'[p] = cur[p] /\ ret'[p] = <<"createIp">>
      /\ \A q \in Procs \ {p} : pc'[q] = pc[q] /\ put'[q] = put[q] /\ ret'[q] = ret[q]
      /\ DOMAIN pc' = Procs /\ DOMAIN put' = Procs /\ DOMAIN ret' = Procs
      /\ pc[p] \notin InPut /\ Where(p) = pc[p] /\ ~Linking(p) /\ next[p] = NONE
      /\ Holding(p, "put") = NONE /\ Holding(p, "put")' = cur[p]
  BY <1>1, <1>2, PutRegs
<1>6. /\ CacheOK /\ cwd[p] \in Inums /\ file[p] \in Inums \cup {NONE}
      /\ path[p] \in Seq(Names) /\ cur[p] \in Inums /\ (call[p].op = "open" => file[p] = NONE)
      /\ Allocated(cur[p]) /\ dtype[cwd[p]] = "T_DIR" /\ path[p][1] \in Names
  BY <1>2, <1>4, BaseFacts
<1>7. e \in Inums /\ nlink[e] # 0
  BY <1>1, <1>6, Found
<1> HIDE DEF e
<1>i. ip'[p] = e /\ (\A q \in Procs \ {p} : ip'[q] = ip[q]) /\ DOMAIN ip' = Procs
  BY <1>1, <1>6, SetFacts, ZenonT(40) DEF CacheOK
<1>5. Frame(p)
  BY <1>1, <1>4, <1>i DEF Frame
<1>8. Local(p)' /\ Where(p)' = "createIp" /\ ~Linking(p)'
  BY <1>1, <1>3, <1>4, <1>6, <1>7, <1>i, PutLocal
<1>9. MovesGains(p, "cur", "put", "ip", e)
  <2>1. /\ Holding(p, "cur") = cur[p] /\ Holding(p, "cur")' = NONE /\ Holding(p, "ip") = NONE
        /\ Holding(p, "ip")' = e
    BY <1>2, <1>3, <1>4, <1>8, <1>i DEF Holding
  <2>2. \A t \in Roles \ {"cur", "put", "ip"} : Holding(p, t)' = Holding(p, t)
    BY <1>1, <1>2, <1>3, <1>4, <1>8 DEF Holding, Roles
  <2> QED BY <1>4, <2>1, <2>2 DEF MovesGains
<1>10. /\ pc'[p] \notin {"iputDrop", "iputFree"} /\ "put" \in Roles /\ "cur" \in Roles
       /\ "ip" \in Roles
  BY <1>4 DEF Roles
<1>11. RefsExact' /\ Uses(p)' = Uses(p) \cup {e}
  BY <1>1, <1>2, <1>5, <1>7, <1>9, <1>10, MovesGainsCounts
<1>12. CacheOK'
  <2>1. ref' \in [Inums -> Nat]
    BY <1>1, <1>4, <1>6, <1>7, <1>i, CountUp DEF CacheOK
  <2> QED BY <1>1, <1>4, <1>6, <1>7, <1>i, <2>1 DEF CacheOK
<1>13. Locked(p, cur[p]) /\ \A i \in Inums : Locked(p, i)' <=> Locked(p, i) /\ i # cur[p]
  BY <1>1, <1>2, <1>3, <1>4, <1>8, <1>10 DEF Locked
<1>14. (Counted(p)' <=> Counted(p)) /\ ~Counted(p)
  BY <1>2, <1>3, <1>4, <1>8 DEF Counted
<1>15. disk' = disk /\ Uses(p) \subseteq Uses(p)' /\ \A i \in Uses(p)' : i \in Uses(p) \/ nlink[i] # 0
  BY <1>1, <1>7, <1>11 DEF disk
<1> QED BY <1>1, <1>2, <1>4, <1>5, <1>6, <1>8, <1>10, <1>11, <1>12, <1>13, <1>14, <1>15, FinishDrop

(* A step from a place of a call to another, outside iput.                 *)
LEMMA GotoRegs ==
  ASSUME FsInv, NEW p \in Procs, pc[p] \in Steps, NEW l \in Steps, Goto(p, l),
         UNCHANGED <<ret, put>>
  PROVE  /\ pc'[p] = l /\ put'[p] = NONE /\ ret'[p] = <<>>
         /\ \A q \in Procs \ {p} : pc'[q] = pc[q] /\ put'[q] = put[q] /\ ret'[q] = ret[q]
         /\ DOMAIN pc' = Procs /\ DOMAIN put' = Procs /\ DOMAIN ret' = Procs
         /\ pc[p] \notin InPut /\ Where(p) = pc[p] /\ ~Linking(p) /\ next[p] = NONE
         /\ Holding(p, "put") = NONE /\ Holding(p, "put")' = NONE
         /\ pc'[p] \notin {"iputDrop", "iputFree"} /\ pc[p] # "iputDrop" /\ pc[p] # "iputFree"
<1>1. pc[p] \notin InPut /\ l \notin {"iputDrop", "iputFree"} /\ pc[p] # "iputDrop" /\ pc[p] # "iputFree"
  BY DEF Steps, InPut
<1>2. /\ ret[p] = <<>> /\ Where(p) = pc[p] /\ ~Linking(p) /\ next[p] = NONE /\ put[p] = NONE
      /\ Holding(p, "put") = NONE
  BY <1>1, AtFacts
<1>3. CacheOK
  BY DEF FsInv, DiskType
<1>4. /\ pc'[p] = l /\ put' = put /\ ret' = ret
      /\ \A q \in Procs \ {p} : pc'[q] = pc[q]
      /\ DOMAIN pc' = Procs
  BY <1>3 DEF Goto, CacheOK
<1>6. Holding(p, "put")' = NONE
  BY <1>2, <1>4 DEF Holding
<1> QED BY <1>1, <1>2, <1>3, <1>4, <1>6 DEF CacheOK

(* sys_unlink finds the name.                                              *)
LEMMA unlinkFoundKeeps ==
  ASSUME FiniteFacts, FsInv, NEW p \in Procs, pc[p] = "unlinkLocked",
         NEW e, e = ent[cur[p]][path[p][1]], e # NONE,
         iget(e), ip' = Set(ip, p, e), Goto(p, "unlinkIp"), UNCHANGED <<lock, ret, put>>,
         UNCHANGED <<disk, cwd, file, bad, call, path, cur, next, panic, crossed>>
  PROVE  FsInv'
<1>1. /\ dtype' = dtype /\ nlink' = nlink /\ ent' = ent
      /\ cwd' = cwd /\ file' = file /\ bad' = bad /\ call' = call /\ path' = path
      /\ cur' = cur /\ ip' = [ip EXCEPT ![p] = e] /\ next' = next /\ crossed' = crossed
      /\ ref' = [ref EXCEPT ![e] = @ + 1] /\ valid' = valid /\ lock' = lock
  BY DEF disk, iget, Set
<1>2. /\ pc[p] \in Steps /\ pc[p] \notin IpAt /\ pc[p] \in CurAt /\ pc[p] \in LocksCur
      /\ pc[p] \notin LocksIp /\ pc[p] # "chdirDone" /\ pc[p] \notin LinkAt
      /\ pc[p] # "createNew" /\ pc[p] # "unlinkCount"
      /\ pc[p] \notin {"done", "idle"} /\ pc[p] \in ParentAt
  BY DEF Steps, IpAt, CurAt, LocksCur, LocksIp, LinkAt, ParentAt
<1>3. /\ "unlinkIp" \in Steps /\ "unlinkIp" \in CurAt /\ "unlinkIp" \in IpAt
      /\ "unlinkIp" \in LocksCur /\ "unlinkIp" \notin LocksIp /\ "unlinkIp" \notin LinkAt
      /\ "unlinkIp" \notin {"chdirDone", "unlinkIpLocked"} /\ "unlinkIp" # "unlinkCount"
      /\ "unlinkIp" \notin {"link", "linkLocked"} /\ "unlinkIp" \in ParentAt
      /\ "unlinkIp" \notin {"create", "createLocked", "createNew", "createNewLocked"}
      /\ "unlinkIp" \notin NewAt /\ "unlinkIp" \notin InPut
  BY DEF Steps, CurAt, IpAt, LocksCur, LocksIp, LinkAt, ParentAt, NewAt, InPut
<1>4. /\ pc'[p] = "unlinkIp" /\ put'[p] = NONE /\ ret'[p] = <<>>
      /\ \A q \in Procs \ {p} : pc'[q] = pc[q] /\ put'[q] = put[q] /\ ret'[q] = ret[q]
      /\ DOMAIN pc' = Procs /\ DOMAIN put' = Procs /\ DOMAIN ret' = Procs
      /\ pc[p] \notin InPut /\ Where(p) = pc[p] /\ ~Linking(p) /\ next[p] = NONE
      /\ Holding(p, "put") = NONE /\ Holding(p, "put")' = NONE
      /\ pc'[p] \notin {"iputDrop", "iputFree"} /\ pc[p] # "iputDrop" /\ pc[p] # "iputFree"
  BY <1>2, <1>3, GotoRegs
<1>6. /\ CacheOK /\ cwd[p] \in Inums /\ file[p] \in Inums \cup {NONE}
      /\ path[p] \in Seq(Names) /\ cur[p] \in Inums /\ (call[p].op = "open" => file[p] = NONE)
      /\ Allocated(cur[p]) /\ dtype[cwd[p]] = "T_DIR" /\ path[p][1] \in Names
      /\ dtype[cur[p]] = "T_DIR" /\ path[p] # <<>>
  BY <1>2, <1>4, BaseFacts
<1>7. e \in Inums /\ nlink[e] # 0
  BY <1>6, Found
<1>i. ip'[p] = e /\ (\A q \in Procs \ {p} : ip'[q] = ip[q]) /\ DOMAIN ip' = Procs
  BY <1>1, <1>6, SetFacts, ZenonT(40) DEF CacheOK
<1>5. Frame(p)
  BY <1>1, <1>4, <1>i DEF Frame
<1>n. Fresh(p)'
  BY <1>3, <1>4 DEF Fresh, Where
<1>8. Local(p)' /\ Where(p)' = "unlinkIp" /\ ~Linking(p)'
  BY <1>1, <1>3, <1>4, <1>6, <1>7, <1>i, <1>n, StepLocal
<1>9. Gains(p, "ip", e)
  <2>1. Holding(p, "ip") = NONE /\ Holding(p, "ip")' = e
    BY <1>2, <1>3, <1>4, <1>8, <1>i DEF Holding
  <2>2. \A t \in Roles \ {"ip"} : Holding(p, t)' = Holding(p, t)
    BY <1>1, <1>2, <1>3, <1>4, <1>8 DEF Holding, Roles
  <2> QED BY <2>1, <2>2 DEF Gains
<1>10. "ip" \in Roles
  BY DEF Roles
<1>11. RefsExact' /\ Uses(p)' = Uses(p) \cup {e}
  BY <1>1, <1>4, <1>5, <1>7, <1>9, <1>10, GainsCounts
<1>12. CacheOK'
  <2>1. ref' \in [Inums -> Nat]
    BY <1>1, <1>4, <1>6, <1>7, <1>i, CountUp DEF CacheOK
  <2> QED BY <1>1, <1>4, <1>6, <1>7, <1>i, <2>1 DEF CacheOK
<1>13. \A i \in Inums : Locked(p, i)' <=> Locked(p, i)
  BY <1>1, <1>2, <1>3, <1>4, <1>8 DEF Locked
<1>14. (Counted(p)' <=> Counted(p)) /\ ~Counted(p)
  BY <1>2, <1>3, <1>4, <1>8 DEF Counted
<1>15. disk' = disk /\ Uses(p) \subseteq Uses(p)' /\ \A i \in Uses(p)' : i \in Uses(p) \/ nlink[i] # 0
  BY <1>1, <1>7, <1>11 DEF disk
<1> QED BY <1>1, <1>2, <1>4, <1>5, <1>8, <1>11, <1>12, <1>13, <1>14, <1>15, FinishStay

(* sys_open finds the i-node.                                              *)
LEMMA openFoundKeeps ==
  ASSUME FiniteFacts, FsInv, NEW p \in Procs, pc[p] = "openLocked", ip' = Set(ip, p, cur[p]),
         Goto(p, "created"), UNCHANGED <<cache, ret, put>>,
         UNCHANGED <<disk, cwd, file, bad, call, path, cur, next, panic, crossed>>
  PROVE  FsInv'
<1>1. /\ dtype' = dtype /\ nlink' = nlink /\ ent' = ent
      /\ cwd' = cwd /\ file' = file /\ bad' = bad /\ call' = call /\ path' = path
      /\ cur' = cur /\ ip' = [ip EXCEPT ![p] = cur[p]] /\ next' = next /\ crossed' = crossed
      /\ ref' = ref /\ valid' = valid /\ lock' = lock
  BY DEF disk, cache, Set
<1>2. /\ pc[p] \in Steps /\ pc[p] \notin IpAt /\ pc[p] \in CurAt /\ pc[p] \in LocksCur
      /\ pc[p] \notin LocksIp /\ pc[p] # "chdirDone" /\ pc[p] \notin LinkAt
      /\ pc[p] # "createNew" /\ pc[p] # "unlinkCount" /\ pc[p] \notin {"done", "idle"}
  BY DEF Steps, IpAt, CurAt, LocksCur, LocksIp, LinkAt
<1>3. /\ "created" \in Steps /\ "created" \notin CurAt /\ "created" \in IpAt
      /\ "created" \notin LocksCur /\ "created" \in LocksIp /\ "created" \notin LinkAt
      /\ "created" \notin {"chdirDone", "unlinkIpLocked"} /\ "created" # "unlinkCount"
      /\ "created" \notin {"link", "linkLocked"} /\ "created" \notin ParentAt
      /\ "created" \notin {"create", "createLocked", "createNew", "createNewLocked"}
      /\ "created" \notin NewAt /\ "created" \notin InPut /\ "created" # "unlinkIp"
  BY DEF Steps, CurAt, IpAt, LocksCur, LocksIp, LinkAt, ParentAt, NewAt, InPut
<1>4. /\ pc'[p] = "created" /\ put'[p] = NONE /\ ret'[p] = <<>>
      /\ \A q \in Procs \ {p} : pc'[q] = pc[q] /\ put'[q] = put[q] /\ ret'[q] = ret[q]
      /\ DOMAIN pc' = Procs /\ DOMAIN put' = Procs /\ DOMAIN ret' = Procs
      /\ pc[p] \notin InPut /\ Where(p) = pc[p] /\ ~Linking(p) /\ next[p] = NONE
      /\ Holding(p, "put") = NONE /\ Holding(p, "put")' = NONE
      /\ pc'[p] \notin {"iputDrop", "iputFree"} /\ pc[p] # "iputDrop" /\ pc[p] # "iputFree"
  BY <1>2, <1>3, GotoRegs
<1>6. /\ CacheOK /\ cwd[p] \in Inums /\ file[p] \in Inums \cup {NONE}
      /\ path[p] \in Seq(Names) /\ cur[p] \in Inums /\ (call[p].op = "open" => file[p] = NONE)
      /\ dtype[cwd[p]] = "T_DIR"
  BY <1>2, <1>4, BaseFacts
<1>i. ip'[p] = cur[p] /\ (\A q \in Procs \ {p} : ip'[q] = ip[q]) /\ DOMAIN ip' = Procs
  BY <1>1, <1>6, SetFacts, ZenonT(40) DEF CacheOK
<1>5. Frame(p)
  BY <1>1, <1>4, <1>i DEF Frame
<1>n. Fresh(p)'
  BY <1>3, <1>4 DEF Fresh, Where
<1>8. Local(p)' /\ Where(p)' = "created" /\ ~Linking(p)'
  BY <1>1, <1>3, <1>4, <1>6, <1>i, <1>n, StepLocal
<1>9. Moves(p, "cur", "ip")
  <2>1. /\ Holding(p, "ip") = NONE /\ Holding(p, "ip")' = cur[p] /\ Holding(p, "cur") = cur[p]
        /\ Holding(p, "cur")' = NONE
    BY <1>2, <1>3, <1>4, <1>8, <1>i DEF Holding
  <2>2. \A t \in Roles \ {"cur", "ip"} : Holding(p, t)' = Holding(p, t)
    BY <1>1, <1>2, <1>3, <1>4, <1>8 DEF Holding, Roles
  <2> QED BY <2>1, <2>2 DEF Moves
<1>10. "ip" \in Roles /\ "cur" \in Roles /\ "cur" # "ip"
  BY DEF Roles
<1>11. RefsExact' /\ Uses(p)' = Uses(p)
  BY <1>1, <1>4, <1>5, <1>9, <1>10, MovesCounts
<1>12. CacheOK'
  BY <1>1, <1>4, <1>6, <1>i DEF CacheOK
<1>13. \A i \in Inums : Locked(p, i)' <=> Locked(p, i)
  BY <1>1, <1>2, <1>3, <1>4, <1>8, <1>i DEF Locked
<1>14. (Counted(p)' <=> Counted(p)) /\ ~Counted(p)
  BY <1>2, <1>3, <1>4, <1>8 DEF Counted
<1>15. disk' = disk
  BY <1>1 DEF disk
<1> QED BY <1>1, <1>2, <1>4, <1>5, <1>8, <1>11, <1>12, <1>13, <1>14, <1>15, FinishStay

(* sys_open hands the reference to the file.                               *)
LEMMA openFileKeeps ==
  ASSUME FiniteFacts, FsInv, NEW p \in Procs, sys_openFile(p)
  PROVE  FsInv'
<1>1. /\ dtype' = dtype /\ nlink' = nlink /\ ent' = ent /\ pc[p] = "created"
      /\ call[p].op = "open"
      /\ cwd' = cwd /\ file' = [file EXCEPT ![p] = ip[p]] /\ bad' = bad /\ call' = call
      /\ path' = path /\ cur' = cur /\ ip' = ip /\ next' = next /\ crossed' = crossed
      /\ ref' = ref /\ valid' = valid /\ lock' = [lock EXCEPT ![ip[p]] = NONE]
      /\ Goto(p, "done") /\ UNCHANGED <<ret, put>>
  BY DEF sys_openFile, At, disk, regs, Set, iunlock
<1>2. /\ pc[p] \in Steps /\ pc[p] \in IpAt /\ pc[p] \notin CurAt /\ pc[p] \notin LocksCur
      /\ pc[p] \in LocksIp /\ pc[p] # "chdirDone" /\ pc[p] \notin LinkAt
      /\ pc[p] # "createNew" /\ pc[p] # "unlinkCount" /\ pc[p] \notin {"done", "idle"}
  BY <1>1 DEF Steps, IpAt, CurAt, LocksCur, LocksIp, LinkAt
<1>3. /\ "done" \in Steps /\ "done" \notin CurAt /\ "done" \notin IpAt
      /\ "done" \notin LocksCur /\ "done" \notin LocksIp /\ "done" \notin LinkAt
      /\ "done" \notin {"chdirDone", "unlinkIpLocked"} /\ "done" # "unlinkCount"
      /\ "done" \notin {"link", "linkLocked"} /\ "done" \notin ParentAt
      /\ "done" \notin {"create", "createLocked", "createNew", "createNewLocked"}
      /\ "done" \notin NewAt /\ "done" \notin InPut /\ "done" # "unlinkIp"
  BY DEF Steps, CurAt, IpAt, LocksCur, LocksIp, LinkAt, ParentAt, NewAt, InPut
<1>4. /\ pc'[p] = "done" /\ put'[p] = NONE /\ ret'[p] = <<>>
      /\ \A q \in Procs \ {p} : pc'[q] = pc[q] /\ put'[q] = put[q] /\ ret'[q] = ret[q]
      /\ DOMAIN pc' = Procs /\ DOMAIN put' = Procs /\ DOMAIN ret' = Procs
      /\ pc[p] \notin InPut /\ Where(p) = pc[p] /\ ~Linking(p) /\ next[p] = NONE
      /\ Holding(p, "put") = NONE /\ Holding(p, "put")' = NONE
      /\ pc'[p] \notin {"iputDrop", "iputFree"} /\ pc[p] # "iputDrop" /\ pc[p] # "iputFree"
  BY <1>1, <1>2, <1>3, GotoRegs
<1>6. /\ CacheOK /\ cwd[p] \in Inums /\ file[p] = NONE
      /\ path[p] \in Seq(Names) /\ ip[p] \in Inums /\ dtype[cwd[p]] = "T_DIR"
  BY <1>1, <1>2, <1>4, BaseFacts
<1>i. file'[p] = ip[p] /\ (\A q \in Procs \ {p} : file'[q] = file[q]) /\ DOMAIN file' = Procs
  BY <1>1, <1>6, SetFacts, ZenonT(40) DEF CacheOK
<1>5. Frame(p)
  BY <1>1, <1>4, <1>i DEF Frame
<1>n. Fresh(p)'
  BY <1>3, <1>4 DEF Fresh, Where
<1>8. Local(p)' /\ Where(p)' = "done" /\ ~Linking(p)'
  <2>1. "done" \in {"done", "idle"}
    OBVIOUS
  <2> QED BY <2>1, <1>1, <1>3, <1>4, <1>6, <1>i, <1>n, StepLocal
<1>9. Moves(p, "ip", "file")
  <2>1. /\ Holding(p, "ip") = ip[p] /\ Holding(p, "ip")' = NONE /\ Holding(p, "file") = NONE
        /\ Holding(p, "file")' = ip[p]
    BY <1>2, <1>3, <1>4, <1>6, <1>8, <1>i DEF Holding
  <2>2. \A t \in Roles \ {"ip", "file"} : Holding(p, t)' = Holding(p, t)
    BY <1>1, <1>2, <1>3, <1>4, <1>8 DEF Holding, Roles
  <2> QED BY <2>1, <2>2 DEF Moves
<1>10. "ip" \in Roles /\ "file" \in Roles /\ "file" # "ip"
  BY DEF Roles
<1>11. RefsExact' /\ Uses(p)' = Uses(p)
  BY <1>1, <1>4, <1>5, <1>9, <1>10, MovesCounts
<1>12. CacheOK'
  BY <1>1, <1>4, <1>6, <1>i DEF CacheOK
<1>13. Locked(p, ip[p]) /\ \A i \in Inums : Locked(p, i)' <=> Locked(p, i) /\ i # ip[p]
  BY <1>1, <1>2, <1>3, <1>4, <1>8 DEF Locked
<1>14. (Counted(p)' <=> Counted(p)) /\ ~Counted(p)
  BY <1>2, <1>3, <1>4, <1>8 DEF Counted
<1>15. disk' = disk
  BY <1>1 DEF disk
<1> QED BY <1>1, <1>2, <1>4, <1>5, <1>6, <1>8, <1>11, <1>12, <1>13, <1>14, <1>15, FinishDrop

(* sys_chdir sets the new directory.                                       *)
LEMMA chdirDoneKeeps ==
  ASSUME FiniteFacts, FsInv, NEW p \in Procs, sys_chdirDone(p)
  PROVE  FsInv'
<1>1. /\ dtype' = dtype /\ nlink' = nlink /\ ent' = ent /\ pc[p] = "chdirDone"
      /\ cwd' = [cwd EXCEPT ![p] = cur[p]] /\ file' = file /\ bad' = bad /\ call' = call
      /\ path' = path /\ cur' = cur /\ ip' = ip /\ next' = next /\ crossed' = crossed
      /\ ref' = ref /\ valid' = valid /\ lock' = lock
      /\ Goto(p, "done") /\ UNCHANGED <<ret, put>>
  BY DEF sys_chdirDone, At, disk, regs, cache, Set
<1>2. /\ pc[p] \in Steps /\ pc[p] \notin IpAt /\ pc[p] \in CurAt /\ pc[p] \notin LocksCur
      /\ pc[p] \notin LocksIp /\ pc[p] \notin LinkAt
      /\ pc[p] # "createNew" /\ pc[p] # "unlinkCount" /\ pc[p] \notin {"done", "idle"}
  BY <1>1 DEF Steps, IpAt, CurAt, LocksCur, LocksIp, LinkAt
<1>3. /\ "done" \in Steps /\ "done" \notin CurAt /\ "done" \notin IpAt
      /\ "done" \notin LocksCur /\ "done" \notin LocksIp /\ "done" \notin LinkAt
      /\ "done" \notin {"chdirDone", "unlinkIpLocked"} /\ "done" # "unlinkCount"
      /\ "done" \notin {"link", "linkLocked"} /\ "done" \notin ParentAt
      /\ "done" \notin {"create", "createLocked", "createNew", "createNewLocked"}
      /\ "done" \notin NewAt /\ "done" \notin InPut /\ "done" # "unlinkIp"
  BY DEF Steps, CurAt, IpAt, LocksCur, LocksIp, LinkAt, ParentAt, NewAt, InPut
<1>4. /\ pc'[p] = "done" /\ put'[p] = NONE /\ ret'[p] = <<>>
      /\ \A q \in Procs \ {p} : pc'[q] = pc[q] /\ put'[q] = put[q] /\ ret'[q] = ret[q]
      /\ DOMAIN pc' = Procs /\ DOMAIN put' = Procs /\ DOMAIN ret' = Procs
      /\ pc[p] \notin InPut /\ Where(p) = pc[p] /\ ~Linking(p) /\ next[p] = NONE
      /\ Holding(p, "put") = NONE /\ Holding(p, "put")' = NONE
      /\ pc'[p] \notin {"iputDrop", "iputFree"} /\ pc[p] # "iputDrop" /\ pc[p] # "iputFree"
  BY <1>1, <1>2, <1>3, GotoRegs
<1>6. /\ CacheOK /\ file[p] \in Inums \cup {NONE} /\ path[p] \in Seq(Names)
      /\ cur[p] \in Inums /\ dtype[cur[p]] = "T_DIR"
  BY <1>1, <1>2, <1>4, BaseFacts
<1>i. cwd'[p] = cur[p] /\ (\A q \in Procs \ {p} : cwd'[q] = cwd[q]) /\ DOMAIN cwd' = Procs
  BY <1>1, <1>6, SetFacts, ZenonT(40) DEF CacheOK
<1>5. Frame(p)
  BY <1>1, <1>4, <1>i DEF Frame
<1>n. Fresh(p)'
  BY <1>3, <1>4 DEF Fresh, Where
<1>8. Local(p)' /\ Where(p)' = "done" /\ ~Linking(p)'
  <2>1. "done" \in {"done", "idle"}
    OBVIOUS
  <2> QED BY <2>1, <1>1, <1>3, <1>4, <1>6, <1>i, <1>n, StepLocal
<1>9. Moves(p, "cur", "cwd")
  <2>1. /\ Holding(p, "cur") = cur[p] /\ Holding(p, "cur")' = NONE /\ Holding(p, "cwd") = NONE
        /\ Holding(p, "cwd")' = cur[p]
    BY <1>1, <1>2, <1>3, <1>4, <1>6, <1>8, <1>i DEF Holding
  <2>2. \A t \in Roles \ {"cur", "cwd"} : Holding(p, t)' = Holding(p, t)
    BY <1>1, <1>2, <1>3, <1>4, <1>8 DEF Holding, Roles
  <2> QED BY <2>1, <2>2 DEF Moves
<1>10. "cur" \in Roles /\ "cwd" \in Roles /\ "cur" # "cwd"
  BY DEF Roles
<1>11. RefsExact' /\ Uses(p)' = Uses(p)
  BY <1>1, <1>4, <1>5, <1>9, <1>10, MovesCounts
<1>12. CacheOK'
  BY <1>1, <1>4, <1>6, <1>i DEF CacheOK
<1>13. \A i \in Inums : Locked(p, i)' <=> Locked(p, i)
  BY <1>1, <1>2, <1>3, <1>4, <1>8 DEF Locked
<1>14. (Counted(p)' <=> Counted(p)) /\ ~Counted(p)
  BY <1>2, <1>3, <1>4, <1>8 DEF Counted
<1>15. disk' = disk
  BY <1>1 DEF disk
<1> QED BY <1>1, <1>2, <1>4, <1>5, <1>8, <1>11, <1>12, <1>13, <1>14, <1>15, FinishStay

(* A call returns.                                                         *)
LEMMA doneKeeps ==
  ASSUME FsInv, NEW p \in Procs, done(p)
  PROVE  FsInv'
<1>1. /\ dtype' = dtype /\ nlink' = nlink /\ ent' = ent /\ pc[p] = "done"
      /\ cwd' = cwd /\ file' = file /\ next' = next /\ crossed' = crossed
      /\ call' = [call EXCEPT ![p] = NoCall] /\ path' = [path EXCEPT ![p] = <<>>]
      /\ cur' = [cur EXCEPT ![p] = NONE] /\ ip' = [ip EXCEPT ![p] = NONE]
      /\ bad' = [bad EXCEPT ![p] = "done"]
      /\ ref' = ref /\ valid' = valid /\ lock' = lock
      /\ Goto(p, "idle") /\ UNCHANGED <<ret, put>>
  BY DEF done, At, disk, cache, Set
<1>2. /\ pc[p] \in Steps /\ pc[p] \notin IpAt /\ pc[p] \notin CurAt /\ pc[p] \notin LocksCur
      /\ pc[p] \notin LocksIp /\ pc[p] \notin LinkAt /\ pc[p] # "chdirDone"
      /\ pc[p] # "createNew" /\ pc[p] # "unlinkCount"
  BY <1>1 DEF Steps, IpAt, CurAt, LocksCur, LocksIp, LinkAt
<1>3. /\ "idle" \in Steps /\ "idle" \notin CurAt /\ "idle" \notin IpAt
      /\ "idle" \notin LocksCur /\ "idle" \notin LocksIp /\ "idle" \notin LinkAt
      /\ "idle" \notin {"chdirDone", "unlinkIpLocked"} /\ "idle" # "unlinkCount"
      /\ "idle" \notin {"link", "linkLocked"} /\ "idle" \notin ParentAt
      /\ "idle" \notin {"create", "createLocked", "createNew", "createNewLocked"}
      /\ "idle" \notin NewAt /\ "idle" \notin InPut /\ "idle" # "unlinkIp"
      /\ "idle" \in {"done", "idle"} /\ "idle" # "chdirDone"
  BY DEF Steps, CurAt, IpAt, LocksCur, LocksIp, LinkAt, ParentAt, NewAt, InPut
<1>4. /\ pc'[p] = "idle" /\ put'[p] = NONE /\ ret'[p] = <<>>
      /\ \A q \in Procs \ {p} : pc'[q] = pc[q] /\ put'[q] = put[q] /\ ret'[q] = ret[q]
      /\ DOMAIN pc' = Procs /\ DOMAIN put' = Procs /\ DOMAIN ret' = Procs
      /\ pc[p] \notin InPut /\ Where(p) = pc[p] /\ ~Linking(p) /\ next[p] = NONE
      /\ Holding(p, "put") = NONE /\ Holding(p, "put")' = NONE
      /\ pc'[p] \notin {"iputDrop", "iputFree"} /\ pc[p] # "iputDrop" /\ pc[p] # "iputFree"
  BY <1>1, <1>2, <1>3, GotoRegs
<1>6. /\ CacheOK /\ file[p] \in Inums \cup {NONE} /\ cwd[p] \in Inums
      /\ dtype[cwd[p]] = "T_DIR"
  BY <1>1, <1>2, <1>4, BaseFacts
<1>i. /\ path'[p] = <<>> /\ DOMAIN call' = Procs /\ DOMAIN path' = Procs /\ DOMAIN cur' = Procs
      /\ DOMAIN ip' = Procs /\ DOMAIN bad' = Procs
      /\ \A q \in Procs \ {p} : /\ call'[q] = call[q] /\ path'[q] = path[q] /\ cur'[q] = cur[q]
                                /\ ip'[q] = ip[q] /\ bad'[q] = bad[q]
  BY <1>1, <1>6, SetFacts, ZenonT(40) DEF CacheOK
<1>5. Frame(p)
  BY <1>1, <1>4, <1>i DEF Frame
<1>n. Fresh(p)' /\ path'[p] \in Seq(Names)
  <2>1. <<>> \in Seq(Names)
    BY SMT
  <2> QED BY <1>3, <1>4, <1>i, <2>1 DEF Fresh, Where
<1>8. Local(p)' /\ Where(p)' = "idle" /\ ~Linking(p)'
  BY <1>1, <1>3, <1>4, <1>6, <1>n, StepLocal
<1>9. Stays(p)
  BY <1>1, <1>2, <1>3, <1>4, <1>8 DEF Stays, Holding, Roles
<1>11. RefsExact' /\ Uses(p)' = Uses(p)
  <2>1. pc'[p] # "iputDrop"
    BY <1>4
  <2> QED BY <1>1, <1>4, <1>5, <1>9, <2>1, StaysCounts
<1>12. CacheOK'
  BY <1>1, <1>4, <1>6, <1>i DEF CacheOK
<1>13. \A i \in Inums : Locked(p, i)' <=> Locked(p, i)
  BY <1>2, <1>3, <1>4, <1>8 DEF Locked
<1>14. (Counted(p)' <=> Counted(p)) /\ ~Counted(p)
  BY <1>2, <1>3, <1>4, <1>8 DEF Counted
<1>15. disk' = disk
  BY <1>1 DEF disk
<1> QED BY <1>1, <1>2, <1>4, <1>5, <1>8, <1>11, <1>12, <1>13, <1>14, <1>15, FinishStay

(* create returns the i-node it found.                                     *)
LEMMA createCheckKeeps ==
  ASSUME FsInv, NEW p \in Procs, pc[p] = "createIpLocked", Goto(p, "created"),
         UNCHANGED <<ret, put, cache>>,
         UNCHANGED <<disk, cwd, file, bad, regs, panic, crossed>>
  PROVE  FsInv'
<1>1. /\ cwd' = cwd /\ file' = file /\ bad' = bad /\ call' = call /\ path' = path
      /\ cur' = cur /\ ip' = ip /\ next' = next /\ crossed' = crossed /\ disk' = disk
      /\ ref' = ref /\ valid' = valid /\ lock' = lock /\ UNCHANGED <<ret, put>>
  BY DEF cache, regs
<1>2. /\ pc[p] \in Steps /\ "created" \in Steps /\ pc[p] # "createNew"
      /\ pc[p] \notin LocksCur /\ "created" \notin LocksCur /\ pc[p] \in LocksIp
      /\ "created" \in LocksIp
  BY DEF Steps, LocksCur, LocksIp
<1>3. Like("createIpLocked", "created")
  BY DEF Like, InPut, Steps, Looking, CurAt, IpAt, ParentAt, LinkAt, NewAt
<1>4. /\ pc'[p] = "created" /\ put'[p] = NONE /\ ret'[p] = <<>>
      /\ \A q \in Procs \ {p} : pc'[q] = pc[q] /\ put'[q] = put[q] /\ ret'[q] = ret[q]
      /\ DOMAIN pc' = Procs /\ DOMAIN put' = Procs /\ DOMAIN ret' = Procs
      /\ pc[p] \notin InPut /\ Where(p) = pc[p]
      /\ pc'[p] \notin {"iputDrop", "iputFree"} /\ pc[p] # "iputDrop" /\ pc[p] # "iputFree"
  BY <1>1, <1>2, GotoRegs
<1>5. Frame(p) /\ SameRegs(p)
  BY <1>1, <1>4 DEF Frame, SameRegs
<1>6. Stays(p) /\ (Counted(p)' <=> Counted(p)) /\ Local(p)'
  <2>1. pc'[p] # "namexLocked" /\ pc'[p] # "unlinkIpLocked"
    BY <1>4
  <2> QED BY <1>1, <1>3, <1>4, <1>5, <2>1, Relabel
<1>7. Where(p)' = "created"
  BY <1>3, <1>4 DEF Where, Like
<1>11. RefsExact' /\ Uses(p)' = Uses(p)
  <2>1. pc'[p] # "iputDrop"
    BY <1>4
  <2> QED BY <1>1, <1>4, <1>5, <1>6, <2>1, StaysCounts
<1>12. CacheOK'
  <2>1. CacheOK
    BY DEF FsInv, DiskType
  <2> QED BY <1>1, <1>4, <2>1 DEF CacheOK
<1>13. \A i \in Inums : Locked(p, i)' <=> Locked(p, i)
  BY <1>1, <1>2, <1>4, <1>7 DEF Locked
<1> QED BY <1>1, <1>2, <1>4, <1>5, <1>6, <1>11, <1>12, <1>13, FinishStay

----------------------------------------------------------------------------
(* The steps of namex.                                                     *)
LEMMA LookBase ==
  ASSUME FsInv, NEW p \in Procs, pc[p] \in Looking
  PROVE  /\ pc[p] \notin InPut /\ Where(p) = pc[p] /\ put[p] = NONE /\ Holding(p, "put") = NONE
         /\ Target(p) \in Targets /\ ret[p] = <<Target(p)>> /\ Head(ret[p]) = Target(p)
         /\ Tail(ret[p]) = <<>> /\ LookOK(p, Target(p)) /\ CacheOK
         /\ (Linking(p) <=> Target(p) = "linkParent")
         /\ (pc[p] \in CurAt => cur[p] \in Inums /\ Allocated(cur[p]))
         /\ next[p] \in Inums \cup {NONE} /\ (next[p] # NONE <=> pc[p] = "namexNext")
         /\ (pc[p] \in {"namexLocked", "namexNext"} => path[p] # <<>> /\ path[p][1] \in Names)
         /\ pc[p] # "createNew" /\ pc[p] # "iputDrop" /\ pc[p] # "iputFree"
         /\ pc[p] \notin IpAt /\ pc[p] \notin LinkAt /\ pc[p] # "unlinkCount"
         /\ pc[p] # "chdirDone" /\ pc[p] \notin LocksIp
<1>1. /\ pc[p] \notin InPut /\ pc[p] # "createNew" /\ pc[p] # "iputDrop" /\ pc[p] # "iputFree"
      /\ pc[p] \notin IpAt /\ pc[p] \notin LinkAt /\ pc[p] # "unlinkCount"
      /\ pc[p] # "chdirDone" /\ pc[p] \notin LocksIp
  BY DEF Looking, InPut, IpAt, LinkAt, LocksIp
<1>2. /\ Where(p) = pc[p] /\ put[p] = NONE /\ Holding(p, "put") = NONE
      /\ Target(p) \in Targets /\ ret[p] = <<Target(p)>> /\ Head(ret[p]) = Target(p)
  BY <1>1, AtFacts
<1>3. Tail(ret[p]) = <<>>
  BY <1>2, Stack
<1>4. LookOK(p, Target(p)) /\ (Linking(p) <=> Target(p) = "linkParent")
  BY <1>2, LookFacts
<1>5. Typed(p) /\ CacheOK
  BY DEF FsInv, Local, DiskType
<1>6. pc[p] \in CurAt => cur[p] \in Inums /\ Allocated(cur[p])
  BY <1>1, BaseFacts
<1>7. next[p] \in Inums \cup {NONE} /\ (next[p] # NONE <=> pc[p] = "namexNext")
  BY <1>2, <1>5 DEF Typed
<1>8. pc[p] \in {"namexLocked", "namexNext"} => path[p] # <<>> /\ path[p] \in Seq(Names)
  BY <1>2, <1>5 DEF Typed
<1>9. pc[p] \in {"namexLocked", "namexNext"} => path[p][1] \in Names
  BY <1>8, SMT
<1> QED BY <1>1, <1>2, <1>3, <1>4, <1>5, <1>6, <1>7, <1>8, <1>9

(* The registers namex keeps to the end.                                   *)
LEMMA LookKept ==
  ASSUME NEW p \in Procs, NEW l, LookOK(p, l), cwd'[p] = cwd[p], file'[p] = file[p],
         path'[p] \in Seq(Names), dtype' = dtype, call'[p] = call[p], ip'[p] = ip[p],
         bad'[p] = bad[p]
  PROVE  LookOK(p, l)'
  BY DEF LookOK, Inums, Path

(* namex gives up cur to iput, with the i-node it has locked or none.      *)
LEMMA namexPuts ==
  ASSUME FiniteFacts, FsInv, NEW p \in Procs, pc[p] \in {"namex", "namexLocked"},
         iputThen(p, cur[p], "namexFail"), ref' = ref, valid' = valid,
         \/ pc[p] = "namex" /\ lock' = lock
         \/ pc[p] = "namexLocked" /\ lock' = [lock EXCEPT ![cur[p]] = NONE],
         UNCHANGED <<disk, cwd, file, bad, regs, panic, crossed>>
  PROVE  FsInv'
<1>1. /\ cwd' = cwd /\ file' = file /\ bad' = bad /\ call' = call /\ path' = path
      /\ cur' = cur /\ ip' = ip /\ next' = next /\ crossed' = crossed /\ disk' = disk
      /\ dtype' = dtype
  BY DEF disk, regs
<1>2. /\ pc[p] \in Looking /\ pc[p] \in CurAt /\ (pc[p] \in LocksCur <=> pc[p] = "namexLocked")
      /\ pc[p] # "namexNext"
  BY DEF Looking, CurAt, LocksCur
<1>3. /\ "namexFail" \in Looking /\ "namexFail" \in Conts /\ "namexFail" \notin CurAt
      /\ "namexFail" \notin IpAt /\ "namexFail" \notin LocksCur /\ "namexFail" \notin LocksIp
      /\ "namexFail" \notin LinkAt /\ "namexFail" # "unlinkCount" /\ "namexFail" # "chdirDone"
      /\ "namexFail" # "namexNext" /\ "namexFail" \notin {"namex", "namexLocked"}
      /\ "namexFail" \notin {"namexLocked", "namexNext"}
  BY DEF Looking, Conts, CurAt, IpAt, LocksCur, LocksIp, LinkAt
<1>l. PICK l \in Targets : l = Target(p)
  BY <1>2, LookBase
<1>4. /\ pc[p] \notin InPut /\ Where(p) = pc[p] /\ put[p] = NONE /\ Holding(p, "put") = NONE
      /\ l \in Targets /\ ret[p] = <<l>> /\ LookOK(p, l) /\ CacheOK
      /\ (Linking(p) <=> l = "linkParent") /\ cur[p] \in Inums /\ next[p] = NONE
      /\ pc[p] # "createNew" /\ pc[p] # "iputDrop" /\ pc[p] # "iputFree"
      /\ pc[p] \notin IpAt /\ pc[p] \notin LinkAt /\ pc[p] # "unlinkCount"
      /\ pc[p] # "chdirDone" /\ pc[p] \notin LocksIp
  BY <1>2, <1>l, LookBase
<1>5. /\ pc'[p] = "iput" /\ put'[p] = cur[p] /\ ret'[p] = <<"namexFail">> \o ret[p]
      /\ \A q \in Procs \ {p} : pc'[q] = pc[q] /\ put'[q] = put[q] /\ ret'[q] = ret[q]
      /\ DOMAIN pc' = Procs /\ DOMAIN put' = Procs /\ DOMAIN ret' = Procs
  BY <1>4 DEF iputThen, Goto, Set, CacheOK
<1>6. ret'[p] = <<"namexFail", l>>
  <2>1. <<"namexFail">> \o <<l>> = <<"namexFail", l>>
    BY Stack
  <2> QED BY <1>4, <1>5, <2>1
<1>7. Frame(p)
  BY <1>1, <1>5 DEF Frame
<1>8. LookOK(p, l)'
  BY <1>1, <1>4, LookKept DEF LookOK
<1>9. /\ Local(p)' /\ Where(p)' = "namexFail" /\ Target(p)' = l
      /\ (Linking(p)' <=> l = "linkParent")
  BY <1>1, <1>3, <1>4, <1>5, <1>6, <1>8, LookLocal
<1>10. Moves(p, "cur", "put")
  <2>1. /\ Holding(p, "put")' = cur[p] /\ Holding(p, "cur") = cur[p] /\ Holding(p, "cur")' = NONE
    BY <1>2, <1>3, <1>4, <1>5, <1>9 DEF Holding
  <2>2. \A t \in Roles \ {"cur", "put"} : Holding(p, t)' = Holding(p, t)
    BY <1>1, <1>3, <1>4, <1>9 DEF Holding, Roles
  <2> QED BY <1>4, <2>1, <2>2 DEF Moves
<1>11. pc'[p] \notin {"iputDrop", "iputFree"} /\ "cur" \in Roles /\ "put" \in Roles
  BY <1>5 DEF Roles
<1>12. RefsExact' /\ Uses(p)' = Uses(p)
  BY <1>4, <1>7, <1>10, <1>11, MovesCounts
<1>13. CacheOK'
  BY <1>1, <1>4, <1>5 DEF CacheOK
<1>14. Counted(p)' <=> Counted(p)
  BY <1>3, <1>4, <1>9 DEF Counted
<1>15. CASE pc[p] = "namex" /\ lock' = lock
  <2>1. \A i \in Inums : Locked(p, i)' <=> Locked(p, i)
    BY <1>2, <1>3, <1>4, <1>9, <1>11, <1>15 DEF Locked
  <2> QED BY <1>1, <1>4, <1>7, <1>9, <1>11, <1>12, <1>13, <1>14, <1>15, <2>1, FinishStay
<1>16. CASE pc[p] = "namexLocked" /\ lock' = [lock EXCEPT ![cur[p]] = NONE]
  <2>1. Locked(p, cur[p]) /\ \A i \in Inums : Locked(p, i)' <=> Locked(p, i) /\ i # cur[p]
    BY <1>2, <1>3, <1>4, <1>9, <1>11, <1>16 DEF Locked
  <2> QED BY <1>1, <1>4, <1>7, <1>9, <1>11, <1>12, <1>13, <1>14, <1>16, <2>1, FinishDrop
<1> QED BY <1>15, <1>16

(* namex returns to the call.                                              *)
LEMMA namexReturns ==
  ASSUME FsInv, NEW p \in Procs, pc[p] \in {"namex", "namexLocked"},
         Goto(p, Head(ret[p])), ret' = [ret EXCEPT ![p] = Tail(@)], put' = put,
         ref' = ref, valid' = valid,
         \/ pc[p] = "namex" /\ lock' = lock /\ ~nameiparent(p)
         \/ /\ pc[p] = "namexLocked" /\ lock' = [lock EXCEPT ![cur[p]] = NONE]
            /\ nameiparent(p) /\ IsDir(cur[p]),
         UNCHANGED <<disk, cwd, file, bad, regs, panic, crossed>>
  PROVE  FsInv'
<1>1. /\ cwd' = cwd /\ file' = file /\ bad' = bad /\ call' = call /\ path' = path
      /\ cur' = cur /\ ip' = ip /\ next' = next /\ crossed' = crossed /\ disk' = disk
      /\ dtype' = dtype
  BY DEF disk, regs
<1>2. /\ pc[p] \in Looking /\ pc[p] \in CurAt /\ (pc[p] \in LocksCur <=> pc[p] = "namexLocked")
      /\ pc[p] # "namexNext"
  BY DEF Looking, CurAt, LocksCur
<1>l. PICK l \in Targets : l = Target(p)
  BY <1>2, LookBase
<1>4. /\ pc[p] \notin InPut /\ Where(p) = pc[p] /\ put[p] = NONE /\ Holding(p, "put") = NONE
      /\ Head(ret[p]) = l /\ Tail(ret[p]) = <<>> /\ LookOK(p, l) /\ CacheOK
      /\ (Linking(p) <=> l = "linkParent") /\ cur[p] \in Inums /\ next[p] = NONE
      /\ pc[p] # "createNew" /\ pc[p] # "iputDrop" /\ pc[p] # "iputFree"
      /\ pc[p] \notin IpAt /\ pc[p] \notin LinkAt /\ pc[p] # "unlinkCount"
      /\ pc[p] # "chdirDone" /\ pc[p] \notin LocksIp
      /\ (pc[p] = "namexLocked" => path[p] # <<>>)
  BY <1>2, <1>l, LookBase
<1>3. /\ l \in Steps /\ l \in CurAt /\ (l \in IpAt <=> l = "linkParent") /\ l \notin LocksCur
      /\ l \notin LocksIp /\ (l \in LinkAt <=> l = "linkParent") /\ l # "unlinkCount"
      /\ l \notin {"chdirDone", "unlinkIpLocked"} /\ l # "unlinkIp" /\ l # "chdirDone"
      /\ (l \in ParentAt <=> l \in {"linkParent", "unlink", "create"})
      /\ (l \in {"link", "linkLocked"} => l = "link")
      /\ (l \in {"create", "createLocked", "createNew", "createNewLocked"} => l = "create")
      /\ l \notin NewAt /\ l \notin InPut /\ l \notin {"iputDrop", "iputFree"}
  BY DEF Targets, Steps, CurAt, IpAt, LocksCur, LocksIp, LinkAt, ParentAt, NewAt, InPut
<1>5. /\ pc'[p] = l /\ put'[p] = NONE /\ ret'[p] = <<>>
      /\ \A q \in Procs \ {p} : pc'[q] = pc[q] /\ put'[q] = put[q] /\ ret'[q] = ret[q]
      /\ DOMAIN pc' = Procs /\ DOMAIN put' = Procs /\ DOMAIN ret' = Procs
  BY <1>4 DEF Goto, CacheOK
<1>7. Frame(p)
  BY <1>1, <1>5 DEF Frame
<1>8. l \in ParentAt => path[p] # <<>> /\ dtype[cur[p]] = "T_DIR"
  BY <1>3, <1>4 DEF nameiparent, IsDir
<1>n. Fresh(p)'
  BY <1>3, <1>5 DEF Fresh, Where
<1>9. Local(p)' /\ Where(p)' = l /\ ~Linking(p)'
  BY <1>1, <1>3, <1>4, <1>5, <1>8, <1>n, StepLocal DEF LookOK
<1>10. Stays(p)
  <2>1. /\ Holding(p, "put")' = NONE /\ Holding(p, "cur") = cur[p] /\ Holding(p, "cur")' = cur[p]
        /\ Holding(p, "ip")' = Holding(p, "ip")
    BY <1>1, <1>2, <1>3, <1>4, <1>5, <1>9 DEF Holding
  <2>2. \A t \in Roles \ {"cur", "put", "ip"} : Holding(p, t)' = Holding(p, t)
    BY <1>1, <1>3, <1>4, <1>9 DEF Holding, Roles
  <2> QED BY <1>4, <2>1, <2>2 DEF Stays
<1>11. pc'[p] \notin {"iputDrop", "iputFree"} /\ pc'[p] # "iputDrop"
  BY <1>3, <1>5
<1>12. RefsExact' /\ Uses(p)' = Uses(p)
  BY <1>4, <1>7, <1>10, <1>11, StaysCounts
<1>13. CacheOK'
  BY <1>1, <1>4, <1>5 DEF CacheOK
<1>14. Counted(p)' <=> Counted(p)
  BY <1>3, <1>4, <1>9 DEF Counted
<1>15. CASE pc[p] = "namex" /\ lock' = lock
  <2>1. \A i \in Inums : Locked(p, i)' <=> Locked(p, i)
    BY <1>2, <1>3, <1>4, <1>9, <1>11, <1>15 DEF Locked
  <2> QED BY <1>1, <1>4, <1>7, <1>9, <1>11, <1>12, <1>13, <1>14, <1>15, <2>1, FinishStay
<1>16. CASE pc[p] = "namexLocked" /\ lock' = [lock EXCEPT ![cur[p]] = NONE]
  <2>1. Locked(p, cur[p]) /\ \A i \in Inums : Locked(p, i)' <=> Locked(p, i) /\ i # cur[p]
    BY <1>2, <1>3, <1>4, <1>9, <1>11, <1>16 DEF Locked
  <2> QED BY <1>1, <1>4, <1>7, <1>9, <1>11, <1>12, <1>13, <1>14, <1>16, <2>1, FinishDrop
<1> QED BY <1>15, <1>16

(* namex found the next i-node of the path.                                *)
LEMMA namexFinds ==
  ASSUME FiniteFacts, FsInv, NEW p \in Procs, pc[p] = "namexLocked",
         NEW e, e = ent[cur[p]][path[p][1]], e # NONE,
         next' = Set(next, p, e), iget(e), iunlock(cur[p]), iputThen(p, cur[p], "namexNext"),
         UNCHANGED <<disk, cwd, file, bad, call, path, cur, ip, panic, crossed>>
  PROVE  FsInv'
<1>1. /\ cwd' = cwd /\ file' = file /\ bad' = bad /\ call' = call /\ path' = path
      /\ cur' = cur /\ ip' = ip /\ crossed' = crossed /\ disk' = disk /\ dtype' = dtype
      /\ next' = [next EXCEPT ![p] = e] /\ ref' = [ref EXCEPT ![e] = @ + 1] /\ valid' = valid
      /\ lock' = [lock EXCEPT ![cur[p]] = NONE]
  BY DEF disk, Set, iget, iunlock
<1>2. pc[p] \in Looking /\ pc[p] \in CurAt /\ pc[p] \in LocksCur /\ pc[p] # "namexNext"
      /\ pc[p] \in {"namexLocked", "namexNext"}
  BY DEF Looking, CurAt, LocksCur
<1>3. /\ "namexNext" \in Looking /\ "namexNext" \in Conts /\ "namexNext" \notin CurAt
      /\ "namexNext" \notin IpAt /\ "namexNext" \notin LocksCur /\ "namexNext" \notin LocksIp
      /\ "namexNext" \notin LinkAt /\ "namexNext" # "unlinkCount" /\ "namexNext" # "chdirDone"
      /\ "namexNext" \notin {"namex", "namexLocked"}
  BY DEF Looking, Conts, CurAt, IpAt, LocksCur, LocksIp, LinkAt
<1>l. PICK l \in Targets : l = Target(p)
  BY <1>2, LookBase
<1>4. /\ pc[p] \notin InPut /\ Where(p) = pc[p] /\ put[p] = NONE /\ Holding(p, "put") = NONE
      /\ l \in Targets /\ ret[p] = <<l>> /\ LookOK(p, l) /\ CacheOK
      /\ (Linking(p) <=> l = "linkParent") /\ cur[p] \in Inums /\ next[p] = NONE
      /\ pc[p] # "createNew" /\ pc[p] # "iputDrop" /\ pc[p] # "iputFree"
      /\ pc[p] \notin IpAt /\ pc[p] \notin LinkAt /\ pc[p] # "unlinkCount"
      /\ pc[p] # "chdirDone" /\ pc[p] \notin LocksIp /\ path[p] # <<>> /\ path[p][1] \in Names
      /\ Allocated(cur[p])
  BY <1>2, <1>l, LookBase
<1>5. /\ pc'[p] = "iput" /\ put'[p] = cur[p] /\ ret'[p] = <<"namexNext">> \o ret[p]
      /\ next'[p] = e
      /\ \A q \in Procs \ {p} : /\ pc'[q] = pc[q] /\ put'[q] = put[q] /\ ret'[q] = ret[q]
                                /\ next'[q] = next[q]
      /\ DOMAIN pc' = Procs /\ DOMAIN put' = Procs /\ DOMAIN ret' = Procs
      /\ DOMAIN next' = Procs
  BY <1>1, <1>4 DEF iputThen, Goto, Set, CacheOK
<1>6. ret'[p] = <<"namexNext", l>>
  <2>1. <<"namexNext">> \o <<l>> = <<"namexNext", l>>
    BY Stack
  <2> QED BY <1>4, <1>5, <2>1
<1>e. e \in Inums /\ nlink[e] # 0
  BY <1>4, Found
<1>7. Frame(p)
  BY <1>1, <1>5 DEF Frame
<1>8. LookOK(p, l)'
  BY <1>1, <1>4, LookKept DEF LookOK
<1>9. /\ Local(p)' /\ Where(p)' = "namexNext" /\ Target(p)' = l
      /\ (Linking(p)' <=> l = "linkParent")
  BY <1>1, <1>3, <1>4, <1>5, <1>6, <1>8, <1>e, LookLocal
<1>10. MovesGains(p, "cur", "put", "next", e)
  <2>1. /\ Holding(p, "put")' = cur[p] /\ Holding(p, "cur") = cur[p] /\ Holding(p, "cur")' = NONE
        /\ Holding(p, "next") = NONE /\ Holding(p, "next")' = e
    BY <1>2, <1>3, <1>4, <1>5, <1>9 DEF Holding
  <2>2. \A t \in Roles \ {"cur", "put", "next"} : Holding(p, t)' = Holding(p, t)
    BY <1>1, <1>3, <1>4, <1>9 DEF Holding, Roles
  <2> QED BY <1>4, <2>1, <2>2 DEF MovesGains
<1>11. /\ pc'[p] \notin {"iputDrop", "iputFree"} /\ "cur" \in Roles /\ "put" \in Roles
       /\ "next" \in Roles
  BY <1>5 DEF Roles
<1>12. RefsExact' /\ Uses(p)' = Uses(p) \cup {e}
  BY <1>1, <1>4, <1>7, <1>10, <1>11, <1>e, MovesGainsCounts
<1>13. CacheOK'
  <2>1. ref' \in [Inums -> Nat]
    BY <1>1, <1>4, <1>e, CountUp DEF CacheOK
  <2> QED BY <1>1, <1>4, <1>5, <2>1 DEF CacheOK
<1>14. Counted(p)' <=> Counted(p)
  BY <1>3, <1>4, <1>9 DEF Counted
<1>15. Uses(p) \subseteq Uses(p)' /\ \A i \in Uses(p)' : i \in Uses(p) \/ nlink[i] # 0
  BY <1>e, <1>12
<1>16. Locked(p, cur[p]) /\ \A i \in Inums : Locked(p, i)' <=> Locked(p, i) /\ i # cur[p]
  BY <1>2, <1>3, <1>4, <1>9, <1>11 DEF Locked
<1> QED BY <1>1, <1>4, <1>7, <1>9, <1>11, <1>12, <1>13, <1>14, <1>15, <1>16, FinishDrop

(* namex goes on to the next element.                                      *)
LEMMA namexNextKeeps ==
  ASSUME FiniteFacts, FsInv, NEW p \in Procs, namexNext(p)
  PROVE  FsInv'
<1>1. /\ cwd' = cwd /\ file' = file /\ bad' = bad /\ call' = call /\ pc[p] = "namexNext"
      /\ ip' = ip /\ crossed' = crossed /\ disk' = disk /\ dtype' = dtype
      /\ next' = [next EXCEPT ![p] = NONE] /\ ref' = ref /\ valid' = valid /\ lock' = lock
      /\ cur' = [cur EXCEPT ![p] = next[p]] /\ path' = [path EXCEPT ![p] = Tail(@)]
      /\ Goto(p, "namex") /\ ret' = ret /\ put' = put
  BY DEF namexNext, At, disk, cache, Set
<1>2. pc[p] \in Looking /\ pc[p] \notin CurAt /\ pc[p] \notin LocksCur
      /\ pc[p] \in {"namexLocked", "namexNext"}
  BY <1>1 DEF Looking, CurAt, LocksCur
<1>3. /\ "namex" \in Looking /\ "namex" \in CurAt
      /\ "namex" \notin IpAt /\ "namex" \notin LocksCur /\ "namex" \notin LocksIp
      /\ "namex" \notin LinkAt /\ "namex" # "unlinkCount" /\ "namex" # "chdirDone"
      /\ "namex" \notin {"namexLocked", "namexNext"} /\ "namex" # "namexNext"
  BY DEF Looking, CurAt, IpAt, LocksCur, LocksIp, LinkAt
<1>l. PICK l \in Targets : l = Target(p)
  BY <1>2, LookBase
<1>4. /\ pc[p] \notin InPut /\ Where(p) = pc[p] /\ put[p] = NONE /\ Holding(p, "put") = NONE
      /\ l \in Targets /\ ret[p] = <<l>> /\ LookOK(p, l) /\ CacheOK
      /\ (Linking(p) <=> l = "linkParent") /\ next[p] \in Inums \cup {NONE} /\ next[p] # NONE
      /\ pc[p] # "createNew" /\ pc[p] # "iputDrop" /\ pc[p] # "iputFree"
      /\ pc[p] \notin IpAt /\ pc[p] \notin LinkAt /\ pc[p] # "unlinkCount"
      /\ pc[p] # "chdirDone" /\ pc[p] \notin LocksIp /\ path[p] # <<>>
  BY <1>1, <1>2, <1>l, LookBase
<1>5. /\ pc'[p] = "namex" /\ next'[p] = NONE /\ cur'[p] = next[p] /\ path'[p] = Tail(path[p])
      /\ \A q \in Procs \ {p} : /\ pc'[q] = pc[q] /\ path'[q] = path[q] /\ cur'[q] = cur[q]
                                /\ next'[q] = next[q]
      /\ DOMAIN pc' = Procs /\ DOMAIN path' = Procs /\ DOMAIN cur' = Procs
      /\ DOMAIN next' = Procs
  BY <1>1, <1>4 DEF Goto, CacheOK
<1>6. path'[p] \in Seq(Names) /\ next[p] \in Inums
  <2>1. path[p] \in Seq(Names)
    BY <1>4 DEF LookOK
  <2> QED BY <1>4, <1>5, <2>1, SMT
<1>7. Frame(p)
  BY <1>1, <1>5 DEF Frame
<1>8. LookOK(p, l)'
  BY <1>1, <1>4, <1>6, LookKept
<1>9. /\ Local(p)' /\ Where(p)' = "namex" /\ Target(p)' = l
      /\ (Linking(p)' <=> l = "linkParent")
  <2>1. ret'[p] = <<l>> /\ put'[p] = NONE
    BY <1>1, <1>4
  <2> QED BY <1>3, <1>4, <1>5, <1>6, <1>8, <2>1, LookLocal
<1>10. Moves(p, "next", "cur")
  <2>1. /\ Holding(p, "cur") = NONE /\ Holding(p, "cur")' = next[p]
        /\ Holding(p, "next") = next[p] /\ Holding(p, "next")' = NONE
    BY <1>2, <1>3, <1>4, <1>5, <1>9 DEF Holding
  <2>2. \A t \in Roles \ {"next", "cur"} : Holding(p, t)' = Holding(p, t)
    BY <1>1, <1>3, <1>4, <1>9 DEF Holding, Roles
  <2> QED BY <2>1, <2>2 DEF Moves
<1>11. /\ pc'[p] \notin {"iputDrop", "iputFree"} /\ "cur" \in Roles /\ "next" \in Roles
       /\ pc'[p] # "iputDrop"
  BY <1>5 DEF Roles
<1>12. RefsExact' /\ Uses(p)' = Uses(p)
  BY <1>1, <1>4, <1>7, <1>10, <1>11, MovesCounts
<1>13. CacheOK'
  BY <1>1, <1>4, <1>5 DEF CacheOK
<1>14. Counted(p)' <=> Counted(p)
  BY <1>3, <1>4, <1>9 DEF Counted
<1>16. \A i \in Inums : Locked(p, i)' <=> Locked(p, i)
  BY <1>2, <1>3, <1>4, <1>9, <1>11 DEF Locked
<1> QED BY <1>1, <1>4, <1>7, <1>9, <1>11, <1>12, <1>13, <1>14, <1>16, FinishStay

(* namex returns 0.                                                        *)
LEMMA namexFailKeeps ==
  ASSUME FsInv, NEW p \in Procs, namexFail(p)
  PROVE  FsInv'
<1>1. /\ cwd' = cwd /\ file' = file /\ bad' = bad /\ call' = call /\ pc[p] = "namexFail"
      /\ ip' = ip /\ crossed' = crossed /\ disk' = disk /\ dtype' = dtype
      /\ next' = next /\ ref' = ref /\ valid' = valid /\ lock' = lock
      /\ cur' = [cur EXCEPT ![p] = NONE] /\ path' = path
      /\ Goto(p, bad[p]) /\ ret' = [ret EXCEPT ![p] = Tail(@)] /\ put' = put
  BY DEF namexFail, At, disk, cache, Set
<1>2. pc[p] \in Looking /\ pc[p] \notin CurAt /\ pc[p] \notin LocksCur /\ pc[p] # "namexNext"
  BY <1>1 DEF Looking, CurAt, LocksCur
<1>t. PICK l \in Targets : l = Target(p)
  BY <1>2, LookBase
<1>4. /\ pc[p] \notin InPut /\ Where(p) = pc[p] /\ put[p] = NONE /\ Holding(p, "put") = NONE
      /\ Tail(ret[p]) = <<>> /\ LookOK(p, l) /\ CacheOK
      /\ (Linking(p) <=> l = "linkParent") /\ next[p] = NONE
      /\ pc[p] # "createNew" /\ pc[p] # "iputDrop" /\ pc[p] # "iputFree"
      /\ pc[p] \notin IpAt /\ pc[p] \notin LinkAt /\ pc[p] # "unlinkCount"
      /\ pc[p] # "chdirDone" /\ pc[p] \notin LocksIp
  BY <1>2, <1>t, LookBase
<1>b. PICK b : b = bad[p] /\ b = IF l = "linkParent" THEN "linkBad" ELSE "done"
  BY <1>4 DEF LookOK
<1>3. /\ b \in Steps /\ b \notin CurAt /\ (b \in IpAt <=> l = "linkParent") /\ b \notin LocksCur
      /\ b \notin LocksIp /\ (b \in LinkAt <=> l = "linkParent") /\ b # "unlinkCount"
      /\ b \notin {"chdirDone", "unlinkIpLocked"} /\ b # "unlinkIp" /\ b # "chdirDone"
      /\ b \notin ParentAt /\ b \notin {"link", "linkLocked"}
      /\ b \notin {"create", "createLocked", "createNew", "createNewLocked"}
      /\ b \notin NewAt /\ b \notin InPut /\ b \notin {"iputDrop", "iputFree"}
  BY <1>b DEF Steps, CurAt, IpAt, LocksCur, LocksIp, LinkAt, ParentAt, NewAt, InPut
<1>5. /\ pc'[p] = b /\ put'[p] = NONE /\ ret'[p] = <<>>
      /\ \A q \in Procs \ {p} : /\ pc'[q] = pc[q] /\ put'[q] = put[q] /\ ret'[q] = ret[q]
                                /\ cur'[q] = cur[q]
      /\ DOMAIN pc' = Procs /\ DOMAIN put' = Procs /\ DOMAIN ret' = Procs
      /\ DOMAIN cur' = Procs
  BY <1>1, <1>4, <1>b DEF Goto, CacheOK
<1>7. Frame(p)
  BY <1>1, <1>5 DEF Frame
<1>n. Fresh(p)'
  BY <1>3, <1>5 DEF Fresh, Where
<1>9. Local(p)' /\ Where(p)' = b /\ ~Linking(p)'
  <2>1. /\ cwd'[p] \in Inums /\ file'[p] \in Inums \cup {NONE} /\ path'[p] \in Seq(Names)
        /\ dtype'[cwd'[p]] = "T_DIR" /\ next'[p] = NONE
        /\ call'[p].op = "open" => file'[p] = NONE
    BY <1>1, <1>4 DEF LookOK
  <2>2. l = "linkParent" => ip'[p] \in Inums /\ dtype'[ip'[p]] # "T_DIR"
    BY <1>1, <1>4 DEF LookOK
  <2>3. (b \in IpAt => ip'[p] \in Inums) /\ (b \in LinkAt => dtype'[ip'[p]] # "T_DIR")
    BY <1>3, <2>2
  <2> QED BY <1>3, <1>5, <1>n, <2>1, <2>3, StepLocal
<1>10. Stays(p)
  <2>1. /\ Holding(p, "put")' = NONE /\ Holding(p, "cur") = NONE /\ Holding(p, "cur")' = NONE
        /\ Holding(p, "ip")' = Holding(p, "ip")
    BY <1>1, <1>2, <1>3, <1>4, <1>5, <1>9, ZenonT(40) DEF Holding
  <2>2. \A t \in Roles \ {"cur", "put", "ip"} : Holding(p, t)' = Holding(p, t)
    BY <1>1, <1>3, <1>4, <1>9 DEF Holding, Roles
  <2> QED BY <1>4, <2>1, <2>2 DEF Stays
<1>11. pc'[p] \notin {"iputDrop", "iputFree"} /\ pc'[p] # "iputDrop"
  BY <1>3, <1>5
<1>12. RefsExact' /\ Uses(p)' = Uses(p)
  BY <1>1, <1>4, <1>7, <1>10, <1>11, StaysCounts
<1>13. CacheOK'
  BY <1>1, <1>4, <1>5 DEF CacheOK
<1>14. Counted(p)' <=> Counted(p)
  BY <1>3, <1>4, <1>9 DEF Counted
<1>16. \A i \in Inums : Locked(p, i)' <=> Locked(p, i)
  BY <1>2, <1>3, <1>4, <1>9, <1>11 DEF Locked
<1> QED BY <1>1, <1>4, <1>7, <1>9, <1>11, <1>12, <1>13, <1>14, <1>16, FinishStay

(* A call begins.                                                          *)
LEMMA syscallKeeps ==
  ASSUME FiniteFacts, FsInv, NEW p \in Procs, syscall(p)
  PROVE  FsInv'
<1>1. PICK c \in Calls[p] :
        /\ c.op = "open" => file[p] = NONE
        /\ call' = Set(call, p, c)
        /\ namexThen(p, c.path, c.then, "done")
  BY DEF syscall
<1>c. CallOK(c)
  BY FsAssumption
<1>e. PICK e : e = IF c.path.abs THEN ROOTINO ELSE cwd[p]
  OBVIOUS
<1>2. /\ pc[p] = "idle" /\ cwd' = cwd /\ file' = file /\ next' = next /\ ip' = ip
      /\ disk' = disk /\ dtype' = dtype /\ lock' = lock /\ crossed' = crossed /\ put' = put
      /\ cur' = [cur EXCEPT ![p] = e] /\ iget(cur'[p])
      /\ path' = [path EXCEPT ![p] = c.path.elems] /\ bad' = [bad EXCEPT ![p] = "done"]
      /\ ret' = [ret EXCEPT ![p] = <<c.then>> \o @] /\ Goto(p, "namex")
      /\ call' = [call EXCEPT ![p] = c]
  BY <1>1, <1>e DEF syscall, At, disk, namexThen, Set
<1>3. /\ pc[p] \in Steps /\ pc[p] \notin InPut /\ pc[p] \notin IpAt /\ pc[p] \notin CurAt
      /\ pc[p] \notin LocksCur /\ pc[p] \notin LocksIp /\ pc[p] # "chdirDone"
      /\ pc[p] \notin LinkAt /\ pc[p] # "createNew" /\ pc[p] # "unlinkCount"
      /\ pc[p] # "iputFree" /\ pc[p] # "iputDrop"
  BY <1>2 DEF Steps, InPut, IpAt, CurAt, LocksCur, LocksIp, LinkAt
<1>4. /\ Where(p) = pc[p] /\ put[p] = NONE /\ Holding(p, "put") = NONE /\ ret[p] = <<>>
      /\ ~Linking(p) /\ next[p] = NONE
  BY <1>3, AtFacts
<1>5. /\ CacheOK /\ cwd[p] \in Inums /\ file[p] \in Inums \cup {NONE} /\ dtype[cwd[p]] = "T_DIR"
  BY <1>3, BaseFacts
<1>l. PICK l : l = c.then
  OBVIOUS
<1>6. l \in Targets /\ l # "linkParent" /\ c.path.elems \in Seq(Names)
  BY <1>c, <1>l DEF CallOK, Targets, Path
<1>7. /\ pc'[p] = "namex" /\ cur'[p] = e /\ path'[p] = c.path.elems /\ bad'[p] = "done"
      /\ call'[p] = c /\ ret'[p] = <<l>> \o ret[p]
      /\ \A q \in Procs \ {p} : /\ pc'[q] = pc[q] /\ path'[q] = path[q] /\ cur'[q] = cur[q]
                                /\ bad'[q] = bad[q] /\ ret'[q] = ret[q] /\ call'[q] = call[q]
      /\ DOMAIN pc' = Procs /\ DOMAIN path' = Procs /\ DOMAIN cur' = Procs
      /\ DOMAIN bad' = Procs /\ DOMAIN ret' = Procs /\ DOMAIN call' = Procs
  BY <1>2, <1>5, <1>l DEF Goto, CacheOK
<1>8. ret'[p] = <<l>>
  <2>1. <<l>> \o <<>> = <<l>>
    BY Stack
  <2> QED BY <1>4, <1>7, <2>1
<1>9. e \in Inums /\ (nlink[e] # 0 \/ e \in Uses(p))
  <2>1. CASE c.path.abs
    BY <1>e, <2>1, Linked, Consts
  <2>2. CASE ~c.path.abs
    <3>1. cwd[p] \in Uses(p)
      BY <1>3, <1>4, UsesFacts DEF FsInv, Local
    <3> QED BY <1>5, <1>e, <2>2, <3>1
  <2> QED BY <2>1, <2>2
<1>10. Frame(p)
  BY <1>2, <1>7 DEF Frame
<1>11. LookOK(p, l)'
  <2>1. /\ l = "link" => c.new \in Path
        /\ l = "create" => c.type \in {"T_DIR", "T_FILE", "T_DEV"}
    BY <1>c, <1>l DEF CallOK
  <2> QED BY <1>1, <1>2, <1>5, <1>6, <1>7, <2>1 DEF LookOK, Inums, Path
<1>12. /\ "namex" \in Looking /\ "namex" \in CurAt
       /\ "namex" \notin IpAt /\ "namex" \notin LocksCur /\ "namex" \notin LocksIp
       /\ "namex" \notin LinkAt /\ "namex" # "unlinkCount" /\ "namex" # "chdirDone"
       /\ "namex" \notin {"namexLocked", "namexNext"} /\ "namex" # "namexNext"
  BY DEF Looking, CurAt, IpAt, LocksCur, LocksIp, LinkAt
<1>13. /\ Local(p)' /\ Where(p)' = "namex" /\ Target(p)' = l
       /\ (Linking(p)' <=> l = "linkParent")
  <2>1. put'[p] = NONE /\ next'[p] = NONE
    BY <1>2, <1>4
  <2> QED BY <1>6, <1>7, <1>8, <1>9, <1>11, <1>12, <2>1, LookLocal
<1>14. Gains(p, "cur", e)
  <2>1. Holding(p, "cur") = NONE /\ Holding(p, "cur")' = e
    BY <1>3, <1>4, <1>7, <1>12, <1>13 DEF Holding
  <2>2. \A t \in Roles \ {"cur"} : Holding(p, t)' = Holding(p, t)
    BY <1>2, <1>3, <1>4, <1>6, <1>12, <1>13 DEF Holding, Roles
  <2> QED BY <2>1, <2>2 DEF Gains
<1>15. ref' = [ref EXCEPT ![e] = @ + 1] /\ valid' = valid
  BY <1>2, <1>7 DEF iget
<1>16. pc'[p] \notin {"iputDrop", "iputFree"} /\ "cur" \in Roles /\ pc'[p] # "iputDrop"
  BY <1>7 DEF Roles
<1>17. RefsExact' /\ Uses(p)' = Uses(p) \cup {e}
  BY <1>3, <1>9, <1>10, <1>14, <1>15, <1>16, GainsCounts
<1>18. CacheOK'
  BY <1>2, <1>5, <1>7, <1>9, <1>15, SMTT(30) DEF CacheOK
<1>19. (Counted(p)' <=> Counted(p)) /\ ~Counted(p)
  BY <1>3, <1>4, <1>6, <1>12, <1>13 DEF Counted
<1>20. \A i \in Inums : Locked(p, i)' <=> Locked(p, i)
  BY <1>3, <1>4, <1>12, <1>13, <1>16 DEF Locked
<1>21. Uses(p) \subseteq Uses(p)' /\ \A i \in Uses(p)' : i \in Uses(p) \/ nlink[i] # 0
  BY <1>9, <1>17
<1> QED BY <1>2, <1>3, <1>10, <1>13, <1>15, <1>16, <1>17, <1>18, <1>19, <1>20, <1>21, FinishStay

----------------------------------------------------------------------------
(* iput.                                                                   *)

(* A reference counted once is held in one place.                          *)
LEMMA CountOne ==
  ASSUME FiniteFacts, NEW f, NEW x \in Procs \X Roles, NEW e, f[x] = e
  PROVE  /\ Count(f, e) \in Nat \ {0}
         /\ Count(f, e) = 1 <=> \A h \in Procs \X Roles : f[h] = e => h = x
<1> DEFINE F == {h \in Procs \X Roles : f[h] = e}
           G == F \ {x}
<1>1. IsFiniteSet(F) /\ x \in F
  BY FinSets, FinSubset
<1>2. IsFiniteSet(G) /\ Cardinality(G) = Cardinality(F) - 1
  BY <1>1, FinRemove
<1>3. Cardinality(F) \in Nat /\ Cardinality(G) \in Nat /\ (Cardinality(G) = 0 <=> G = {})
  BY <1>1, <1>2, FinCard
<1>4. G = {} <=> \A h \in Procs \X Roles : f[h] = e => h = x
  OBVIOUS
<1>5. Count(f, e) = Cardinality(F)
  BY DEF Count
<1> HIDE DEF F, G
<1> QED BY <1>2, <1>3, <1>4, <1>5, SMT

(* No reference to i.                                                      *)
LEMMA CountZero ==
  ASSUME FiniteFacts, NEW f, NEW i, Count(f, i) = 0
  PROVE  \A h \in Procs \X Roles : f[h] # i
<1>1. IsFiniteSet({h \in Procs \X Roles : f[h] = i})
  BY FinSets, FinSubset
<1>2. {h \in Procs \X Roles : f[h] = i} = {}
  BY <1>1, FinCard DEF Count
<1> QED BY <1>2

(* The same, with iput under way.                                          *)
LEMMA RefsStay ==
  ASSUME FsInv, NEW p \in Procs, Frame(p), Stays(p), ref' = ref
  PROVE  RefsExact' /\ \A h \in Procs \X Roles : held'[h] = held[h]
<1>1. \A h \in Procs \X Roles : held'[h] = held[h]
  <2>1. \A h \in Procs \X Roles : h[1] = p => held'[h] = held[h]
    BY DEF Stays, held
  <2> QED BY <2>1, HeldOthers
<1>2. \A i \in Inums : Count(held', i) = Count(held, i)
  BY <1>1, CountSame, SMT
<1>3. RefsExact'
  BY <1>2 DEF FsInv, RefsExact, Count
<1> QED BY <1>1, <1>3

(* What a process in iput knows.                                           *)
LEMMA InFacts ==
  ASSUME FiniteFacts, FsInv, NEW p \in Procs, pc[p] \in InPut
  PROVE  /\ put[p] \in Inums /\ Where(p) \in Conts /\ Where(p) \notin NewAt
         /\ Where(p) \notin {"unlinkIp", "unlinkIpLocked"} /\ Where(p) # "unlinkIpLocked"
         /\ Holding(p, "put") = put[p] /\ held[<<p, "put">>] = put[p]
         /\ <<p, "put">> \in Procs \X Roles /\ CacheOK
         /\ ref[put[p]] \in Nat \ {0}
         /\ ref[put[p]] = 1 <=> \A h \in Procs \X Roles : held[h] = put[p] => h = <<p, "put">>
<1>1. Stacked(p) /\ Typed(p) /\ CacheOK
  BY DEF FsInv, Local, DiskType
<1>2. pc[p] \notin Steps /\ pc[p] \notin Looking
  BY DEF InPut, Steps, Looking
<1>3. Where(p) \in Conts
  <2>1. PICK k \in Conts, l \in Targets : ret[p] = <<k>> \/ ret[p] = <<k, l>>
    <3>1. "link" \in Targets
      BY DEF Targets
    <3> QED BY <1>1, <1>2, <3>1 DEF Stacked
  <2>2. Head(ret[p]) = k
    BY <2>1, Stack
  <2> QED BY <2>1, <2>2 DEF Where
<1>4. Where(p) \notin NewAt /\ Where(p) \notin {"unlinkIp", "unlinkIpLocked"}
      /\ Where(p) # "unlinkIpLocked"
  BY <1>3 DEF Conts, NewAt
<1>5. put[p] \in Inums
  BY <1>1 DEF Typed
<1>6. Holding(p, "put") = put[p] /\ "put" \in Roles
  BY DEF Holding, Roles
<1>7. held[<<p, "put">>] = put[p] /\ <<p, "put">> \in Procs \X Roles
  BY <1>6, HeldFacts
<1>8. ref[put[p]] = Count(held, put[p])
  BY <1>5 DEF FsInv, RefsExact
<1>9. /\ Count(held, put[p]) \in Nat \ {0}
      /\ Count(held, put[p]) = 1
           <=> \A h \in Procs \X Roles : held[h] = put[p] => h = <<p, "put">>
  BY <1>7, CountOne, SMT
<1> QED BY <1>1, <1>3, <1>4, <1>5, <1>6, <1>7, <1>8, <1>9

(* A step within iput.                                                     *)
LEMMA InStep ==
  ASSUME FiniteFacts, FsInv, NEW p \in Procs, pc[p] \in InPut, NEW l \in InPut, Goto(p, l), l # "iput",
         UNCHANGED <<ref, cwd, file, ret, bad, regs, put>>
  PROVE  /\ Frame(p) /\ Stays(p) /\ Where(p)' = Where(p) /\ Target(p)' = Target(p)
         /\ (Linking(p)' <=> Linking(p)) /\ (Counted(p)' <=> Counted(p)) /\ pc'[p] = l
         /\ RefsExact' /\ (\A h \in Procs \X Roles : held'[h] = held[h]) /\ DOMAIN pc' = Procs
         /\ Stacked(p)' /\ Typed(p)' /\ Called(p)' /\ Fresh(p)'
<1>0. Stacked(p) /\ Typed(p) /\ Called(p) /\ CacheOK /\ Where(p) \notin NewAt
  BY InFacts DEF FsInv, Local
<1>1. /\ ref' = ref /\ cwd' = cwd /\ file' = file /\ ret' = ret /\ bad' = bad /\ put' = put
      /\ call' = call /\ path' = path /\ cur' = cur /\ ip' = ip /\ next' = next
  BY DEF regs
<1>2. pc'[p] = l /\ (\A q \in Procs \ {p} : pc'[q] = pc[q]) /\ DOMAIN pc' = Procs
  BY <1>0 DEF Goto, CacheOK
<1>3. Where(p)' = Where(p) /\ Target(p)' = Target(p)
  BY <1>1, <1>2 DEF Where, Target
<1>4. (Linking(p)' <=> Linking(p)) /\ (Counted(p)' <=> Counted(p))
  BY <1>3 DEF Linking, Counted
<1>5. Frame(p)
  BY <1>1, <1>2 DEF Frame
<1>6. Stays(p)
  BY <1>1, <1>3, <1>4 DEF Stays, Holding
<1>7. RefsExact' /\ \A h \in Procs \X Roles : held'[h] = held[h]
  BY <1>1, <1>5, <1>6, RefsStay
<1>8. Stacked(p)'
  <2>1. pc[p] \notin Steps /\ pc[p] \notin Looking
    BY DEF InPut, Steps, Looking
  <2> QED BY <1>0, <1>1, <1>2, <2>1 DEF Stacked
<1>9. Typed(p)'
  BY <1>0, <1>1, <1>2, <1>3, <1>4 DEF Typed, Inums
<1>10. Called(p)'
  BY <1>0, <1>1, <1>3 DEF Called, Path
<1>11. Fresh(p)'
  BY <1>0, <1>3 DEF Fresh
<1> QED BY <1>2, <1>3, <1>4, <1>5, <1>6, <1>7, <1>8, <1>9, <1>10, <1>11

(* An i-node without links.                                                *)
LEMMA OwedFree ==
  ASSUME FsInv, NEW i \in Inums, Allocated(i), nlink[i] = 0
  PROVE  /\ \/ i \in crossed \/ (\E p \in Procs : i \in Uses(p))
            \/ \E p \in Procs : \E q \in Procs \ {p} : put[p] = i /\ put[q] = i
         /\ \/ valid[i] \/ (\E p \in Procs : pc[p] = "createNew" /\ ip[p] = i)
            \/ \A h \in Procs \X Roles : held[h] # i
  BY DEF FsInv, ToBeFreed

(* iput takes the lock to free an i-node no one else has.                  *)
LEMMA iputFreesKeeps ==
  ASSUME FiniteFacts, FsInv, NEW p \in Procs, pc[p] = "iput", lock[put[p]] = NONE,
         valid[put[p]], nlink[put[p]] = 0, ref[put[p]] = 1,
         lock' = [lock EXCEPT ![put[p]] = p], Goto(p, "iputFree"),
         UNCHANGED <<disk, ref, valid, cwd, file, ret, bad, regs, put, panic, crossed>>
  PROVE  FsInv'
<1>1. pc[p] \in InPut /\ "iputFree" \in InPut /\ "iputFree" # "iput" /\ "iputFree" # "iputDrop"
      /\ pc[p] # "iputFree" /\ pc[p] # "iputDrop"
  BY DEF InPut
<1>2. /\ dtype' = dtype /\ nlink' = nlink /\ ent' = ent /\ disk' = disk /\ put' = put
      /\ valid' = valid /\ cwd' = cwd /\ cur' = cur /\ ip' = ip /\ crossed' = crossed
      /\ ref' = ref /\ UNCHANGED <<ref, cwd, file, ret, bad, regs, put>> /\ call' = call
      /\ path' = path /\ file' = file /\ ret' = ret /\ bad' = bad /\ next' = next
  BY DEF disk, regs
<1>3. /\ put[p] \in Inums /\ Holding(p, "put") = put[p] /\ held[<<p, "put">>] = put[p] /\ CacheOK
      /\ \A h \in Procs \X Roles : held[h] = put[p] => h = <<p, "put">>
  BY <1>1, InFacts
<1>4. /\ Frame(p) /\ Stays(p) /\ Where(p)' = Where(p) /\ Target(p)' = Target(p)
      /\ (Linking(p)' <=> Linking(p)) /\ (Counted(p)' <=> Counted(p)) /\ pc'[p] = "iputFree"
      /\ RefsExact' /\ (\A h \in Procs \X Roles : held'[h] = held[h]) /\ DOMAIN pc' = Procs
      /\ Stacked(p)' /\ Typed(p)' /\ Called(p)' /\ Fresh(p)'
  BY <1>1, <1>2, InStep
<1>5. Uses(p)' = Uses(p)
  <2>1. \A r \in Roles : Dropping(p, r)' <=> Dropping(p, r)
    BY <1>1, <1>4 DEF Dropping
  <2> QED BY <1>4, <2>1 DEF Uses, Stays, Inums
<1>6. Alone(p, "put")'
  <2>1. Holding(p, "put")' = put[p] /\ \A s \in Roles : Holding(p, s)' = Holding(p, s)
    BY <1>2, <1>4 DEF Holding, Stays
  <2>2. ASSUME NEW q \in Procs, NEW r \in Roles, q # p \/ r # "put" PROVE Holding(q, r) # put[p]
    <3>1. <<q, r>> # <<p, "put">> /\ <<q, r>> \in Procs \X Roles
      BY <2>2
    <3> QED BY <1>3, <3>1, HeldFacts
  <2>3. \A q \in Procs \ {p} : Uses(q)' = Uses(q)
    BY <1>4, FrameFacts
  <2>4. \A q \in Procs \ {p} : put[p] \notin Uses(q)
    BY <2>2 DEF Uses
  <2> QED BY <2>1, <2>2, <2>3, <2>4 DEF Alone
<1>7. Local(p)'
  <2>1. Last(p)'
    BY <1>2, <1>6 DEF Last
  <2>2. Seen(p)'
    <3>1. Seen(p) /\ (Where(p) = "chdirDone" => put[p] = cwd[p])
      BY <1>1 DEF FsInv, Local, Seen
    <3> QED BY <1>2, <1>4, <3>1 DEF Seen, IsDir, Name
  <2> QED BY <1>4, <2>1, <2>2 DEF Local
<1>8. LocksExact'
  <2>1. \A i \in Inums : Locked(p, i)' <=> Locked(p, i) \/ i = put[p]
    BY <1>1, <1>2, <1>4 DEF Locked
  <2> QED BY <1>3, <1>4, <2>1, LocksTaken
<1>9. DiskType'
  <2>1. DOMAIN put' = Procs /\ lock' \in [Inums -> Procs \cup {NONE}] /\ CacheOK
    BY <1>2, <1>3 DEF CacheOK
  <2> QED BY <1>2, <1>4, <2>1 DEF FsInv, DiskType, DiskOK, CacheOK, Inums
<1>10. LinksOwed' /\ Tree'
  BY <1>2, <1>4, LinksKept
<1>11. Cached'
  <2>1. \A i \in Inums : lock'[i] # NONE => lock[i] # NONE \/ i = put[p]
    BY <1>3 DEF CacheOK
  <2> QED BY <1>2, <2>1 DEF FsInv, Cached, Allocated, Inums
<1>12. Touch(p) /\ NewUses(p) /\ \A i \in Uses(p)' : dtype'[i] # "free"
  BY <1>2, <1>5 DEF Touch, NewUses, FsInv, UsedLive, Allocated
<1>13. ToBeFreed'
  <2>1. \A q \in Procs : Uses(q)' = Uses(q)
    BY <1>4, <1>5, FrameFacts
  <2>2. ASSUME NEW i \in Inums, Allocated(i), nlink[i] = 0
        PROVE  \/ i \in crossed' \/ (\E q \in Procs : i \in Uses(q)')
               \/ \E q \in Procs : \E o \in Procs \ {q} : put'[q] = i /\ put'[o] = i
    <3>1. i \in crossed => i \in crossed'
      BY <1>2
    <3>2. \A q \in Procs : put'[q] = put[q]
      BY <1>2
    <3>3. ASSUME NEW q \in Procs, NEW o \in Procs \ {q}, put[q] = i, put[o] = i
          PROVE  put'[q] = i /\ put'[o] = i
      BY <3>2, <3>3
    <3>4. \A q \in Procs : i \in Uses(q) => i \in Uses(q)'
      BY <2>1
    <3> QED BY <2>2, <3>1, <3>3, <3>4, OwedFree
  <2>3. ASSUME NEW i \in Inums, Allocated(i), nlink[i] = 0
        PROVE  \/ valid'[i] \/ (\E q \in Procs : pc'[q] = "createNew" /\ ip'[q] = i)
               \/ \A h \in Procs \X Roles : held'[h] # i
    <3>1. CASE \A h \in Procs \X Roles : held[h] # i
      BY <1>4, <3>1
    <3>2. ASSUME NEW q \in Procs, pc[q] = "createNew", ip[q] = i
          PROVE  pc'[q] = "createNew" /\ ip'[q] = i
      BY <1>2, <1>4, <3>2 DEF Frame
    <3>3. CASE valid[i]
      BY <1>2, <3>3
    <3> QED BY <2>3, <3>1, <3>2, <3>3 DEF FsInv, ToBeFreed
  <2> QED BY <1>2, <2>2, <2>3 DEF ToBeFreed, Allocated, Inums
<1> QED BY <1>4, <1>7, <1>8, <1>9, <1>10, <1>11, <1>12, <1>13, Assemble

(* iput goes to drop its reference.                                        *)
LEMMA iputDropsKeeps ==
  ASSUME FiniteFacts, FsInv, NEW p \in Procs, pc[p] = "iput",
         ~(valid[put[p]] /\ nlink[put[p]] = 0 /\ ref[put[p]] = 1),
         lock' = lock, Goto(p, "iputDrop"),
         UNCHANGED <<disk, ref, valid, cwd, file, ret, bad, regs, put, panic, crossed>>
  PROVE  FsInv'
<1>1. pc[p] \in InPut /\ "iputDrop" \in InPut /\ "iputDrop" # "iput" /\ "iputFree" # "iputDrop"
      /\ pc[p] # "iputFree" /\ pc[p] # "iputDrop" /\ pc[p] # "createNew"
  BY DEF InPut
<1>2. /\ dtype' = dtype /\ nlink' = nlink /\ ent' = ent /\ disk' = disk /\ put' = put
      /\ valid' = valid /\ cwd' = cwd /\ cur' = cur /\ ip' = ip /\ crossed' = crossed
      /\ ref' = ref /\ UNCHANGED <<ref, cwd, file, ret, bad, regs, put>> /\ call' = call
      /\ path' = path /\ file' = file /\ ret' = ret /\ bad' = bad /\ next' = next
  BY DEF disk, regs
<1>3. /\ put[p] \in Inums /\ Holding(p, "put") = put[p] /\ held[<<p, "put">>] = put[p] /\ CacheOK
      /\ <<p, "put">> \in Procs \X Roles
      /\ ref[put[p]] = 1 <=> \A h \in Procs \X Roles : held[h] = put[p] => h = <<p, "put">>
  BY <1>1, InFacts
<1>4. /\ Frame(p) /\ Stays(p) /\ Where(p)' = Where(p) /\ Target(p)' = Target(p)
      /\ (Linking(p)' <=> Linking(p)) /\ (Counted(p)' <=> Counted(p)) /\ pc'[p] = "iputDrop"
      /\ RefsExact' /\ (\A h \in Procs \X Roles : held'[h] = held[h]) /\ DOMAIN pc' = Procs
      /\ Stacked(p)' /\ Typed(p)' /\ Called(p)' /\ Fresh(p)'
  BY <1>1, <1>2, InStep
<1>5. /\ Uses(p)' \subseteq Uses(p)
      /\ \A i \in Inums : \A r \in Roles \ {"put"} : Holding(p, r) = i => i \in Uses(p)'
  <2>1. \A r \in Roles : Dropping(p, r)' <=> r = "put"
    BY <1>4 DEF Dropping
  <2>2. \A r \in Roles : ~Dropping(p, r)
    BY <1>1 DEF Dropping
  <2> QED BY <1>4, <2>1, <2>2 DEF Uses, Stays, Inums
<1>7. Local(p)'
  <2>1. Last(p)'
    BY <1>1, <1>4 DEF Last
  <2>2. Seen(p)'
    <3>1. Seen(p) /\ (Where(p) = "chdirDone" => put[p] = cwd[p])
      BY <1>1 DEF FsInv, Local, Seen
    <3> QED BY <1>2, <1>4, <3>1 DEF Seen, IsDir, Name
  <2> QED BY <1>4, <2>1, <2>2 DEF Local
<1>8. LocksExact'
  <2>1. \A i \in Inums : Locked(p, i)' <=> Locked(p, i)
    BY <1>1, <1>2, <1>4 DEF Locked
  <2> QED BY <1>4, <2>1, LocksStay
<1>9. DiskType'
  BY <1>2, <1>3, <1>4 DEF FsInv, DiskType, DiskOK, CacheOK, Inums
<1>10. LinksOwed' /\ Tree'
  BY <1>2, <1>4, LinksKept
<1>11. Cached'
  BY <1>2 DEF FsInv, Cached, Allocated, Inums
<1>12. Touch(p) /\ NewUses(p) /\ \A i \in Uses(p)' : dtype'[i] # "free"
  BY <1>2, <1>5 DEF Touch, NewUses, FsInv, UsedLive, Allocated
<1>13. ASSUME NEW i \in Inums, Allocated(i), nlink[i] = 0
       PROVE  \/ valid'[i] \/ (\E q \in Procs : pc'[q] = "createNew" /\ ip'[q] = i)
              \/ \A h \in Procs \X Roles : held'[h] # i
  <2>1. CASE \A h \in Procs \X Roles : held[h] # i
    BY <1>4, <2>1
  <2>2. ASSUME NEW q \in Procs, pc[q] = "createNew", ip[q] = i
        PROVE  pc'[q] = "createNew" /\ ip'[q] = i
    BY <1>1, <1>2, <1>4, <2>2 DEF Frame
  <2>3. CASE valid[i]
    BY <1>2, <2>3
  <2> QED BY <1>13, <2>1, <2>2, <2>3 DEF FsInv, ToBeFreed
<1>14. ASSUME Allocated(put[p]), nlink[put[p]] = 0
       PROVE  \/ \E q \in Procs : put[p] \in Uses(q)'
              \/ \E q \in Procs \ {p} : put'[p] = put[p] /\ put'[q] = put[p]
  <2>0. "put" \in Roles /\ ~Dropping(p, "put")
    BY <1>1 DEF Roles, Dropping
  <2>a. put[p] \in Uses(p)
    BY <1>3, <2>0 DEF Uses
  <2>1. ~ \E q \in Procs : pc[q] = "createNew" /\ ip[q] = put[p]
    <3>1. SUFFICES ASSUME NEW q \in Procs, pc[q] = "createNew", ip[q] = put[p] PROVE FALSE
      OBVIOUS
    <3>2. q # p /\ Where(q) \in NewAt /\ Where(q) \in IpAt
      BY <1>1, <3>1 DEF Where, NewAt, IpAt, InPut
    <3>3. Alone(q, "ip") /\ Holding(q, "ip") = put[p]
      BY <3>1, <3>2 DEF FsInv, Local, Fresh, Holding
    <3> QED BY <2>a, <3>2, <3>3 DEF Alone
  <2>2. valid[put[p]]
    BY <1>3, <1>14, <2>1 DEF FsInv, ToBeFreed
  <2>3. PICK h \in Procs \X Roles : held[h] = put[p] /\ h # <<p, "put">>
    BY <1>3, <1>14, <2>2
  <2>4. h[1] \in Procs /\ h[2] \in Roles /\ Holding(h[1], h[2]) = put[p]
        /\ (h[1] # p \/ h[2] # "put")
    BY <2>3, HeldFacts
  <2>5. CASE h[1] = p
    BY <1>3, <1>5, <2>4, <2>5
  <2>6. CASE h[1] # p
    <3>1. Uses(h[1])' = Uses(h[1])
      BY <1>4, <2>4, <2>6, FrameFacts
    <3>2. CASE Dropping(h[1], h[2])
      <4>1. put[h[1]] = put[p]
        BY <2>4, <3>2 DEF Dropping, Holding
      <4> QED BY <1>2, <2>4, <2>6, <4>1
    <3>3. CASE ~Dropping(h[1], h[2])
      BY <1>3, <2>4, <3>1, <3>3 DEF Uses
    <3> QED BY <3>2, <3>3
  <2> QED BY <2>5, <2>6
<1>15. ASSUME NEW i \in Inums, Allocated(i), nlink[i] = 0
       PROVE  \/ i \in crossed' \/ (\E q \in Procs : i \in Uses(q)')
              \/ \E q \in Procs : \E o \in Procs \ {q} : put'[q] = i /\ put'[o] = i
  <2>1. CASE i = put[p]
    BY <1>14, <1>15, <2>1
  <2>2. CASE i # put[p]
    <3>1. i \in Uses(p) => i \in Uses(p)'
      <4>1. ASSUME i \in Uses(p) PROVE \E r \in Roles \ {"put"} : Holding(p, r) = i
        BY <1>3, <2>2, <4>1 DEF Uses
      <4> QED BY <1>5, <4>1
    <3>2. \A q \in Procs \ {p} : Uses(q)' = Uses(q)
      BY <1>4, FrameFacts
    <3>3. \A q \in Procs : i \in Uses(q) => i \in Uses(q)'
      BY <3>1, <3>2
    <3>4. i \in crossed => i \in crossed'
      BY <1>2
    <3>5. \A q \in Procs : put'[q] = put[q]
      BY <1>2
    <3>6. ASSUME NEW q \in Procs, NEW o \in Procs \ {q}, put[q] = i, put[o] = i
          PROVE  put'[q] = i /\ put'[o] = i
      BY <3>5, <3>6
    <3> QED BY <1>15, <3>3, <3>4, <3>6, OwedFree
  <2> QED BY <2>1, <2>2
<1>16. ToBeFreed'
  BY <1>2, <1>13, <1>15 DEF ToBeFreed, Allocated, Inums
<1> QED BY <1>4, <1>7, <1>8, <1>9, <1>10, <1>11, <1>12, <1>16, Assemble

(* Names, subdirectories and calls that only go away.                      *)
LEMMA LinksFewer ==
  ASSUME FiniteFacts, FsInv, NEW i \in Inums, Naming(i)' \subseteq Naming(i),
         Subdirs(i)' \subseteq Subdirs(i), Pending(i)' \subseteq Pending(i)
  PROVE  /\ Cardinality(Naming(i)') <= Cardinality(Naming(i))
         /\ Cardinality(Subdirs(i)') <= Cardinality(Subdirs(i))
         /\ Cardinality(Pending(i)') <= Cardinality(Pending(i))
         /\ Cardinality(Naming(i)') \in Nat /\ Cardinality(Subdirs(i)') \in Nat
         /\ Cardinality(Pending(i)') \in Nat
<1>1. IsFiniteSet(Naming(i)) /\ IsFiniteSet(Subdirs(i)) /\ IsFiniteSet(Pending(i))
  BY Finite
<1>2. Cardinality(Naming(i)') <= Cardinality(Naming(i)) /\ IsFiniteSet(Naming(i)')
  BY <1>1, FinSubset, SMT
<1>3. Cardinality(Subdirs(i)') <= Cardinality(Subdirs(i)) /\ IsFiniteSet(Subdirs(i)')
  BY <1>1, FinSubset, SMT
<1>4. Cardinality(Pending(i)') <= Cardinality(Pending(i)) /\ IsFiniteSet(Pending(i)')
  BY <1>1, FinSubset, SMT
<1> QED BY <1>2, <1>3, <1>4, FinCard

(* No call counts a link more or less.                                     *)
LEMMA PendingKept ==
  ASSUME NEW p \in Procs, Frame(p), (Counted(p)' <=> Counted(p)), Counted(p) => ip'[p] = ip[p]
  PROVE  \A i \in Inums : Pending(i)' = Pending(i)
<1>1. \A q \in Procs \ {p} : (Counted(q)' <=> Counted(q)) /\ ip'[q] = ip[q]
  BY FrameFacts DEF Frame
<1> QED BY <1>1 DEF Pending

(* iput frees the i-node.                                                  *)
LEMMA iputFreeKeeps ==
  ASSUME FiniteFacts, FsInv, NEW p \in Procs, iputFree(p)
  PROVE  FsInv'
<1>e. PICK e : e = put[p]
  OBVIOUS
<1>1. pc[p] = "iputFree" /\ pc[p] \in InPut /\ "iputDrop" \in InPut /\ "iputDrop" # "iput"
      /\ "iputDrop" # "iputFree"
  BY DEF iputFree, At, InPut
<1>2. /\ dtype' = [dtype EXCEPT ![e] = "free"]
      /\ ent' = [ent EXCEPT ![e] = [n \in Names \cup Dots |-> NONE]] /\ nlink' = nlink
      /\ valid' = [valid EXCEPT ![e] = FALSE] /\ lock' = [lock EXCEPT ![e] = NONE]
      /\ Goto(p, "iputDrop") /\ crossed' = crossed \ {e} /\ ref' = ref /\ cwd' = cwd
      /\ file' = file /\ ret' = ret /\ bad' = bad /\ put' = put /\ call' = call /\ path' = path
      /\ cur' = cur /\ ip' = ip /\ next' = next
      /\ UNCHANGED <<ref, cwd, file, ret, bad, regs, put>>
  BY <1>e DEF iputFree, iunlock, regs
<1>3. /\ e \in Inums /\ Holding(p, "put") = e /\ held[<<p, "put">>] = e /\ CacheOK
      /\ Where(p) \notin {"unlinkIp", "unlinkIpLocked"} /\ Where(p) # "unlinkIpLocked"
  BY <1>1, <1>e, InFacts
<1>4. /\ Frame(p) /\ Stays(p) /\ Where(p)' = Where(p) /\ Target(p)' = Target(p)
      /\ (Linking(p)' <=> Linking(p)) /\ (Counted(p)' <=> Counted(p)) /\ pc'[p] = "iputDrop"
      /\ RefsExact' /\ (\A h \in Procs \X Roles : held'[h] = held[h]) /\ DOMAIN pc' = Procs
      /\ Stacked(p)' /\ Typed(p)' /\ Called(p)' /\ Fresh(p)'
  BY <1>1, <1>2, InStep
<1>5. /\ nlink[e] = 0 /\ Alone(p, "put") /\ \A s \in Roles \ {"put"} : Holding(p, s) # e
  BY <1>1, <1>3, <1>e DEF FsInv, Local, Last, Alone
<1>6. /\ dtype'[e] = "free" /\ valid'[e] = FALSE /\ lock'[e] = NONE
      /\ \A n \in Names \cup Dots : ent'[e][n] = NONE
      /\ \A i \in Inums \ {e} : /\ dtype'[i] = dtype[i] /\ ent'[i] = ent[i]
                                /\ valid'[i] = valid[i] /\ lock'[i] = lock[i]
  BY <1>2, <1>3 DEF FsInv, DiskType, DiskOK, CacheOK
<1>7. Uses(p)' = Uses(p) \ {e}
  <2>1. \A r \in Roles : (Dropping(p, r)' <=> r = "put") /\ ~Dropping(p, r)
    BY <1>1, <1>4 DEF Dropping
  <2>2. \A i \in Inums : i \in Uses(p)' <=> \E r \in Roles \ {"put"} : Holding(p, r) = i
    BY <1>4, <2>1 DEF Uses, Stays, Inums
  <2>3. \A i \in Inums : i \in Uses(p) <=> \E r \in Roles : Holding(p, r) = i
    BY <2>1 DEF Uses
  <2>4. \A i \in Inums : i \in Uses(p)' <=> i \in Uses(p) /\ i # e
    BY <1>3, <1>5, <2>2, <2>3
  <2>5. Uses(p) \subseteq Inums /\ Uses(p)' \subseteq Inums
    BY DEF Uses, Inums
  <2> QED BY <2>4, <2>5
<1>8. \A q \in Procs \ {p} : Uses(q)' = Uses(q) /\ e \notin Uses(q)
  BY <1>3, <1>4, <1>5, FrameFacts DEF Alone
<1>9. Local(p)'
  <2>1. Last(p)'
    BY <1>1, <1>4 DEF Last
  <2>2. Seen(p)'
    <3>0. Seen(p) /\ Typed(p)
      BY DEF FsInv, Local
    <3>1. \A i \in Uses(p) : i # e => dtype'[i] = dtype[i]
      BY <1>6 DEF Uses
    <3>2. Where(p) \in CurAt => cur[p] \in Uses(p) /\ cur[p] # e
      <4>1. Where(p) \in CurAt => Holding(p, "cur") = cur[p]
        BY DEF Holding
      <4>2. "cur" \in Roles \ {"put"}
        BY DEF Roles
      <4> QED BY <1>5, <3>0, <4>1, <4>2, UsesFacts
    <3>3. Where(p) # "chdirDone" => cwd[p] \in Uses(p) /\ cwd[p] # e
      <4>1. Where(p) # "chdirDone" => Holding(p, "cwd") = cwd[p]
        BY DEF Holding
      <4>2. "cwd" \in Roles \ {"put"}
        BY DEF Roles
      <4> QED BY <1>5, <3>0, <4>1, <4>2, UsesFacts
    <3>4. Where(p) \in IpAt \/ Linking(p) => ip[p] \in Uses(p) /\ ip[p] # e
      <4>1. Where(p) \in IpAt \/ Linking(p) => Holding(p, "ip") = ip[p]
        BY DEF Holding
      <4>2. "ip" \in Roles \ {"put"}
        BY DEF Roles
      <4> QED BY <1>5, <3>0, <4>1, <4>2, UsesFacts
    <3>5. /\ Where(p) \in ParentAt \cup {"chdirDone"} => Where(p) \in CurAt
          /\ Where(p) \in LinkAt => Where(p) \in IpAt
      BY DEF ParentAt, CurAt, LinkAt, IpAt
    <3>6. Where(p) \in ParentAt \cup {"chdirDone"} => IsDir(cur[p])'
      BY <1>2, <3>0, <3>1, <3>2, <3>5 DEF Seen, IsDir
    <3>7. Where(p) # "chdirDone" => IsDir(cwd[p])'
      BY <1>2, <3>0, <3>1, <3>3 DEF Seen, IsDir
    <3>8. Where(p) \in LinkAt \/ Linking(p) => ~IsDir(ip[p])'
      BY <1>2, <3>0, <3>1, <3>4, <3>5 DEF Seen, IsDir
    <3>9. Where(p) = "chdirDone" => put'[p] = cwd'[p]
      BY <1>1, <1>2, <3>0 DEF Seen
    <3> QED BY <1>3, <1>4, <3>6, <3>7, <3>8, <3>9 DEF Seen
  <2> QED BY <1>4, <2>1, <2>2 DEF Local
<1>10. Locked(p, e) /\ lock[e] = p
  BY <1>1, <1>3, <1>e DEF FsInv, LocksExact, Locked
<1>11. LocksExact'
  <2>1. \A i \in Inums : Locked(p, i)' <=> Locked(p, i) /\ i # e
    <3>1. Where(p) \in LocksCur => cur[p] # e
      <4>1. Where(p) \in LocksCur => Holding(p, "cur") = cur[p] /\ "cur" \in Roles \ {"put"}
        BY DEF Holding, Roles, LocksCur, CurAt
      <4> QED BY <1>5, <4>1
    <3>2. Where(p) \in LocksIp => ip[p] # e
      <4>1. Where(p) \in LocksIp => Holding(p, "ip") = ip[p] /\ "ip" \in Roles \ {"put"}
        BY DEF Holding, Roles, LocksIp, IpAt
      <4> QED BY <1>5, <4>1
    <3> QED BY <1>1, <1>2, <1>4, <1>e, <3>1, <3>2 DEF Locked
  <2> QED BY <1>2, <1>3, <1>4, <1>10, <2>1, LocksDropped
<1>12. DiskType'
  <2>1. DiskOK /\ CacheOK
    BY DEF FsInv, DiskType
  <2>2. DiskOK'
    BY <1>2, <1>3, <2>1 DEF DiskOK
  <2>3. valid' \in [Inums -> BOOLEAN] /\ lock' \in [Inums -> Procs \cup {NONE}]
    BY <1>2, <1>3, <2>1 DEF CacheOK
  <2>4. CacheOK'
    BY <1>2, <1>4, <2>1, <2>3 DEF CacheOK, Inums
  <2> QED BY <2>2, <2>4 DEF DiskType
<1>13. Touch(p) /\ NewUses(p) /\ \A i \in Uses(p)' : dtype'[i] # "free"
  <2>1. Touch(p)
    BY <1>1, <1>2, <1>6, <1>10, <1>e DEF Touch
  <2>2. NewUses(p)
    BY <1>7 DEF NewUses
  <2>3. \A i \in Uses(p) : Allocated(i) /\ i \in Inums
    BY DEF FsInv, UsedLive, Uses
  <2> QED BY <1>6, <1>7, <2>1, <2>2, <2>3 DEF Allocated
<1>14. \A i \in Inums : /\ Naming(i)' \subseteq Naming(i) /\ Subdirs(i)' \subseteq Subdirs(i)
                        /\ Pending(i)' = Pending(i)
  <2>1. \A i \in Inums : Naming(i)' \subseteq Naming(i)
    <3>1. \A x \in Inums \X Names : x[1] \in Inums
      OBVIOUS
    <3> QED BY <1>6, <3>1 DEF Naming, Allocated
  <2>2. \A i \in Inums : Subdirs(i)' \subseteq Subdirs(i)
    <3>1. ".." \in Names \cup Dots /\ NONE \notin Inums
      BY Consts DEF Dots
    <3>2. ASSUME NEW i \in Inums, NEW d \in Inums, Naming(d)' # {}, ent'[d][".."] = i
          PROVE  Naming(d) # {} /\ ent[d][".."] = i
      BY <1>6, <2>1, <3>1, <3>2
    <3> QED BY <3>2 DEF Subdirs
  <2>3. \A i \in Inums : Pending(i)' = Pending(i)
    BY <1>2, <1>4, PendingKept
  <2> QED BY <2>1, <2>2, <2>3
<1>15. LinksOwed'
  <2>1. ASSUME NEW i \in Inums
        PROVE  Cardinality(Naming(i)') + Cardinality(Subdirs(i)') + Cardinality(Pending(i)')
                 + (IF i = ROOTINO THEN 1 ELSE 0) <= nlink'[i]
    <3>1. /\ Cardinality(Naming(i)') <= Cardinality(Naming(i))
          /\ Cardinality(Subdirs(i)') <= Cardinality(Subdirs(i))
          /\ Cardinality(Pending(i)') <= Cardinality(Pending(i))
          /\ Cardinality(Naming(i)') \in Nat /\ Cardinality(Subdirs(i)') \in Nat
          /\ Cardinality(Pending(i)') \in Nat
      BY <1>14, LinksFewer
    <3>2. Cardinality(Naming(i)) + Cardinality(Subdirs(i)) + Cardinality(Pending(i))
            + (IF i = ROOTINO THEN 1 ELSE 0) <= nlink[i]
      BY DEF FsInv, LinksOwed
    <3>3. nlink[i] \in Nat /\ nlink'[i] = nlink[i]
      BY <1>2, Linked
    <3> QED BY <3>1, <3>2, <3>3, Finite, SMTT(30)
  <2> QED BY <2>1 DEF LinksOwed, ROOTINO, Inums
<1>16. Tree'
  <2>0. Tree
    BY DEF FsInv
  <2>1. ROOTINO # e /\ ROOTINO \in Inums
    BY <1>3, <1>5, Linked, Consts
  <2>2. IsDir(ROOTINO)' /\ Naming(ROOTINO)' = {}
    BY <1>6, <1>14, <2>0, <2>1 DEF Tree, IsDir, ROOTINO
  <2>3. \A i \in Inums : IsDir(i)' => \A x, y \in Naming(i)' : x = y /\ ent'[i][".."] = x[1]
    <3>1. \A i \in Inums : IsDir(i)' => IsDir(i) /\ ent'[i] = ent[i]
      BY <1>6 DEF IsDir
    <3> QED BY <1>14, <2>0, <3>1 DEF Tree
  <2>4. \A i \in Inums : ~IsDir(i)' => \A n \in Names \cup Dots : ent'[i][n] = NONE
    <3>1. \A i \in Inums \ {e} : ~IsDir(i)' => ~IsDir(i) /\ ent'[i] = ent[i]
      BY <1>6 DEF IsDir
    <3>2. ASSUME NEW i \in Inums \ {e}, ~IsDir(i)' PROVE \A n \in Names \cup Dots : ent'[i][n] = NONE
      <4>1. ~IsDir(i) /\ ent'[i] = ent[i] /\ i \in Inums
        BY <3>1, <3>2
      <4>2. \A n \in Names \cup Dots : ent[i][n] = NONE
        BY <2>0, <4>1 DEF Tree
      <4> QED BY <4>1, <4>2
    <3> QED BY <1>6, <3>2
  <2>5. \A i \in Inums : ~Allocated(i)' => nlink'[i] = 0
    BY <1>2, <1>5, <1>6, <2>0 DEF Tree, Allocated
  <2> QED BY <2>2, <2>3, <2>4, <2>5 DEF Tree, Inums, Dots
<1>17. Cached'
  BY <1>6 DEF FsInv, Cached, Allocated, Inums
<1>18. ASSUME NEW i \in Inums, Allocated(i)', nlink'[i] = 0
       PROVE  i # e /\ Allocated(i) /\ nlink[i] = 0
  BY <1>2, <1>6, <1>18 DEF Allocated
<1>19. ASSUME NEW i \in Inums, Allocated(i)', nlink'[i] = 0
       PROVE  \/ i \in crossed' \/ (\E q \in Procs : i \in Uses(q)')
              \/ \E q \in Procs : \E o \in Procs \ {q} : put'[q] = i /\ put'[o] = i
  <2>1. i # e /\ Allocated(i) /\ nlink[i] = 0
    BY <1>18, <1>19
  <2>2. i \in crossed => i \in crossed'
    BY <1>2, <2>1
  <2>3. ASSUME NEW q \in Procs, i \in Uses(q) PROVE i \in Uses(q)'
    BY <1>7, <1>8, <2>1, <2>3
  <2>4. ASSUME NEW q \in Procs, NEW o \in Procs \ {q}, put[q] = i, put[o] = i
        PROVE  put'[q] = i /\ put'[o] = i
    BY <1>2, <2>4
  <2> QED BY <2>1, <2>2, <2>3, <2>4, OwedFree
<1>20. ASSUME NEW i \in Inums, Allocated(i)', nlink'[i] = 0
       PROVE  \/ valid'[i] \/ (\E q \in Procs : pc'[q] = "createNew" /\ ip'[q] = i)
              \/ \A h \in Procs \X Roles : held'[h] # i
  <2>1. i # e /\ Allocated(i) /\ nlink[i] = 0
    BY <1>18, <1>20
  <2>2. CASE \A h \in Procs \X Roles : held[h] # i
    BY <1>4, <2>2
  <2>3. ASSUME NEW q \in Procs, pc[q] = "createNew", ip[q] = i
        PROVE  pc'[q] = "createNew" /\ ip'[q] = i
    <3>1. q # p
      BY <1>1, <2>3
    <3> QED BY <1>4, <2>3, <3>1 DEF Frame
  <2>4. CASE valid[i]
    BY <1>6, <2>1, <2>4
  <2> QED BY <2>1, <2>2, <2>3, <2>4, OwedFree
<1>21. ToBeFreed'
  BY <1>19, <1>20 DEF ToBeFreed, Inums
<1> QED BY <1>4, <1>9, <1>11, <1>12, <1>13, <1>15, <1>16, <1>17, <1>21, Assemble

(* iput returns.                                                           *)
LEMMA iputReturns ==
  ASSUME FiniteFacts, FsInv, NEW p \in Procs, pc[p] = "iputDrop", Goto(p, Head(ret[p])),
         ret' = [ret EXCEPT ![p] = Tail(@)], put' = Set(put, p, NONE),
         UNCHANGED <<disk, cwd, file, bad, regs>>
  PROVE  /\ Frame(p) /\ Where(p)' = Where(p) /\ (Linking(p)' <=> Linking(p))
         /\ (Counted(p)' <=> Counted(p)) /\ pc'[p] = Where(p) /\ pc'[p] \notin InPut
         /\ put'[p] = NONE /\ Local(p)'
         /\ DOMAIN pc' = Procs /\ DOMAIN ret' = Procs /\ DOMAIN put' = Procs
         /\ \A t \in Roles \ {"put"} : Holding(p, t)' = Holding(p, t)
<1>0. Stacked(p) /\ Typed(p) /\ Called(p) /\ Seen(p) /\ CacheOK /\ pc[p] \in InPut
  BY DEF FsInv, Local, DiskType, InPut
<1>1. /\ dtype' = dtype /\ nlink' = nlink /\ ent' = ent /\ cwd' = cwd /\ file' = file
      /\ bad' = bad /\ call' = call /\ path' = path /\ cur' = cur /\ ip' = ip /\ next' = next
  BY DEF disk, regs
<1>2. /\ pc'[p] = Head(ret[p]) /\ put'[p] = NONE /\ ret'[p] = Tail(ret[p])
      /\ \A q \in Procs \ {p} : pc'[q] = pc[q] /\ put'[q] = put[q] /\ ret'[q] = ret[q]
      /\ DOMAIN pc' = Procs /\ DOMAIN put' = Procs /\ DOMAIN ret' = Procs
  BY <1>0 DEF Goto, Set, CacheOK
<1>3. Frame(p)
  BY <1>1, <1>2 DEF Frame
<1>4. Where(p) \in Conts /\ Where(p) \notin NewAt /\ Where(p) = Head(ret[p])
      /\ pc[p] \notin Steps /\ pc[p] \notin Looking
  <2>1. pc[p] \notin Steps /\ pc[p] \notin Looking
    BY DEF Steps, Looking
  <2> QED BY <1>0, <2>1, InFacts DEF Where
<1>5. pc'[p] \notin InPut /\ pc'[p] = Where(p) /\ pc'[p] # "iputFree"
  BY <1>2, <1>4 DEF Conts, InPut
<1>6. Where(p)' = Where(p)
  BY <1>5 DEF Where
<1>7. Stacked(p)' /\ (Where(p) \in Looking => Target(p)' = Target(p))
  <2>1. ASSUME NEW k \in Conts \ Looking, ret[p] = <<k>>
        PROVE  Stacked(p)' /\ Where(p) \notin Looking
    <3>1. Where(p) = k /\ ret'[p] = <<>>
      BY <1>2, <1>4, <2>1, Stack, ZenonT(40)
    <3>2. k \in Steps
      BY DEF Conts, Looking, Steps
    <3> QED BY <1>5, <3>1, <3>2 DEF Stacked
  <2>2. ASSUME NEW k \in Conts \cap Looking, NEW l \in Targets, ret[p] = <<k, l>>
        PROVE  Stacked(p)' /\ Target(p)' = Target(p)
    <3>1. Where(p) = k /\ ret'[p] = <<l>> /\ Target(p) = l
      BY <1>0, <1>2, <1>4, <2>2, Stack, SMTT(30) DEF Target
    <3>2. Target(p)' = l
      BY <1>5, <3>1, Stack DEF Target
    <3> QED BY <1>5, <3>1, <3>2 DEF Stacked
  <2> QED BY <1>0, <1>4, <2>1, <2>2 DEF Stacked
<1>8. (Linking(p)' <=> Linking(p)) /\ (Counted(p)' <=> Counted(p))
  BY <1>6, <1>7 DEF Linking, Counted
<1>9. \A t \in Roles \ {"put"} : Holding(p, t)' = Holding(p, t)
  BY <1>1, <1>6, <1>8 DEF Holding, Roles
<1>10. Typed(p)'
  BY <1>0, <1>1, <1>2, <1>5, <1>6, <1>8 DEF Typed, Inums
<1>11. Called(p)'
  BY <1>0, <1>1, <1>6, <1>7 DEF Called, Path
<1>12. Seen(p)'
  BY <1>0, <1>1, <1>5, <1>6, <1>8 DEF Seen, IsDir, Name
<1>13. Fresh(p)' /\ Last(p)'
  BY <1>4, <1>5, <1>6 DEF Fresh, Last
<1> QED BY <1>2, <1>3, <1>5, <1>6, <1>7, <1>8, <1>9, <1>10, <1>11, <1>12, <1>13 DEF Local

(* iput drops the reference.                                               *)
LEMMA iputDropKeeps ==
  ASSUME FiniteFacts, FsInv, NEW p \in Procs, iputDrop(p)
  PROVE  FsInv'
<1>e. PICK e : e = put[p]
  OBVIOUS
<1>1. /\ pc[p] = "iputDrop" /\ pc[p] \in InPut /\ pc[p] # "createNew" /\ pc[p] # "iputFree"
      /\ ref' = [ref EXCEPT ![e] = @ - 1]
      /\ valid' = (IF ref[e] = 1 THEN [valid EXCEPT ![e] = FALSE] ELSE valid)
      /\ Goto(p, Head(ret[p])) /\ ret' = [ret EXCEPT ![p] = Tail(@)] /\ put' = Set(put, p, NONE)
      /\ crossed' = (IF \E q \in Procs \ {p} : put[q] = e THEN crossed \cup {e} ELSE crossed)
      /\ disk' = disk /\ lock' = lock /\ dtype' = dtype /\ nlink' = nlink /\ ent' = ent
      /\ cwd' = cwd /\ file' = file /\ bad' = bad
      /\ call' = call /\ path' = path /\ cur' = cur /\ ip' = ip /\ next' = next
      /\ UNCHANGED <<disk, cwd, file, bad, regs>>
  BY <1>e DEF iputDrop, At, InPut, disk, regs
<1>2. /\ Frame(p) /\ Where(p)' = Where(p) /\ (Linking(p)' <=> Linking(p))
      /\ (Counted(p)' <=> Counted(p)) /\ pc'[p] = Where(p) /\ pc'[p] \notin InPut
      /\ put'[p] = NONE /\ Local(p)'
      /\ DOMAIN pc' = Procs /\ DOMAIN ret' = Procs /\ DOMAIN put' = Procs
      /\ \A t \in Roles \ {"put"} : Holding(p, t)' = Holding(p, t)
  BY <1>1, iputReturns
<1>3. /\ e \in Inums /\ Holding(p, "put") = e /\ held[<<p, "put">>] = e /\ CacheOK
      /\ <<p, "put">> \in Procs \X Roles /\ ref[e] \in Nat \ {0}
      /\ ref[e] = 1 <=> \A h \in Procs \X Roles : held[h] = e => h = <<p, "put">>
  BY <1>1, <1>e, InFacts
<1>4. /\ pc'[p] # "iputDrop" /\ pc'[p] # "iputFree" /\ Holding(p, "put")' = NONE
  BY <1>2 DEF InPut, Holding
<1>5. Uses(p)' = Uses(p)
  <2>1. \A r \in Roles : ~Dropping(p, r)' /\ (Dropping(p, r) <=> r = "put")
    BY <1>1, <1>4 DEF Dropping
  <2>2. ASSUME NEW i \in Inums PROVE i \in Uses(p)' <=> i \in Uses(p)
    <3>1. i # NONE
      BY Consts
    <3>2. i \in Uses(p)' <=> \E r \in Roles : Holding(p, r)' = i
      BY <2>1 DEF Uses, Inums
    <3>3. i \in Uses(p) <=> \E r \in Roles \ {"put"} : Holding(p, r) = i
      BY <2>1 DEF Uses
    <3> QED BY <1>2, <1>4, <3>1, <3>2, <3>3
  <2>3. Uses(p) \subseteq Inums /\ Uses(p)' \subseteq Inums
    BY DEF Uses, Inums
  <2> QED BY <2>2, <2>3
<1>6. /\ held'[<<p, "put">>] = NONE
      /\ \A h \in Procs \X Roles : h # <<p, "put">> => held'[h] = held[h]
  <2>1. held'[<<p, "put">>] = NONE
    BY <1>3, <1>4 DEF held
  <2>2. \A h \in Procs \X Roles : h[1] = p /\ h[2] # "put" => held'[h] = held[h]
    BY <1>2 DEF held
  <2>3. \A h \in Procs \X Roles : h # <<p, "put">> => h[1] # p \/ h[2] # "put"
    BY HeldFacts
  <2> QED BY <1>2, <2>1, <2>2, <2>3, HeldOthers
<1>7. Count(held, e) = Count(held', e) + 1 /\ Count(held', e) \in Nat
  <2>1. Count(held, e) = Count(held', e) + 1
    <3> DEFINE x == <<p, "put">>
    <3>1. x \in Procs \X Roles /\ held[x] = e /\ held'[x] # e /\ SameBut(held, held', x)
      BY <1>3, <1>6, Consts DEF SameBut
    <3> HIDE DEF x
    <3> QED BY <3>1, CountLoses, SMT
  <2>2. Count(held', e) \in Nat
    <3>1. IsFiniteSet({h \in Procs \X Roles : held'[h] = e})
      BY FinSets, FinSubset
    <3> QED BY <3>1, FinCard DEF Count
  <2> QED BY <2>1, <2>2
<1>8. \A i \in Inums \ {e} : Count(held', i) = Count(held, i)
  <2>1. \A i \in Inums \ {e} : \A h \in Procs \X Roles : held[h] = i <=> held'[h] = i
    BY <1>3, <1>6, Consts
  <2> QED BY <2>1, CountSame, SMT
<1>9. RefsExact' /\ (ref[e] = 1 => \A h \in Procs \X Roles : held'[h] # e)
  <2>1. ref'[e] = ref[e] - 1 /\ \A i \in Inums \ {e} : ref'[i] = ref[i]
    BY <1>1, <1>3 DEF CacheOK
  <2>2. \A i \in Inums : ref'[i] = Count(held', i)
    BY <1>7, <1>8, <2>1, SMTT(30) DEF FsInv, RefsExact
  <2>3. ref[e] = 1 => Count(held', e) = 0
    BY <1>3, <2>1, <2>2, SMTT(30)
  <2>4. ref[e] = 1 => \A h \in Procs \X Roles : held'[h] # e
    BY <2>3, CountZero
  <2> QED BY <2>2, <2>4 DEF RefsExact, Count, Inums
<1>10. LocksExact'
  <2>1. \A i \in Inums : Locked(p, i)' <=> Locked(p, i)
    BY <1>1, <1>2, <1>4 DEF Locked
  <2> QED BY <1>1, <1>2, <2>1, LocksStay
<1>11. DiskType'
  <2>1. valid' \in [Inums -> BOOLEAN] /\ ref' \in [Inums -> Nat]
    BY <1>1, <1>3, SMTT(30) DEF CacheOK
  <2>2. CacheOK'
    BY <1>1, <1>2, <1>3, <2>1 DEF CacheOK, Inums
  <2> QED BY <1>1, <2>2 DEF FsInv, DiskType, DiskOK, Inums
<1>12. LinksOwed' /\ Tree'
  BY <1>1, <1>2, LinksKept
<1>13. \A i \in Inums : (i # e \/ ref[e] # 1 => valid'[i] = valid[i]) /\ (valid'[i] => valid[i])
  BY <1>1, <1>3 DEF CacheOK
<1>14. Cached'
  <2>1. ASSUME lock[e] # NONE, ref[e] = 1 PROVE FALSE
    <3>1. PICK q \in Procs : lock[e] = q
      BY <1>3, <2>1 DEF CacheOK
    <3>2. e \in Uses(q)
      BY <1>3, <3>1, LockUses DEF FsInv, LocksExact, Local
    <3>3. PICK r \in Roles : Holding(q, r) = e /\ ~Dropping(q, r)
      BY <3>2 DEF Uses
    <3>4. <<q, r>> = <<p, "put">>
      <4>1. <<q, r>> \in Procs \X Roles /\ held[<<q, r>>] = e
        BY <3>3, HeldFacts
      <4> QED BY <1>3, <2>1, <4>1
    <3>5. q = p /\ r = "put"
      BY <3>4
    <3> QED BY <1>1, <3>3, <3>5 DEF Dropping
  <2> QED BY <1>1, <1>13, <2>1 DEF FsInv, Cached, Allocated, Inums
<1>15. Touch(p) /\ NewUses(p) /\ \A i \in Uses(p)' : dtype'[i] # "free"
  BY <1>1, <1>5 DEF Touch, NewUses, FsInv, UsedLive, Allocated
<1>16. ASSUME NEW i \in Inums, Allocated(i), nlink[i] = 0
       PROVE  \/ i \in crossed' \/ (\E q \in Procs : i \in Uses(q)')
              \/ \E q \in Procs : \E o \in Procs \ {q} : put'[q] = i /\ put'[o] = i
  <2>1. i \in crossed => i \in crossed'
    BY <1>1
  <2>2. ASSUME NEW q \in Procs, i \in Uses(q) PROVE i \in Uses(q)'
    BY <1>2, <1>5, <2>2, FrameFacts
  <2>3. ASSUME NEW q \in Procs \ {p}, put[q] = i, i = e PROVE i \in crossed'
    BY <1>1, <2>3
  <2>4. ASSUME NEW q \in Procs, NEW o \in Procs \ {q}, put[q] = i, put[o] = i
        PROVE  \/ i \in crossed' \/ (put'[q] = i /\ put'[o] = i)
    <3>1. CASE q = p \/ o = p
      <4>1. i = e
        BY <1>e, <2>4, <3>1
      <4>2. CASE q = p
        BY <2>3, <2>4, <4>1, <4>2
      <4>3. CASE o = p
        BY <2>3, <2>4, <4>1, <4>3
      <4> QED BY <3>1, <4>2, <4>3
    <3>2. CASE q # p /\ o # p
      BY <1>2, <2>4, <3>2 DEF Frame
    <3> QED BY <3>1, <3>2
  <2> QED BY <1>16, <2>1, <2>2, <2>4, OwedFree
<1>17. ASSUME NEW i \in Inums, Allocated(i), nlink[i] = 0
       PROVE  \/ valid'[i] \/ (\E q \in Procs : pc'[q] = "createNew" /\ ip'[q] = i)
              \/ \A h \in Procs \X Roles : held'[h] # i
  <2>1. CASE \A h \in Procs \X Roles : held[h] # i
    <3>1. i # NONE
      BY Consts
    <3> QED BY <1>6, <2>1, <3>1
  <2>2. ASSUME NEW q \in Procs, pc[q] = "createNew", ip[q] = i
        PROVE  pc'[q] = "createNew" /\ ip'[q] = i
    BY <1>1, <1>2, <2>2 DEF Frame
  <2>3. CASE valid[i]
    BY <1>9, <1>13, <2>3
  <2> QED BY <1>17, <2>1, <2>2, <2>3, OwedFree
<1>18. ToBeFreed'
  BY <1>1, <1>16, <1>17 DEF ToBeFreed, Allocated, Inums
<1> QED BY <1>2, <1>9, <1>10, <1>11, <1>12, <1>14, <1>15, <1>18, Assemble
==============================================================================
