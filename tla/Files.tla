------------------------------- MODULE Files --------------------------------
(***************************************************************************)
(* Open files, the inode cache and the directory tree: file.c, the inode   *)
(* and directory layers of fs.c and the system calls of sysfile.c.         *)
(*                                                                         *)
(* A step is a piece of code between two points where a process may wait   *)
(* for, or release, an inode's sleep lock; icache.lock and ftable.lock are *)
(* only held inside a step.  A process keeps its reference to an inode in  *)
(* cur, ip or put, one place at a time.  The cached copy of an inode is    *)
(* written through under its lock, so one copy stands for both.  begin_op  *)
(* and end_op (module Log) make what follows atomic for crashes.           *)
(***************************************************************************)
EXTENDS Integers, Sequences, FiniteSets

CONSTANTS
  Procs,
  Nobody,     \* an inode's lock is free
  NInodes,    \* inodes on disk, number 1 is the root directory
  Names,
  Calls,      \* the calls made: operation, path, new path of link, absolute paths or not
  Blocks,     \* data blocks 1..n of the disk
  MaxFile,    \* bound: blocks of a file
  MaxLinks,   \* bound: links of a file when sys_link counts one more
  NFILE,      \* entries of the file table
  NOFILE      \* descriptors per process

ASSUME FilesAssumption ==
  /\ Nobody \notin Procs /\ IsFiniteSet(Procs) /\ IsFiniteSet(Names)
  /\ NInodes \in Nat \ {0}
  /\ \A c \in Calls :
       /\ c.abs \in BOOLEAN
       /\ c.op \in {"open", "openw", "create", "mkdir", "mknod", "chdir", "unlink", "link"}
       /\ {c.path, c.new} \subseteq Seq(Names)
       /\ c.op \in {"create", "mkdir", "mknod", "unlink"} => c.path # <<>>
       /\ c.op = "link" => c.new # <<>>
  /\ Blocks \subseteq Nat
  /\ MaxFile \in Nat /\ MaxLinks \in Nat /\ NFILE \in Nat /\ NOFILE \in Nat

Inodes == 1 .. NInodes
None == 0     \* no inode, no file
Root == 1     \* ROOTINO
FileIds == 1 .. NFILE
Fds == 1 .. NOFILE

VARIABLES
  type,       \* dip->type: "free", "dir", "file" or "dev"
  nlink,      \* dip->nlink
  entry,      \* the directory entries, other than "." and ".."
  addrs,      \* the data blocks of an inode
  bitmap,     \* the blocks marked in use
  dropped,    \* history: names of an inode lost with the directory they were in
  ref,        \* ip->ref
  valid,      \* referenced inodes with ip->valid
  lock,       \* ip->lock
  file,       \* ftable.file: reference count and inode
  ofile,      \* p->ofile
  cwd,        \* p->cwd
  call,       \* the system call a process is in
  path,       \* what namex has left of its path
  cur,        \* ip of namex; afterwards the caller's dp
  ip,         \* the caller's ip
  put,        \* ip of iput
  ret,        \* where iput returns to
  pc

dinodes == <<type, nlink, entry, addrs, bitmap, dropped>>
icache == <<ref, valid, lock>>
files == <<file, ofile, cwd>>
locals == <<call, path, cur, ip, put, ret, pc>>
vars == <<dinodes, icache, files, locals>>

NoEntries == [n \in Names |-> None]
NoCall == [op |-> "none", new |-> <<>>, abs |-> TRUE]

Init ==
  /\ type = [i \in Inodes |-> IF i = Root THEN "dir" ELSE "free"]
  /\ nlink = [i \in Inodes |-> IF i = Root THEN 1 ELSE 0]
  /\ entry = [i \in Inodes |-> NoEntries]
  /\ addrs = [i \in Inodes |-> {}]
  /\ bitmap = {}
  /\ dropped = [i \in Inodes |-> 0]
  /\ ref = [i \in Inodes |-> IF i = Root THEN Cardinality(Procs) ELSE 0]
  /\ valid = {}
  /\ lock = [i \in Inodes |-> Nobody]
  /\ file = [f \in FileIds |-> [ref |-> 0, ip |-> None]]
  /\ ofile = [p \in Procs |-> [d \in Fds |-> None]]
  /\ cwd = [p \in Procs |-> Root]
  /\ call = [p \in Procs |-> NoCall]
  /\ path = [p \in Procs |-> <<>>]
  /\ cur = [p \in Procs |-> None]
  /\ ip = [p \in Procs |-> None]
  /\ put = [p \in Procs |-> None]
  /\ ret = [p \in Procs |-> "idle"]
  /\ pc = [p \in Procs |-> "idle"]

Set(f, x, v) == [f EXCEPT ![x] = v]
Goto(p, label) == pc' = Set(pc, p, label)
Add(f, x, d) == [f EXCEPT ![x] = @ + d]
Least(S) == CHOOSE x \in S : \A y \in S : x <= y
At(p, label) == pc[p] = label
In(p, ops) == call[p].op \in ops

\* The arguments of the call are not needed any more.
Forget(p) ==
  /\ call' = Set(call, p, NoCall)
  /\ path' = Set(path, p, <<>>)

(***************************************************************************)
(* iget: one more reference to inode i.  A slot that had none is recycled  *)
(* and has to be read again, so only referenced inodes are in valid.       *)
(***************************************************************************)
Iget(i) == Add(ref, i, 1)

\* ilock waits for this; it may then run to the matching iunlock in one step.
Unlocked(i) == lock[i] = Nobody

(***************************************************************************)
(* iput(i), to be followed by the code at label.                           *)
(***************************************************************************)
IputThen(p, i, label) ==
  /\ put' = Set(put, p, i)
  /\ ret' = Set(ret, p, label)
  /\ Goto(p, "iput")

\* The same, at the last use of the call's arguments.
Iput(p, i, label) ==
  /\ IputThen(p, i, label)
  /\ Forget(p)


\* The last reference to an inode without links frees it.
LastPut(i) == i \in valid /\ nlink[i] = 0 /\ ref[i] = 1

IputLock(p) ==
  /\ At(p, "iput")
  /\ Unlocked(put[p])
  /\ IF LastPut(put[p])
     THEN lock' = Set(lock, put[p], p) /\ Goto(p, "iput_free")
     ELSE UNCHANGED lock /\ Goto(p, "iput_drop")
  /\ UNCHANGED <<dinodes, ref, valid, files, call, path, cur, ip, put, ret>>


\* itrunc gives the blocks back with bfree, a bitmap without them.
Bfree(bs) == bitmap \ bs

Truncate(i) ==
  /\ bitmap' = Bfree(addrs[i])
  /\ addrs' = Set(addrs, i, {})
  /\ entry' = Set(entry, i, NoEntries)
  /\ dropped' = [j \in Inodes |->
                   dropped[j] + Cardinality({n \in Names : entry[i][n] = j})]

\* itrunc and iupdate: ialloc may take the inode from here on.
IputFree(p) ==
  /\ At(p, "iput_free")
  /\ type' = Set(type, put[p], "free")
  /\ Truncate(put[p])
  /\ Goto(p, "iput_freed")
  /\ UNCHANGED <<nlink, icache, files, call, path, cur, ip, put, ret>>

IputUnlock(p) ==
  /\ At(p, "iput_freed")
  /\ valid' = valid \ {put[p]}
  /\ lock' = Set(lock, put[p], Nobody)
  /\ Goto(p, "iput_drop")
  /\ UNCHANGED <<dinodes, ref, files, call, path, cur, ip, put, ret>>

IputDrop(p) ==
  /\ At(p, "iput_drop")
  /\ ref' = Add(ref, put[p], -1)
  /\ valid' = IF ref[put[p]] = 1 THEN valid \ {put[p]} ELSE valid
  /\ put' = Set(put, p, None)
  /\ ret' = Set(ret, p, "idle")
  /\ Goto(p, ret[p])
  /\ UNCHANGED <<dinodes, lock, files, call, path, cur, ip>>

-----------------------------------------------------------------------------
(***************************************************************************)
(* namex, one path element a step.  The parent directory is wanted by      *)
(* every call but open, chdir and the first walk of link.                  *)
(***************************************************************************)
WantsParent(p) == In(p, {"create", "mkdir", "mknod", "unlink", "link2"})

\* A path that starts with "/" is walked from the root, others from p->cwd.
Walk(p, op, from, to, abs) ==
  LET start == IF abs THEN Root ELSE cwd[p] IN
  /\ call' = Set(call, p, [op |-> op, new |-> to, abs |-> abs])
  /\ path' = Set(path, p, from)
  /\ cur' = Set(cur, p, start)
  /\ ref' = Iget(start)
  /\ Goto(p, IF from = <<>> THEN "got" ELSE "namex")

NamexFailed(p) == IF In(p, {"link2"}) THEN "link_bad" ELSE "idle"

Namex(p) ==
  LET d == cur[p]
      n == Head(path[p])
      last == Len(path[p]) = 1
  IN
  /\ At(p, "namex")
  /\ Unlocked(d)
  /\ \/ /\ type[d] = "dir" /\ last /\ WantsParent(p)
        /\ valid' = valid \union {d}
        /\ Goto(p, "got")
        /\ UNCHANGED <<ref, call, path, cur, put, ret>>
     \/ /\ type[d] = "dir" /\ ~(last /\ WantsParent(p))
        /\ entry[d][n] # None
        /\ ref' = Iget(entry[d][n])
        /\ valid' = valid \union {d}
        /\ cur' = Set(cur, p, entry[d][n])
        /\ path' = Set(path, p, Tail(path[p]))
        /\ IputThen(p, d, IF last THEN "got" ELSE "namex")
        /\ UNCHANGED call
     \/ /\ type[d] # "dir" \/ (~(last /\ WantsParent(p)) /\ entry[d][n] = None)
        /\ valid' = valid \union {d}
        /\ cur' = Set(cur, p, None)
        /\ Iput(p, d, NamexFailed(p))
        /\ UNCHANGED ref
  /\ UNCHANGED <<dinodes, lock, files, ip>>

\* The calls that name a path start by walking it.
Begin(p) ==
  /\ At(p, "idle")
  /\ \E c \in Calls : Walk(p, c.op, c.path, c.new, c.abs)
  /\ UNCHANGED <<dinodes, valid, lock, files, ip, put, ret>>

-----------------------------------------------------------------------------
(***************************************************************************)
(* sys_open, with O_RDONLY or ("openw") with another mode, which a          *)
(* directory refuses.                                                      *)
(***************************************************************************)
OpenLock(p) ==
  /\ At(p, "got") /\ In(p, {"open", "openw"})
  /\ Unlocked(cur[p])
  /\ valid' = valid \union {cur[p]}
  /\ cur' = Set(cur, p, None)
  /\ \/ /\ In(p, {"openw"}) => type[cur[p]] # "dir"
        /\ lock' = Set(lock, cur[p], p)
        /\ ip' = Set(ip, p, cur[p])
        /\ Goto(p, "open")
        /\ Forget(p)
        /\ UNCHANGED <<put, ret>>
     \/ /\ In(p, {"openw"}) /\ type[cur[p]] = "dir"
        /\ Iput(p, cur[p], "idle")
        /\ UNCHANGED <<lock, ip>>
  /\ UNCHANGED <<dinodes, ref, files>>

FreeFiles == {f \in FileIds : file[f].ref = 0}
FreeFds(p) == {d \in Fds : ofile[p][d] = None}

\* filealloc and fdalloc; the reference to the inode moves to the file.
OpenAlloc(p) ==
  /\ At(p, "open")
  /\ lock' = Set(lock, ip[p], Nobody)
  /\ ip' = Set(ip, p, None)
  /\ IF FreeFiles # {} /\ FreeFds(p) # {}
     THEN /\ file' = Set(file, Least(FreeFiles), [ref |-> 1, ip |-> ip[p]])
          /\ ofile' = [ofile EXCEPT ![p][Least(FreeFds(p))] = Least(FreeFiles)]
          /\ Goto(p, "idle")
          /\ UNCHANGED <<call, path, put, ret>>
     ELSE Iput(p, ip[p], "idle") /\ UNCHANGED <<file, ofile>>
  /\ UNCHANGED <<dinodes, ref, valid, cwd, cur>>

(***************************************************************************)
(* create, for O_CREATE, sys_mkdir and sys_mknod.                          *)
(***************************************************************************)
TypeOf(op) == CASE op = "mkdir" -> "dir" [] op = "mknod" -> "dev" [] OTHER -> "file"

FreeInodes == {i \in Inodes : type[i] = "free"}

CreateFound(p) ==
  LET i == entry[cur[p]][path[p][1]] IN
  /\ At(p, "got") /\ In(p, {"create", "mkdir", "mknod"})
  /\ Unlocked(cur[p])
  /\ i # None
  /\ ref' = Iget(i)
  /\ valid' = valid \union {cur[p]}
  /\ ip' = Set(ip, p, i)
  /\ cur' = Set(cur, p, None)
  /\ Iput(p, cur[p], IF In(p, {"create"}) THEN "create_found" ELSE "mkdir_found")
  /\ UNCHANGED <<dinodes, lock, files>>

CreateExists(p) ==
  /\ pc[p] \in {"create_found", "mkdir_found"}
  /\ Unlocked(ip[p])
  /\ valid' = valid \union {ip[p]}
  /\ IF At(p, "create_found") /\ type[ip[p]] = "file"
     THEN /\ lock' = Set(lock, ip[p], p)
          /\ Goto(p, "open")
          /\ UNCHANGED <<call, path, ip, put, ret>>
     ELSE /\ ip' = Set(ip, p, None)
          /\ Iput(p, ip[p], "idle")
          /\ UNCHANGED lock
  /\ UNCHANGED <<dinodes, ref, files, cur>>

\* ialloc takes the first free inode; that one exists bounds the model.
CreateIalloc(p) ==
  /\ At(p, "got") /\ In(p, {"create", "mkdir", "mknod"})
  /\ Unlocked(cur[p])
  /\ entry[cur[p]][path[p][1]] = None
  /\ FreeInodes # {}
  /\ LET i == Least(FreeInodes) IN
       /\ type' = Set(type, i, TypeOf(call[p].op))
       /\ nlink' = Set(nlink, i, 0)
       /\ dropped' = Set(dropped, i, 0)
       /\ ref' = Iget(i)
       /\ valid' = valid \union {cur[p]}
       /\ ip' = Set(ip, p, i)
  /\ lock' = Set(lock, cur[p], p)
  /\ Goto(p, "create_new")
  /\ UNCHANGED <<entry, addrs, bitmap, files, call, path, cur, put, ret>>

\* The new inode, its link and, for a directory, the link of its "..".
CreateLink(p) ==
  LET d == cur[p]
      i == ip[p]
  IN
  /\ At(p, "create_new")
  /\ Unlocked(i)
  /\ valid' = valid \union {i}
  /\ nlink' = [nlink EXCEPT ![i] = 1,
                            ![d] = IF type[i] = "dir" THEN @ + 1 ELSE @]
  /\ entry' = [entry EXCEPT ![d][path[p][1]] = i]
  /\ lock' = [lock EXCEPT ![i] = p, ![d] = Nobody]
  /\ cur' = Set(cur, p, None)
  /\ Iput(p, d, IF In(p, {"create"}) THEN "open" ELSE "mkdir")
  /\ UNCHANGED <<type, addrs, bitmap, dropped, ref, files, ip>>

\* sys_mkdir and sys_mknod: iunlockput(ip).
Mkdir(p) ==
  /\ At(p, "mkdir")
  /\ lock' = Set(lock, ip[p], Nobody)
  /\ ip' = Set(ip, p, None)
  /\ Iput(p, ip[p], "idle")
  /\ UNCHANGED <<dinodes, ref, valid, files, cur>>

(***************************************************************************)
(* sys_chdir.  Only p reads p->cwd, so that it may change before the iput. *)
(***************************************************************************)
Chdir(p) ==
  LET i == cur[p] IN
  /\ At(p, "got") /\ In(p, {"chdir"})
  /\ Unlocked(i)
  /\ valid' = valid \union {i}
  /\ cur' = Set(cur, p, None)
  /\ \/ /\ type[i] # "dir"
        /\ Iput(p, i, "idle")
        /\ UNCHANGED cwd
     \/ /\ type[i] = "dir"
        /\ cwd' = Set(cwd, p, i)
        /\ Iput(p, cwd[p], "idle")
  /\ UNCHANGED <<dinodes, ref, lock, file, ofile, ip>>

-----------------------------------------------------------------------------
(***************************************************************************)
(* sys_unlink, which locks the directory and then the inode.               *)
(***************************************************************************)
UnlinkLookup(p) ==
  LET d == cur[p]
      i == entry[d][path[p][1]]
  IN
  /\ At(p, "got") /\ In(p, {"unlink"})
  /\ Unlocked(d)
  /\ \/ /\ i # None
        /\ ref' = Iget(i)
        /\ valid' = valid \union {d}
        /\ ip' = Set(ip, p, i)
        /\ lock' = Set(lock, d, p)
        /\ Goto(p, "unlink_ilock")
        /\ UNCHANGED <<call, path, cur, put, ret>>
     \/ /\ i = None
        /\ valid' = valid \union {d}
        /\ cur' = Set(cur, p, None)
        /\ Iput(p, d, "idle")
        /\ UNCHANGED <<ref, ip, lock>>
  /\ UNCHANGED <<dinodes, files>>

UnlinkEntry(p) ==
  LET d == cur[p]
      i == ip[p]
  IN
  /\ At(p, "unlink_ilock")
  /\ Unlocked(i)
  /\ valid' = valid \union {i}
  /\ \/ /\ type[i] = "dir" /\ entry[i] # NoEntries
        /\ ip' = Set(ip, p, None)
        /\ Iput(p, i, "unlink_bad")
        /\ UNCHANGED <<nlink, entry, lock, cur>>
     \/ /\ type[i] = "dir" => entry[i] = NoEntries
        /\ entry' = [entry EXCEPT ![d][path[p][1]] = None]
        /\ nlink' = IF type[i] = "dir" THEN Add(nlink, d, -1) ELSE nlink
        /\ lock' = [lock EXCEPT ![i] = p, ![d] = Nobody]
        /\ cur' = Set(cur, p, None)
        /\ Iput(p, d, "unlink_nlink")
        /\ UNCHANGED ip
  /\ UNCHANGED <<type, addrs, bitmap, dropped, ref, files>>

UnlinkBad(p) ==
  /\ At(p, "unlink_bad")
  /\ lock' = Set(lock, cur[p], Nobody)
  /\ cur' = Set(cur, p, None)
  /\ Iput(p, cur[p], "idle")
  /\ UNCHANGED <<dinodes, ref, valid, files, ip>>

UnlinkNlink(p) ==
  /\ At(p, "unlink_nlink")
  /\ nlink' = Add(nlink, ip[p], -1)
  /\ lock' = Set(lock, ip[p], Nobody)
  /\ ip' = Set(ip, p, None)
  /\ Iput(p, ip[p], "idle")
  /\ UNCHANGED <<type, entry, addrs, bitmap, dropped, ref, valid, files, cur>>

(***************************************************************************)
(* sys_link: count the link, then walk the new path and enter the name.    *)
(***************************************************************************)
LinkNlink(p) ==
  LET i == cur[p] IN
  /\ At(p, "got") /\ In(p, {"link"})
  /\ Unlocked(i)
  /\ \/ /\ type[i] = "dir"
        /\ valid' = valid \union {i}
        /\ cur' = Set(cur, p, None)
        /\ Iput(p, i, "idle")
        /\ UNCHANGED <<nlink, ref, ip>>
     \/ /\ type[i] # "dir"
        /\ nlink[i] < MaxLinks
        /\ nlink' = Add(nlink, i, 1)
        /\ ip' = Set(ip, p, i)
        /\ Walk(p, "link2", call[p].new, <<>>, call[p].abs)
        /\ valid' = valid \union {i}
        /\ UNCHANGED <<put, ret>>
  /\ UNCHANGED <<type, entry, addrs, bitmap, dropped, lock, files>>


\* dirlink gives back the inode it finds under the name, dp still locked.
LinkEntry(p) ==
  LET d == cur[p]
      i == entry[d][path[p][1]]
  IN
  /\ At(p, "got") /\ In(p, {"link2"})
  /\ Unlocked(d)
  /\ \/ /\ i # None
        /\ ref' = Iget(i)
        /\ valid' = valid \union {d}
        /\ lock' = Set(lock, d, p)
        /\ Iput(p, i, "link_exists")
        /\ UNCHANGED <<entry, cur>>
     \/ /\ i = None
        /\ entry' = [entry EXCEPT ![d][path[p][1]] = ip[p]]
        /\ valid' = valid \union {d}
        /\ cur' = Set(cur, p, None)
        /\ Iput(p, d, "link_iput")
        /\ UNCHANGED <<ref, lock>>
  /\ UNCHANGED <<type, nlink, addrs, bitmap, dropped, files, ip>>

LinkExists(p) ==
  /\ At(p, "link_exists")
  /\ lock' = Set(lock, cur[p], Nobody)
  /\ cur' = Set(cur, p, None)
  /\ Iput(p, cur[p], "link_bad")
  /\ UNCHANGED <<dinodes, ref, valid, files, ip>>

LinkIput(p) ==
  /\ At(p, "link_iput")
  /\ ip' = Set(ip, p, None)
  /\ Iput(p, ip[p], "idle")
  /\ UNCHANGED <<dinodes, icache, files, cur>>

\* Mutant of LinkBad: the link stays counted.
LinkBadKept(p) ==
  /\ At(p, "link_bad")
  /\ Unlocked(ip[p])
  /\ ip' = Set(ip, p, None)
  /\ Iput(p, ip[p], "idle")
  /\ UNCHANGED <<dinodes, icache, files, cur>>

LinkBad(p) ==
  /\ At(p, "link_bad")
  /\ Unlocked(ip[p])
  /\ nlink' = Add(nlink, ip[p], -1)
  /\ valid' = valid \union {ip[p]}
  /\ ip' = Set(ip, p, None)
  /\ Iput(p, ip[p], "idle")
  /\ UNCHANGED <<type, entry, addrs, bitmap, dropped, ref, lock, files, cur>>

-----------------------------------------------------------------------------
(***************************************************************************)
(* The calls on descriptors.                                               *)
(***************************************************************************)
Held(p, d) == ofile[p][d] # None

Close(p) ==
  /\ At(p, "idle")
  /\ \E d \in {e \in Fds : Held(p, e)} :
       LET f == ofile[p][d] IN
       /\ ofile' = [ofile EXCEPT ![p][d] = None]
       /\ IF file[f].ref > 1
          THEN file' = [file EXCEPT ![f].ref = @ - 1] /\ UNCHANGED locals
          ELSE /\ file' = Set(file, f, [ref |-> 0, ip |-> None])
               /\ Iput(p, file[f].ip, "idle")
               /\ UNCHANGED <<cur, ip>>
  /\ UNCHANGED <<dinodes, icache, cwd>>

(***************************************************************************)
(* filedup, by sys_dup or by fork for a child q, which starts with none.   *)
(* (A child with fewer descriptors than its parent has closed the others.) *)
(***************************************************************************)
FileDup(p) ==
  /\ At(p, "idle")
  /\ \E d \in {e \in Fds : Held(p, e)}, q \in Procs :
       /\ At(q, "idle")
       /\ FreeFds(q) # {} /\ (q # p => FreeFds(q) = Fds)
       /\ ofile' = [ofile EXCEPT ![q][Least(FreeFds(q))] = ofile[p][d]]
       /\ file' = [file EXCEPT ![ofile[p][d]].ref = @ + 1]
  /\ UNCHANGED <<dinodes, icache, cwd, locals>>

Balloc == Least(Blocks \ bitmap)

\* bmap, for a block that the inode does not have yet.
Bmap(i) ==
  /\ addrs' = Set(addrs, i, addrs[i] \union {Balloc})
  /\ bitmap' = bitmap \union {Balloc}

\* writei at the end of a file.  A full disk panics, which bounds the model.
Writei(i) ==
  /\ Cardinality(addrs[i]) < MaxFile
  /\ Blocks \ bitmap # {}
  /\ Bmap(i)

FileWrite(p) ==
  /\ At(p, "idle")
  /\ \E d \in {e \in Fds : Held(p, e)} :
       LET i == file[ofile[p][d]].ip IN
       /\ Unlocked(i)
       /\ type[i] = "file"
       /\ Writei(i)
       /\ valid' = valid \union {i}
  /\ UNCHANGED <<type, nlink, entry, dropped, ref, lock, files, locals>>

Step(p) ==
  \/ Begin(p) \/ Namex(p)
  \/ IputLock(p) \/ IputFree(p) \/ IputUnlock(p) \/ IputDrop(p)
  \/ OpenLock(p) \/ OpenAlloc(p)
  \/ CreateFound(p) \/ CreateExists(p) \/ CreateIalloc(p) \/ CreateLink(p)
  \/ Mkdir(p) \/ Chdir(p)
  \/ UnlinkLookup(p) \/ UnlinkEntry(p) \/ UnlinkBad(p) \/ UnlinkNlink(p)
  \/ LinkNlink(p) \/ LinkEntry(p) \/ LinkExists(p) \/ LinkIput(p) \/ LinkBad(p)
  \/ Close(p) \/ FileDup(p) \/ FileWrite(p)

Next == \E p \in Procs : Step(p)

Spec == Init /\ [][Next]_vars

-----------------------------------------------------------------------------
(* Properties                                                              *)

\* How many references to inode i the open files and the processes hold.
Pointers(i) ==
  Cardinality({f \in FileIds : file[f].ip = i})
  + Cardinality({p \in Procs : cwd[p] = i})
  + Cardinality({p \in Procs : cur[p] = i})
  + Cardinality({p \in Procs : ip[p] = i})
  + Cardinality({p \in Procs : put[p] = i})

Descriptors(f) == Cardinality({x \in Procs \X Fds : ofile[x[1]][x[2]] = f})



\* The directory slots that count as a link of i: the entries that name it and
\* those of its own whose inode has a ".." that names it.
LinkSlots(i) ==
  {x \in Inodes \X Names :
     LET j == entry[x[1]][x[2]] IN
     j = i \/ (x[1] = i /\ j # None /\ type[j] = "dir")}

\* The calls whose link of i is counted but not entered, or not yet uncounted.
LinkCalls(i) ==
  {p \in Procs :
     /\ ip[p] = i
     /\ \/ call[p].op = "link2"
        \/ {pc[p], ret[p]} \intersect {"link_exists", "link_bad", "unlink_nlink"} # {}}

Links(i) ==
  Cardinality(LinkSlots(i)) + (IF i = Root THEN 1 ELSE 0) + Cardinality(LinkCalls(i))

(***************************************************************************)
(* nlink is the number of directory entries that name the inode (and, for  *)
(* a directory, the ".." of its children), but for the calls under way and *)
(* for names entered in a directory that was removed at the same time,     *)
(* which are lost when iput truncates it.  In particular a failed sys_link *)
(* takes back what it counted, and no name is left without its link.       *)
(***************************************************************************)
LinksCounted ==
  \A i \in Inodes : type[i] # "free" => nlink[i] = Links(i) + dropped[i]


(***************************************************************************)
(* iput "frees if the reference and link counts have fallen to zero"       *)
(* (fs.c:119-120).  This does not hold: two calls of iput that each see a  *)
(* name or the reference of the other leave an inode allocated that        *)
(* nothing names and nothing points to (fs.c:337), and so do names lost    *)
(* with their directory.                                                   *)
(***************************************************************************)
NoLostInode ==
  \A i \in Inodes \ {Root} :
    type[i] # "free" /\ ref[i] = 0 => \E d \in Inodes, n \in Names : entry[d][n] = i

\* p waits in ilock, or in iput, for the lock of inode i.
WaitsFor(p, i) ==
  /\ lock[i] # Nobody
  /\ \/ At(p, "iput") /\ put[p] = i
     \/ At(p, "namex") /\ cur[p] = i
     \/ At(p, "got") /\ cur[p] = i
     \/ pc[p] \in {"create_found", "mkdir_found", "create_new", "unlink_ilock", "link_bad"}
        /\ ip[p] = i

(***************************************************************************)
(* The inode locks "avoid deadlock and races during pathname lookup": no   *)
(* two processes wait for the lock the other one holds.                    *)
(***************************************************************************)
NoLockCycle ==
  \A i, j \in Inodes :
    lock[i] # Nobody /\ lock[j] # Nobody
      => ~(WaitsFor(lock[i], j) /\ WaitsFor(lock[j], i))
=============================================================================
