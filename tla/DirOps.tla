------------------------------- MODULE DirOps -------------------------------
(***************************************************************************)
(* The commands that change the remote tree: create_folder, run_delete,    *)
(* run_move, run_rename, run_calculate_size and, with the bytes of the     *)
(* file left to Upload, run_upload (src/src/worker.rs), each a task that   *)
(* works on the backend and then on the buffered manifests, and that       *)
(* dispatch runs a second time when it fails.                              *)
(*                                                                         *)
(* A step is one request to the server, one update of what the backend     *)
(* object knows, or one call of the manifest store.  A load, an edit and a *)
(* flush are atomic here; ManifestStore has their steps.  The copies of    *)
(* one rename are one step, which may fail after any of them, and so is    *)
(* the removal of the files of a folder.                                   *)
(***************************************************************************)
EXTENDS RemoteTree

CONSTANTS Kinds,        \* backends: "s3", "sftp", "smb", "nfs"
          Modes,        \* sessions: TRUE with end-to-end encryption, FALSE without
          FolderNames, FileNames,
          OldFolder,    \* the folder that is there at the start
          DirNames,     \* bound: the directories there may be, as paths of names
          Rels,         \* relative paths of the files an upload brings
          Tasks,
          MaxItems,     \* bound: entries selected for one delete or move
          MaxCommands,  \* bound: commands of the user
          MaxAlone,     \* bound: commands where one task runs them all and nothing fails
          MaxFaults     \* bound: requests that fail, and ends of the program

ASSUME DirOpsAssumption ==
    /\ Kinds \subseteq {"s3", "sftp", "smb", "nfs"} /\ Modes \subseteq BOOLEAN
    /\ OldFolder \subseteq FolderNames /\ \A d \in OldFolder : <<d>> \in DirNames
    /\ <<>> \in DirNames /\ DirNames \subseteq Seq(FolderNames)
    /\ \A d \in DirNames : \A n \in 0 .. Len(d) : SubSeq(d, 1, n) \in DirNames
    /\ \A r \in Rels : /\ r \in Seq(FolderNames \cup FileNames) /\ Len(r) > 0
                       /\ \A n \in 1 .. Len(r) : r[n] \in FileNames <=> n = Len(r)
    /\ FolderNames \cap FileNames = {} /\ ".rse" \notin FolderNames \cup FileNames
    /\ {MaxItems, MaxCommands, MaxAlone, MaxFaults} \subseteq Nat

VARIABLES e2ee,      \* the session has keys
          tree,      \* the remote tree
          buf,       \* ManifestStore: directory -> its manifest and the one last written
          job,       \* the task of a command
          call,      \* where it is in the loops of prepare_parents and delete
          contents,  \* contents uploaded so far
          commands, faults,
          \* history:
          acked,     \* contents whose upload succeeded
          gone,      \* contents the user deleted or put something else in the place of
          strayed,   \* contents put into a folder that was being renamed or moved away
          parted,    \* a folder went to another prefix, and a buffered manifest did not
          muddled    \* names may be missing: see where it is set

tasks == <<job, call, contents, commands>>
history == <<acked, gone, strayed, parted, muddled>>
vars == <<e2ee, tree, buf, tasks, faults, history>>

Dirs == {on_disk_path(e2ee, d) : d \in DirNames}
Seg(n) == on_disk_segment(e2ee, n)

NoEntry == [key |-> <<>>, is_dir |-> FALSE, size |-> 0, name |-> "none", encrypted |-> FALSE]
Answered(result) == [pc |-> "idle", cmd |-> "none", all |-> {}, items |-> {}, item |-> NoEntry, dest |-> <<>>,
                     name |-> "none", rel |-> <<>>, at |-> 0, content |-> 0, to |-> <<>>, got |-> {}, taken |-> {},
                     began |-> FALSE, tried |-> FALSE, result |-> result]

\* How many directories of the way have been walked, the directories that are left to
\* remove, and what the last answer adds to the known directories and takes from them.
NoCall == [way |-> 0, left |-> {}, add |-> {}, drop |-> {}]

-----------------------------------------------------------------------------
(* ManifestStore, seen from its callers.                                     *)

manifest_object_key(dir) == Append(dir, MANIFEST_KEY)
OnBackend(dir) == IF manifest_object_key(dir) \in Keys(tree) THEN tree.obj[manifest_object_key(dir)] ELSE Default
Loaded(dir) == IF dir \in DOMAIN buf THEN buf[dir] ELSE [m |-> OnBackend(dir), written |-> OnBackend(dir)]
View(dir) == Loaded(dir).m

\* The manifest of dir that a reader sees once the tree is tr.
Shows(tr, dir) == IF dir \in DOMAIN buf THEN buf[dir].m
                  ELSE IF manifest_object_key(dir) \in Keys(tr) THEN tr.obj[manifest_object_key(dir)] ELSE Default

\* NFS finds the directory before it can miss the object.
CanLoad(dir) == dir \in DOMAIN buf \/ tree.kind # "nfs" \/ dir \in tree.dirs

load(dir) == With(buf, dir, Loaded(dir))
LoadAll(dirs) == [d \in DOMAIN buf \cup {d \in dirs : CanLoad(d)} |-> Loaded(d)]
edit(dir, m) == With(buf, dir, [Loaded(dir) EXCEPT !.m = m])

Unsaved == {d \in DOMAIN buf : buf[d].m # buf[d].written}
CanPut(dir) == tree.kind = "s3" \/ dir \in tree.dirs

\* The directories in `some` have been written.
FlushedTree(some) ==
    LET new == {manifest_object_key(d) : d \in some} IN
    [tree EXCEPT !.obj = [k \in new \cup Keys(tree) |-> IF k \in new THEN buf[parent_prefix(k)].m ELSE tree.obj[k]]]
FlushedBuf(some) == [d \in DOMAIN buf |-> IF d \in some THEN [buf[d] EXCEPT !.written = buf[d].m] ELSE buf[d]]

\* Both callers of forget pass the prefixes less their final '/', and no key of the
\* map but the root's is without one.
trim_end_matches(dir) == Append(dir, <<"without", "/">>)
forget(map, dirs) == Without(map, {trim_end_matches(d) : d \in dirs})

-----------------------------------------------------------------------------
(* What the user sees and picks from.                                        *)

Shown == {<<>>} \cup IF tree.kind = "s3"
                     THEN (UNION {Chain(parent_prefix(k)) : k \in Keys(tree)}) \cup tree.dirs
                     ELSE tree.dirs

raw_to_entry(o) == [key |-> o.key, is_dir |-> o.is_prefix, size |-> o.size, name |-> leaf_of(o.key)[2],
                    encrypted |-> FALSE]

Entries(dir) == IF e2ee THEN build_listing(list(tree, dir), View(dir))
                ELSE {raw_to_entry(o) : o \in list(tree, dir)}

\* The bounded tree has room for everything beneath `from` at `to`.
Fits(from, to) == \A d \in Dirs : Beneath(from, d) => Swapped(from, to, d) \in Dirs

\* A session with a tree that has one file in one folder.
Init == \E kind \in Kinds, enc \in Modes, d \in OldFolder, f \in FileNames :
        LET dir == on_disk_path(enc, <<d>>)
            manifests == With(With(<<>>, manifest_object_key(<<>>), upsert_folder(Default, d)),
                              manifest_object_key(dir), upsert_file(Default, f, 1))
        IN /\ e2ee = enc
           /\ tree = [kind |-> kind, dirs |-> {<<>>, dir}, known |-> {}, refused |-> {}, unheard |-> {},
                      obj |-> With(IF enc THEN manifests ELSE <<>>, Append(dir, on_disk_segment(enc, f)), 1)]
           /\ buf = <<>> /\ job = [t \in Tasks |-> Answered("none")] /\ call = [t \in Tasks |-> NoCall]
           /\ contents = 1 /\ commands = 0 /\ faults = 0
           /\ acked = {1} /\ gone = {} /\ strayed = {} /\ parted = FALSE /\ muddled = FALSE

Active(t) == job[t].pc # "idle"
Quiet == \A t \in Tasks : ~Active(t)

\* The keys that a command is about; two commands are in each other's way when
\* one of them restructures what the other one is about, or both write one file.
About(j) == CASE j.cmd = "create" -> {Append(j.dest, Seg(j.name))}
              [] j.cmd = "delete" -> {i.key : i \in j.all}
              [] j.cmd = "move"   -> {i.key : i \in j.all} \cup {Append(j.dest, leaf_of(i.key)) : i \in j.all}
              [] j.cmd = "rename" -> {j.item.key, j.to}
              [] j.cmd = "upload" -> {j.to}
              [] j.cmd = "size"   -> {j.item.key}
              [] OTHER -> {}
Restructures(j) == j.cmd \in {"delete", "move", "rename"}
Clash(j, k) == /\ Restructures(j) \/ Restructures(k) \/ {j.cmd, k.cmd} = {"upload"}
               /\ \E x \in About(j), y \in About(k) : Beneath(x, y) \/ Beneath(y, x)

\* A folder on the way to dir is listed without a name.
Nameless(dir) == \E x \in Chain(dir) : name_for(View(parent_prefix(x)), leaf_of(x)) = {}

\* A command for entries of dir, whose listing has found dir and loaded its manifest.
\* Every command gets a task of its own.
Dispatch(t, dir, j) ==
    /\ commands' = commands + 1
    /\ job' = [job EXCEPT ![t] = [j EXCEPT !.pc = "start"]] /\ call' = [call EXCEPT ![t] = NoCall]
    /\ buf' = IF e2ee THEN LoadAll({dir}) ELSE buf
    /\ muddled' = (muddled \/ (e2ee /\ Nameless(j.dest)) \/ \E u \in Tasks \ {t} : Active(u) /\ Clash(j, job[u]))
    /\ tree' = resolve_dir(tree, {dir})
    /\ UNCHANGED <<e2ee, faults, acked, gone, strayed, parted>>

NewJob(cmd) == [Answered("none") EXCEPT !.cmd = cmd]
Picked(dir) == {s \in SUBSET Entries(dir) : s # {} /\ Cardinality(s) <= MaxItems}

Create(t) == \E dir \in Shown, n \in FolderNames :
    /\ Append(dir, Seg(n)) \in Dirs
    /\ Dispatch(t, dir, [NewJob("create") EXCEPT !.dest = dir, !.name = n])
    /\ UNCHANGED contents

Delete(t) == \E dir \in Shown : \E s \in Picked(dir) :
    /\ Dispatch(t, dir, [NewJob("delete") EXCEPT !.all = s, !.items = s])
    /\ UNCHANGED contents

Move(t) == \E dir \in Shown, dest \in Shown : \E s \in Picked(dir) :
    /\ \A i \in s : i.is_dir => Fits(i.key, Append(dest, leaf_of(i.key))) \/ Beneath(i.key, dest)
    /\ Dispatch(t, dir, [NewJob("move") EXCEPT !.all = s, !.items = s, !.dest = dest])
    /\ UNCHANGED contents

Rename(t) == \E dir \in Shown : \E i \in Entries(dir), n \in FolderNames \cup FileNames :
    LET to == Append(dir, on_disk_segment(i.encrypted, n)) IN
    /\ IF i.is_dir THEN n \in FolderNames /\ Fits(i.key, to) ELSE n \in FileNames
    /\ Dispatch(t, dir, [NewJob("rename") EXCEPT !.item = i, !.name = n, !.to = to])
    /\ UNCHANGED contents

CalculateSize(t) == \E dir \in Shown : \E i \in {x \in Entries(dir) : x.is_dir} :
    /\ Dispatch(t, dir, [NewJob("size") EXCEPT !.item = i])
    /\ UNCHANGED contents

Upload(t) == \E dir \in Shown, rel \in Rels :
    LET to == dir \o on_disk_path(e2ee, rel) IN
    /\ parent_prefix(to) \in Dirs
    /\ contents' = contents + 1
    /\ Dispatch(t, dir, [NewJob("upload") EXCEPT !.dest = dir, !.rel = rel, !.content = contents + 1, !.to = to])

-----------------------------------------------------------------------------
(* Requests and their errors.                                                *)

Goes(t, pc) == [job[t] EXCEPT !.pc = pc]
Becomes(t, j) == job' = [job EXCEPT ![t] = j]

\* A request ends as the backend decides, or it fails before or after it has taken
\* effect.  What the backend object knows waits for the answer, and no error gets there.
Unnoted(tr) == [tr EXCEPT !.known = tree.known]
Asks(t, outcomes, j, c) ==
    \E o \in outcomes :
       \/ /\ tree' = Unnoted(o.tree) /\ Becomes(t, IF o.ok THEN j ELSE Goes(t, "failed"))
          /\ call' = [call EXCEPT ![t] = [c EXCEPT !.add = o.tree.known \ tree.known, !.drop = tree.known \ o.tree.known]]
          /\ UNCHANGED faults
       \/ /\ faults < MaxFaults /\ faults' = faults + 1
          /\ tree' \in {tree, [Unnoted(o.tree) EXCEPT !.unheard = @ \cup (tree.dirs \ o.tree.dirs)]}
          /\ Becomes(t, Goes(t, "failed")) /\ UNCHANGED call

Request(t, outcomes, j) == Asks(t, outcomes, j, NoCall)

\* The insertion into and the removal from known_dirs and dir_cache, under a lock of their own.
Noting(t) == call[t].add # {} \/ call[t].drop # {}
Note(t) == /\ Noting(t)
           /\ tree' = [tree EXCEPT !.known = (@ \ call[t].drop) \cup call[t].add]
           /\ call' = [call EXCEPT ![t].add = {}, ![t].drop = {}]
           /\ UNCHANGED <<e2ee, buf, job, contents, commands, faults, history>>

\* prepare_parents of what is in dir goes on with the next directory that is not known.
Ahead(t, dir) == {n \in 1 .. Len(dir) : n > call[t].way /\ SubSeq(dir, 1, n) \notin tree.known}
Prepared(t, dir) == tree.kind = "s3" \/ Ahead(t, dir) = {}
Prepare(t, dir) ==
    /\ ~Prepared(t, dir)
    /\ \E n \in Ahead(t, dir) :
       /\ \A m \in Ahead(t, dir) : n <= m
       /\ Asks(t, prepare_parents(tree, SubSeq(dir, 1, n)), job[t], [NoCall EXCEPT !.way = n])

\* The removal of a folder goes on with one of the deepest directories.
Rmdir(t) ==
    \E d \in call[t].left :
       /\ \A e \in call[t].left : Beneath(d, e) => e = d
       /\ Asks(t, rmdir(tree, d), job[t], [NoCall EXCEPT !.left = call[t].left \ {d}])

\* The loop is over.
Leaves(t, j) == Becomes(t, j) /\ call' = [call EXCEPT ![t] = NoCall] /\ UNCHANGED <<tree, faults>>

\* wait_until_healthy and a second try; the backend may be a new one, which knows nothing.
Retry(t) ==
    /\ job[t].pc = "failed" /\ ~job[t].tried
    /\ Becomes(t, [job[t] EXCEPT !.pc = "start", !.tried = TRUE, !.items = job[t].all])
    /\ tree' \in {tree, [tree EXCEPT !.known = {}]}
    /\ call' = [call EXCEPT ![t] = NoCall]
    /\ UNCHANGED <<e2ee, buf, contents, commands, faults, history>>

\* The error is shown; a batch of uploads flushes all the same.
GiveUp(t) ==
    /\ job[t].pc = "failed" /\ job[t].tried
    /\ Becomes(t, IF job[t].cmd = "upload" /\ e2ee THEN Goes(t, "flush") ELSE Answered("err"))
    /\ muddled' = (muddled \/ job[t].began) /\ call' = [call EXCEPT ![t] = NoCall]
    /\ UNCHANGED <<e2ee, tree, buf, contents, commands, faults, acked, gone, strayed, parted>>

Done(t) == Answered(IF job[t].cmd = "upload" /\ job[t].at = 0 THEN "err" ELSE "ok")

\* The manifest of dir cannot be read.
LoadFails(dir) == /\ dir \notin DOMAIN buf
                  /\ IF CanLoad(dir) THEN faults < MaxFaults /\ faults' = faults + 1
                     ELSE UNCHANGED faults

-----------------------------------------------------------------------------
(* create_folder *)

CreateMake(t) ==
    /\ job[t].pc = "start" /\ job[t].cmd = "create"
    /\ LET key == Append(job[t].dest, Seg(job[t].name))
           done == IF e2ee THEN Goes(t, "edit") ELSE Answered("ok")
       IN IF tree.kind = "s3" THEN Request(t, Ok([tree EXCEPT !.dirs = @ \cup {key}]), done)
          ELSE Prepare(t, key) \/ (Prepared(t, key) /\ Leaves(t, done))
    /\ UNCHANGED <<e2ee, buf, contents, commands, history>>

-----------------------------------------------------------------------------
(* run_delete *)

\* All of the keys are collected before the first one goes.
DeleteList(t) ==
    /\ job[t].pc = "start" /\ job[t].cmd = "delete"
    /\ LET dirs == {i.key : i \in {x \in job[t].items : x.is_dir}} IN
       Request(t, {Outcome(tree, \A d \in dirs : Listable(tree, d))},
               [Goes(t, "remove") EXCEPT !.got = (UNION {list_recursive(tree, d) : d \in dirs}) \cup
                                                 {i.key : i \in job[t].items}])
    /\ UNCHANGED <<e2ee, buf, contents, commands, history>>

\* S3 deletes everything at once; it may leave some out and tell, but nobody reads that.
s3_deletes(t, keys, j) ==
    \/ Request(t, s3_delete(tree, keys, {}), j)
    \/ /\ faults < MaxFaults /\ faults' = faults + 1
       /\ \E kept \in SUBSET (keys \cap (Keys(tree) \cup tree.dirs)) : \E o \in s3_delete(tree, keys, kept) : tree' = o.tree
       /\ Becomes(t, j) /\ UNCHANGED call

\* The others go from item to item, the files of each one first.
Unlinked(i) == IF i.is_dir THEN sweep(tree, i.key) ELSE remove_file(tree, i.key)
Found(i) == IF i.is_dir THEN Subtree(tree, i.key) ELSE {}
Deleted(t, i) == IF job[t].items # {i} THEN [Goes(t, "remove") EXCEPT !.items = @ \ {i}]
                 ELSE IF e2ee THEN [Goes(t, "edit") EXCEPT !.items = job[t].all] ELSE Answered("ok")

\* The contents of files that were at a key and are there no more.
FilesIn(tr) == {k \in Keys(tr) : ~is_manifest_key(leaf_of(k))}
Dropped(old, new) == {old.obj[k] : k \in {x \in FilesIn(old) : ~(x \in FilesIn(new) /\ old.obj[x] = new.obj[x])}}

DeleteRemove(t) ==
    /\ job[t].pc = "remove" /\ job[t].cmd = "delete"
    /\ IF tree.kind = "s3"
       THEN s3_deletes(t, job[t].got, IF e2ee THEN Goes(t, "edit") ELSE Answered("ok"))
       ELSE \E i \in job[t].items :
            Asks(t, Unlinked(i), IF i.is_dir THEN [Goes(t, "rmdir") EXCEPT !.item = i] ELSE Deleted(t, i),
                 [NoCall EXCEPT !.left = Found(i)])
    /\ gone' = gone \cup Dropped(tree, tree')
    /\ UNCHANGED <<e2ee, buf, contents, commands, acked, strayed, parted, muddled>>

DeleteRmdir(t) ==
    /\ job[t].pc = "rmdir" /\ job[t].cmd = "delete"
    /\ Rmdir(t) \/ (call[t].left = {} /\ Leaves(t, Deleted(t, job[t].item)))
    /\ UNCHANGED <<e2ee, buf, contents, commands, history>>

-----------------------------------------------------------------------------
(* run_move and run_rename *)

\* Fault: a folder may be moved into itself.
MoveAnywhere(t) ==
    /\ job[t].pc = "start" /\ job[t].cmd = "move"
    /\ IF job[t].items = {} THEN Becomes(t, IF e2ee THEN Goes(t, "flush") ELSE Answered("ok"))
       ELSE \E i \in job[t].items :
            Becomes(t, [job[t] EXCEPT !.items = @ \ {i}, !.item = i, !.to = Append(job[t].dest, leaf_of(i.key)),
                                      !.pc = "list"])
    /\ UNCHANGED <<e2ee, tree, buf, call, contents, commands, faults, history>>

\* The next item of a move; one that is where it should be, or a folder that
\* would go into itself, is skipped.
MoveNext(t) ==
    /\ job[t].pc = "start" /\ job[t].cmd = "move"
    /\ IF job[t].items = {} THEN Becomes(t, IF e2ee THEN Goes(t, "flush") ELSE Answered("ok"))
       ELSE \E i \in job[t].items :
            LET to == Append(job[t].dest, leaf_of(i.key))
                skip == to = i.key \/ (i.is_dir /\ Beneath(i.key, job[t].dest))
            IN Becomes(t, [job[t] EXCEPT !.items = @ \ {i}, !.item = i, !.to = to,
                                         !.pc = IF skip THEN "start" ELSE "list"])
    /\ UNCHANGED <<e2ee, tree, buf, call, contents, commands, faults, history>>

\* The collision guard looks at the manifest; a plain rename has none.
RenameCheck(t) ==
    /\ job[t].pc = "start" /\ job[t].cmd = "rename"
    /\ LET i == job[t].item
           dir == parent_prefix(i.key)
           e == i.encrypted
       IN /\ buf' = IF e /\ job[t].to # i.key /\ CanLoad(dir) THEN load(dir) ELSE buf
          /\ Request(t, {Outcome(tree, \/ ~e \/ job[t].to = i.key
                                       \/ CanLoad(dir) /\ name_for(View(dir), leaf_of(job[t].to)) = {})},
                     IF job[t].to = i.key THEN Answered("ok") ELSE Goes(t, "list"))
    /\ UNCHANGED <<e2ee, contents, commands, history>>

Moving(t) == job[t].cmd \in {"move", "rename"}

\* What is there now is what will be copied.
RenameList(t) ==
    /\ job[t].pc = "list" /\ Moving(t)
    /\ LET i == job[t].item
           next == [Goes(t, "copy") EXCEPT !.began = TRUE,
                                      !.got = IF i.is_dir THEN list_recursive(tree, i.key) ELSE {i.key}]
       IN IF i.is_dir /\ tree.kind # "s3"
          THEN Prepare(t, job[t].to) \/ (Prepared(t, job[t].to) /\ Request(t, {Outcome(tree, i.key \in tree.dirs)}, next))
          ELSE Leaves(t, next)
    /\ UNCHANGED <<e2ee, buf, contents, commands, history>>

\* The rename that another task makes of `key`, or of a folder above it, is about to
\* remove what is put there now.
Strays(t, key) == \E u \in Tasks \ {t} :
    /\ Moving(u) /\ Beneath(job[u].item.key, key)
    /\ IF tree.kind = "s3" THEN job[u].pc = "remove" /\ key \in job[u].got
       ELSE job[u].pc = "remove" \/ (job[u].pc = "copy" /\ key \notin job[u].got)

\* The names do not go with the folder: the buffered manifests stay where they are,
\* and the timer saves some after the listing, so that the new prefix does not show
\* what the old one shows.
Parts(t) == /\ job[t].item.is_dir /\ job'[t].pc = "remove"
            /\ \E d \in Dirs : /\ Beneath(job[t].item.key, d) /\ View(d) # Default
                              /\ Shows(tree', Swapped(job[t].item.key, job[t].to, d)) # View(d)

\* A manifest takes the place of another one, whose names are lost with it.
Merges == \E k \in Keys(tree) : is_manifest_key(leaf_of(k)) /\ tree'.obj[k] # tree.obj[k]

RenameCopy(t) ==
    /\ job[t].pc = "copy" /\ Moving(t)
    /\ \/ Request(t, copy(tree, job[t].item.key, job[t].to, job[t].got), Goes(t, "remove"))
       \/ /\ faults < MaxFaults /\ faults' = faults + 1
          /\ \E some \in SUBSET job[t].got : \E o \in copy(tree, job[t].item.key, job[t].to, some) :
                /\ tree' = Unnoted(o.tree)
                /\ call' = [call EXCEPT ![t].add = o.tree.known \ tree.known]
          /\ Becomes(t, Goes(t, "failed"))
    /\ gone' = gone \cup Dropped(tree, tree')
    /\ strayed' = strayed \cup {tree'.obj[k] : k \in {x \in FilesIn(tree') : Beneath(job[t].to, x) /\ Strays(t, x)}}
    /\ parted' = (parted \/ Parts(t) \/ Merges)
    /\ UNCHANGED <<e2ee, buf, contents, commands, acked, muddled>>

AfterRename(t) == CASE job[t].cmd = "move" -> Goes(t, IF e2ee THEN "take" ELSE "start")
                    [] job[t].cmd = "rename" -> IF job[t].item.encrypted THEN Goes(t, "edit") ELSE Answered("ok")

\* Fault: everything under the prefix goes, not what was copied.
RemovesAll(t) == list_recursive(tree, job[t].item.key) \cup {job[t].item.key}
Removes(t) == job[t].got \cup {job[t].item.key}

RenameRemove(t) ==
    /\ job[t].pc = "remove" /\ Moving(t)
    /\ IF tree.kind = "s3" THEN s3_deletes(t, Removes(t), AfterRename(t))
       ELSE Asks(t, Unlinked(job[t].item), IF job[t].item.is_dir THEN Goes(t, "rmdir") ELSE AfterRename(t),
                 [NoCall EXCEPT !.left = Found(job[t].item)])
    /\ UNCHANGED <<e2ee, buf, contents, commands, history>>

RenameRmdir(t) ==
    /\ job[t].pc = "rmdir" /\ Moving(t)
    /\ Rmdir(t) \/ (call[t].left = {} /\ Leaves(t, AfterRename(t)))
    /\ UNCHANGED <<e2ee, buf, contents, commands, history>>

\* take_entry and insert_entry: an error of either is ignored.
MoveTake(t) ==
    /\ job[t].pc = "take"
    /\ LET dir == parent_prefix(job[t].item.key)
           got == take_entry(View(dir), job[t].item.name)
           next == [Goes(t, IF got.entry = {} THEN "start" ELSE "insert") EXCEPT !.taken = got.entry]
       IN \/ CanLoad(dir) /\ buf' = edit(dir, got.rest) /\ Becomes(t, next) /\ UNCHANGED <<faults, muddled>>
          \/ LoadFails(dir) /\ Becomes(t, Goes(t, "start")) /\ muddled' = TRUE /\ UNCHANGED buf
    /\ UNCHANGED <<e2ee, tree, call, contents, commands, acked, gone, strayed, parted>>

MoveInsert(t) ==
    /\ job[t].pc = "insert"
    /\ LET dir == job[t].dest
           entry == CHOOSE e \in job[t].taken : TRUE
       IN \/ /\ CanLoad(dir) /\ buf' = edit(dir, insert_entry(View(dir), job[t].item.name, entry))
             /\ UNCHANGED <<faults, muddled>>
          \/ LoadFails(dir) /\ muddled' = TRUE /\ UNCHANGED buf
    /\ Becomes(t, [Goes(t, "start") EXCEPT !.taken = {}])
    /\ UNCHANGED <<e2ee, tree, call, contents, commands, acked, gone, strayed, parted>>

-----------------------------------------------------------------------------
(* run_calculate_size, and run_upload of one file *)

SizeList(t) ==
    /\ job[t].pc = "start" /\ job[t].cmd = "size"
    /\ Request(t, {Outcome(tree, Listable(tree, job[t].item.key))},
               IF job[t].item.encrypted THEN Goes(t, "edit") ELSE Answered("ok"))
    /\ UNCHANGED <<e2ee, buf, contents, commands, history>>

UploadPrepare(t) ==
    /\ job[t].pc = "start" /\ job[t].cmd = "upload"
    /\ LET dir == parent_prefix(job[t].to) IN
       Prepare(t, dir) \/ (Prepared(t, dir) /\ Leaves(t, Goes(t, "put")))
    /\ UNCHANGED <<e2ee, buf, contents, commands, history>>

UploadPut(t) ==
    /\ job[t].pc = "put"
    /\ LET key == job[t].to
           c == job[t].content
       IN /\ Request(t, put(tree, key, c), IF e2ee THEN [Goes(t, "edit") EXCEPT !.at = 1] ELSE [Goes(t, "flush") EXCEPT !.at = 1])
          /\ acked' = IF job'[t].at = 1 THEN acked \cup {c} ELSE acked
          /\ strayed' = IF Strays(t, key) THEN strayed \cup {c} ELSE strayed
    /\ gone' = gone \cup Dropped(tree, tree')
    /\ UNCHANGED <<e2ee, buf, contents, commands, parted, muddled>>

-----------------------------------------------------------------------------
(* The manifests: edits, and the flush at the end of every command.          *)

\* The directory of an edit, the manifest it leaves there, the task after it, and
\* the folders that are forgotten along with it.
FolderOf(i) == IF i.is_dir THEN {i.key} ELSE {}

EditsOf(t) ==
    LET j == job[t]
        parent == parent_prefix(j.item.key)
        n == j.rel[j.at]
        dir == j.dest \o on_disk_path(TRUE, SubSeq(j.rel, 1, j.at - 1))
    IN CASE j.cmd = "create" -> {<<j.dest, upsert_folder(View(j.dest), j.name), Goes(t, "flush"), {}>>}
         [] j.cmd = "rename" -> {<<parent, rename_entry(View(parent), j.item.name, j.name), Goes(t, "flush"),
                                   FolderOf(j.item)>>}
         [] j.cmd = "size"   -> {<<parent, set_folder_size(View(parent), j.item.name, 1), Goes(t, "flush"), {}>>}
         [] j.cmd = "delete" -> {<<parent_prefix(i.key), remove(View(parent_prefix(i.key)), i.name),
                                   [Goes(t, IF j.items = {i} THEN "flush" ELSE "edit") EXCEPT !.items = @ \ {i}], FolderOf(i)>> :
                                 i \in j.items}
         [] j.cmd = "upload" -> IF j.at = Len(j.rel)
                                THEN {<<dir, upsert_file(View(dir), n, j.content), Goes(t, "flush"), {}>>}
                                ELSE {<<dir, upsert_folder(View(dir), n), [j EXCEPT !.at = @ + 1], {}>>}

\* record_upload gives up at the first error; run_delete and run_calculate_size go on.
Unedited(t, next) == CASE job[t].cmd \in {"create", "rename"} -> Goes(t, "failed")
                       [] job[t].cmd = "upload" -> Goes(t, "flush")
                       [] OTHER -> next

EditStep(t) ==
    /\ job[t].pc = "edit"
    /\ \E e \in EditsOf(t) :
       \/ CanLoad(e[1]) /\ buf' = forget(edit(e[1], e[2]), e[4]) /\ Becomes(t, e[3]) /\ UNCHANGED <<faults, muddled>>
       \/ /\ LoadFails(e[1]) /\ Becomes(t, Unedited(t, e[3])) /\ buf' = forget(buf, e[4])
          /\ muddled' = (muddled \/ job[t].cmd = "upload")
    /\ UNCHANGED <<e2ee, tree, call, contents, commands, acked, gone, strayed, parted>>

\* A flush stops at the first put that fails; that one may have taken effect.
FlushFails(wanted) ==
    \E some, more \in SUBSET {d \in wanted : CanPut(d)} :
       /\ some \subseteq more /\ Cardinality(more \ some) <= 1
       /\ tree' = FlushedTree(more) /\ buf' = FlushedBuf(some)
       /\ IF \A d \in wanted : CanPut(d)
          THEN some # wanted /\ faults < MaxFaults /\ faults' = faults + 1
          ELSE some = more /\ UNCHANGED faults

\* Fault: it is left to the timer.
FlushLater(t) == /\ job[t].pc = "flush" /\ Becomes(t, Done(t))
                 /\ UNCHANGED <<e2ee, tree, buf, call, contents, commands, faults, history>>

FlushStep(t) ==
    /\ job[t].pc = "flush"
    /\ \/ /\ \A d \in Unsaved : CanPut(d)
          /\ tree' = FlushedTree(Unsaved) /\ buf' = FlushedBuf(Unsaved)
          /\ Becomes(t, Done(t)) /\ UNCHANGED faults
       \/ FlushFails(Unsaved) /\ Becomes(t, IF job[t].cmd \in {"create", "rename"} THEN Goes(t, "failed") ELSE Done(t))
    /\ UNCHANGED <<e2ee, call, contents, commands, history>>

\* The flush timer writes the directories that have been quiet for long enough.
FlushTimer ==
    /\ \E some \in (SUBSET Unsaved) \ {{}} :
       \/ /\ \A d \in some : CanPut(d)
          /\ tree' = FlushedTree(some) /\ buf' = FlushedBuf(some) /\ UNCHANGED faults
       \/ FlushFails(some)
    /\ UNCHANGED <<e2ee, tasks, history>>

-----------------------------------------------------------------------------
(* Readers fill the buffer: a folder is expanded for a download, or for the   *)
(* info dialog, which also looks at the entry of the folder itself.          *)

Walk(dirs) == /\ e2ee \/ tree.kind = "nfs"
              /\ commands < MaxCommands /\ commands' = commands + 1
              /\ buf' = IF e2ee THEN LoadAll(dirs) ELSE buf
              /\ tree' = resolve_dir(tree, dirs)
              /\ UNCHANGED <<e2ee, job, call, contents, faults, history>>

expand_folder == \E dir \in Shown \ {<<>>} : Walk({d \in Shown : Beneath(dir, d)})
collect_folder_info == \E dir \in Shown \ {<<>>} : Walk({parent_prefix(dir)} \cup {d \in Shown : Beneath(dir, d)})

\* The program ends: what is buffered is gone, and with it what the backend does
\* not have (not only what is unsaved: a put that failed may have taken effect).
Crash == /\ faults < MaxFaults /\ faults' = faults + 1
         /\ buf' = <<>> /\ tree' = [tree EXCEPT !.known = {}]
         /\ job' = [t \in Tasks |-> Answered("none")] /\ call' = [t \in Tasks |-> NoCall]
         /\ muddled' = (muddled \/ ~Quiet \/ \E d \in DOMAIN buf : buf[d].m # OnBackend(d))
         /\ UNCHANGED <<e2ee, contents, commands, acked, gone, strayed, parted>>

Step(t) == IF Noting(t) THEN Note(t)
           ELSE \/ CreateMake(t) \/ DeleteList(t) \/ DeleteRemove(t) \/ DeleteRmdir(t) \/ MoveNext(t) \/ RenameCheck(t)
                \/ RenameList(t) \/ RenameCopy(t) \/ RenameRemove(t) \/ RenameRmdir(t) \/ MoveTake(t) \/ MoveInsert(t)
                \/ SizeList(t) \/ UploadPrepare(t) \/ UploadPut(t) \/ EditStep(t) \/ FlushStep(t) \/ Retry(t) \/ GiveUp(t)

Alone(t) == faults = 0 /\ \A u \in Tasks \ {t} : job[u] = Answered("none")
Command(t) == /\ ~Active(t) /\ commands < IF Alone(t) THEN MaxAlone ELSE MaxCommands
              /\ Create(t) \/ Delete(t) \/ Move(t) \/ Rename(t) \/ CalculateSize(t) \/ Upload(t)

Next == \/ \E t \in Tasks : Command(t) \/ Step(t)
        \/ FlushTimer \/ expand_folder \/ collect_folder_info \/ Crash

Spec == Init /\ [][Next]_vars

-----------------------------------------------------------------------------

Files == FilesIn(tree)
Stored == {tree.obj[k] : k \in Files}

\* Type correctness of the tree and of the tasks.
TypeOK == /\ tree.kind \in Kinds /\ tree.dirs \subseteq Dirs /\ <<>> \in tree.dirs /\ tree.known \subseteq Dirs
          /\ \A k \in Files : parent_prefix(k) \in Dirs /\ tree.obj[k] \in 1 .. contents
          /\ DOMAIN buf \subseteq Dirs
          /\ \A t \in Tasks : job[t].pc \in {"idle", "start", "remove", "rmdir", "list", "copy", "take", "insert",
                                              "put", "edit", "flush", "failed"}

\* No file is lost: what was uploaded is in the tree, unless the user deleted it
\* or put something else in its place, or it was written into a folder that a
\* rename had already listed.  worker.rs:1957 says of a move: "only the parent
\* prefix changes, so we never touch names or file contents".
NothingLost == acked \subseteq Stored \cup gone \cup strayed

\* Names: every file that was uploaded is listed in its directory under its own
\* name and with its own size, and so is every folder on the way to it.
Named(m, key) ==
    /\ name_for(m, leaf_of(key)) = {leaf_of(key)[2]}
    /\ key \in Files => leaf_of(key) \in DOMAIN m.files /\ m.files[leaf_of(key)].size = tree.obj[key]
Orderly == e2ee /\ Quiet /\ ~muddled /\ ~parted /\ tree.refused = {}
Kept == {k \in Files : tree.obj[k] \in acked}
OnTheWay(k) == Chain(parent_prefix(k)) \cup {k}

\* The names of uploaded files and of the folders above them survive every
\* sequence of renames, moves, deletes and failures (run_rename, run_move,
\* record_upload and the manifests they edit), in the buffered manifests.
NamesKept == Orderly => \A k \in Kept : \A x \in OnTheWay(k) : Named(View(parent_prefix(x)), x)

\* At rest they are also on the backend, where the next session finds them: every
\* command that edits a manifest flushes it before it answers.  It may leave out a
\* directory whose manifest it holds for written although another one, or none, is
\* there: the folder was moved away or deleted with its manifest in the buffer.
InStep(dir) == dir \in DOMAIN buf => buf[dir].written = OnBackend(dir)
NamesDurable == Orderly /\ faults = 0 => \A k \in Kept : \A x \in OnTheWay(k) :
    InStep(parent_prefix(x)) => Named(OnBackend(parent_prefix(x)), x)

\* The same of folders that went to another prefix while manifests of the old or
\* of the new prefix were buffered: run_rename says it forgets them.
NamesFollowFolder == e2ee /\ Quiet /\ ~muddled => \A k \in Kept : \A x \in OnTheWay(k) : Named(View(parent_prefix(x)), x)

\* What SMB and NFS hold for an existing directory (known_dirs, dir_cache) is one, or
\* its removal is about to be noted, or was reported as an error: a stale entry makes
\* prepare_parents skip a directory that is gone.  Commands in each other's way are not
\* covered: a directory may go between the request that makes it and its insertion.
KnownDirsExist == tree.kind \in {"smb", "nfs"} /\ ~muddled =>
    tree.known \subseteq tree.dirs \cup tree.unheard \cup UNION {call[t].drop : t \in Tasks}

\* A command that answers Ok has done what it was asked for, whatever failed and
\* was retried on the way: the folder is there, or no file is left of what was
\* deleted, moved or renamed.  What S3 refused to delete is left, for S3Backend::delete
\* does not read its answer, and a folder that is wrongly held for existing is not made:
\* on SFTP any that was removed, on SMB and NFS one whose removal was reported as an error.
Effect(j, tr) ==
    LET left(i) == \E k \in FilesIn(tr) \ tr.refused : Beneath(i.key, k)
        stays(i) == parent_prefix(i.key) = j.dest \/ (i.is_dir /\ Beneath(i.key, j.dest))
    IN CASE j.cmd = "create" -> tr.kind = "sftp" \/ Append(j.dest, Seg(j.name)) \in tr.dirs \cup tr.unheard
         [] j.cmd = "delete" -> \A i \in j.all : ~left(i)
         [] j.cmd = "move"   -> \A i \in j.all : stays(i) \/ ~left(i)
         [] j.cmd = "rename" -> j.to = j.item.key \/ ~left(j.item)
         [] OTHER -> TRUE
Answers(t) == Active(t) /\ job'[t].pc = "idle" /\ job'[t].result = "ok"
SuccessMeansDone == [][\A t \in Tasks : Answers(t) /\ ~muddled => Effect(job[t], tree')]_vars
=============================================================================
