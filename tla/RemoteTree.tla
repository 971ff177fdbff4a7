----------------------------- MODULE RemoteTree -----------------------------
(***************************************************************************)
(* What the storage backends do to the remote keys: the default methods of *)
(* StorageBackend (src/src/storage/mod.rs) and those of the S3, SFTP, SMB  *)
(* and NFS backends.                                                       *)
(*                                                                         *)
(* A tree is a record of the kind of backend, the objects (a function from *)
(* keys to contents), the directories (on S3, the marker objects) and the  *)
(* directories that the backend object holds for existing: known_dirs of   *)
(* SFTP and SMB, the handles in dir_cache of NFS.  Keys are sequences of   *)
(* segments; the root is <<>>.  Two more fields are history: the keys that *)
(* S3 refused to delete in an answer without an error, and the directories *)
(* that went in an answer that never came, so that nobody forgot them.     *)
(*                                                                         *)
(* An operator that may fail returns the set of its outcomes, each a tree  *)
(* and whether the call is Ok.                                             *)
(***************************************************************************)
EXTENDS Manifest, FiniteSets

Outcome(tr, ok) == [tree |-> tr, ok |-> ok]
Ok(tr) == {Outcome(tr, TRUE)}
Err(tr) == {Outcome(tr, FALSE)}

Beneath(dir, key) == Len(dir) <= Len(key) /\ SubSeq(key, 1, Len(dir)) = dir
Keys(tr) == DOMAIN tr.obj

\* Replaces the prefix `from` of a key by `to`.
Swapped(from, to, key) == to \o SubSeq(key, Len(from) + 1, Len(key))

-----------------------------------------------------------------------------
(* Shallow listings: the children of dir, files and directories.             *)

Raw(tr, files, dirs) ==
    {[key |-> k, is_prefix |-> FALSE, size |-> tr.obj[k]] : k \in files} \cup
    {[key |-> d, is_prefix |-> TRUE, size |-> 0] : d \in dirs}

\* A prefix is there when a key or a marker goes through it.
s3_list(tr, dir) ==
    LET deep == {k \in Keys(tr) \cup tr.dirs : Beneath(dir, k) /\ Len(k) > Len(dir)} IN
    Raw(tr, {k \in deep : k \in Keys(tr) /\ Len(k) = Len(dir) + 1 /\ ~is_manifest_key(leaf_of(k))},
            {SubSeq(k, 1, Len(dir) + 1) : k \in {x \in deep : x \in tr.dirs \/ Len(x) > Len(dir) + 1}})

\* A directory of a file system lists only its own children, and has to be there.
Children(tr, dir) ==
    LET child == {k \in Keys(tr) \cup tr.dirs : Len(k) = Len(dir) + 1 /\ Beneath(dir, k)} IN
    Raw(tr, {k \in child : k \in Keys(tr) /\ ~is_manifest_key(leaf_of(k))}, child \cap tr.dirs)
Listable(tr, dir) == tr.kind = "s3" \/ dir \in tr.dirs
sftp_list(tr, dir) == Children(tr, dir)
smb_list(tr, dir) == Children(tr, dir)
nfs_list(tr, dir) == Children(tr, dir)

list(tr, dir) == CASE tr.kind = "s3" -> s3_list(tr, dir)     [] tr.kind = "sftp" -> sftp_list(tr, dir)
                   [] tr.kind = "smb" -> smb_list(tr, dir)   [] tr.kind = "nfs" -> nfs_list(tr, dir)

\* Every key beneath dir; S3 also finds the markers of its subdirectories.
list_recursive(tr, dir) ==
    {k \in Keys(tr) : Beneath(dir, k)} \cup
    (IF tr.kind = "s3" THEN {d \in tr.dirs : Beneath(dir, d) /\ d # dir} ELSE {})

-----------------------------------------------------------------------------
(* Writing. *)

\* The directories on the way to dir, dir included.
Chain(dir) == {SubSeq(dir, 1, n) : n \in 1 .. Len(dir)}

\* One turn of the loop of prepare_parents: a directory that is not known is made or
\* found, which fails where the one above it is not there.
Made(tr, dir) == IF parent_prefix(dir) \in tr.dirs THEN Ok([tr EXCEPT !.dirs = @ \cup {dir}, !.known = @ \cup {dir}])
                 ELSE Err(tr)
sftp_prepare_parents(tr, dir) == Made(tr, dir)
smb_prepare_parents(tr, dir) == Made(tr, dir)
nfs_prepare_parents(tr, dir) == Made(tr, dir)
prepare_parents(tr, dir) ==
    CASE tr.kind = "sftp" -> sftp_prepare_parents(tr, dir)
      [] tr.kind = "smb" -> smb_prepare_parents(tr, dir)
      [] tr.kind = "nfs" -> nfs_prepare_parents(tr, dir)

\* What a listing of each of dirs leaves in dir_cache.
resolve_dir(tr, dirs) ==
    IF tr.kind = "nfs" THEN [tr EXCEPT !.known = @ \cup (tr.dirs \cap UNION {Chain(d) : d \in dirs})] ELSE tr

put(tr, key, content) ==
    IF tr.kind = "s3" \/ parent_prefix(key) \in tr.dirs
    THEN Ok([tr EXCEPT !.obj = With(@, key, content)])
    ELSE Err(tr)

-----------------------------------------------------------------------------
(* Removing. *)

\* Fault: only the first key is sent.
s3_delete_first(tr, keys, kept) ==
    LET k == CHOOSE x \in keys : TRUE IN Ok([tr EXCEPT !.obj = Without(@, {k}), !.dirs = @ \ {k}])

\* One request for all of the keys and markers; a missing one is no error, and neither
\* is one that S3 keeps and names in its answer.
s3_delete(tr, keys, kept) ==
    Ok([tr EXCEPT !.obj = Without(@, keys \ kept), !.dirs = @ \ (keys \ kept), !.refused = @ \cup kept])

\* Unlinking a file: NFS has to find its directory first.
remove_file(tr, key) ==
    IF tr.kind = "nfs" /\ parent_prefix(key) \notin tr.dirs THEN Err(tr)
    ELSE Ok([tr EXCEPT !.obj = Without(@, {key})])

\* The walk down a directory removes the files that it finds.
Subtree(tr, dir) == {d \in tr.dirs : Beneath(dir, d)}
Swept(tr, dir) == Ok([tr EXCEPT !.obj = Without(@, {k \in Keys(tr) : Beneath(dir, k)})])
sftp_sweep(tr, dir) == IF dir \in tr.dirs THEN Swept(tr, dir) ELSE Ok(tr)
smb_sweep(tr, dir) == IF dir \in tr.dirs THEN Swept(tr, dir) ELSE Err(tr)
nfs_sweep(tr, dir) == IF dir \in tr.dirs THEN Swept(resolve_dir(tr, {dir} \cup Subtree(tr, dir)), dir) ELSE Err(tr)
sweep(tr, dir) == CASE tr.kind = "sftp" -> sftp_sweep(tr, dir)
                    [] tr.kind = "smb" -> smb_sweep(tr, dir)
                    [] tr.kind = "nfs" -> nfs_sweep(tr, dir)

\* Then the directories go that it has found, the deepest first: one that is not empty
\* stays, one that is gone is no error.  SFTP leaves known_dirs alone; SMB and NFS forget
\* what they have removed.
Empty(tr, dir) == \A k \in Keys(tr) \cup tr.dirs : Beneath(dir, k) => k = dir
sftp_rmdir(tr, dir) == [tr EXCEPT !.dirs = @ \ {dir}]
smb_rmdir(tr, dir) == [tr EXCEPT !.dirs = @ \ {dir}, !.known = @ \ {dir}]
nfs_rmdir(tr, dir) == [tr EXCEPT !.dirs = @ \ {dir}, !.known = @ \ {dir}]
rmdir(tr, dir) ==
    IF Empty(tr, dir) /\ (tr.kind = "nfs" => parent_prefix(dir) \in tr.dirs)
    THEN Ok(CASE tr.kind = "sftp" -> sftp_rmdir(tr, dir)
              [] tr.kind = "smb" -> smb_rmdir(tr, dir)
              [] tr.kind = "nfs" -> nfs_rmdir(tr, dir))
    ELSE Err(tr)

-----------------------------------------------------------------------------
(* The copying half of rename: of the keys that were listed under `from`.    *)

\* The objects and markers `keys` once more, under `to`.
Copied(tr, from, to, keys) ==
    LET new == {Swapped(from, to, k) : k \in keys \cap Keys(tr)} IN
    [tr EXCEPT !.obj = [k \in new \cup Keys(tr) |-> IF k \in new THEN tr.obj[Swapped(to, from, k)] ELSE tr.obj[k]],
               !.dirs = @ \cup {Swapped(from, to, d) : d \in keys \cap tr.dirs}]

\* copy_one fails for a key that is gone; the marker of the folder itself is looked up.
s3_copy(tr, from, to, keys) ==
    IF keys \subseteq Keys(tr) \cup tr.dirs
    THEN Ok(Copied(tr, from, to, keys \cup ({from} \cap tr.dirs)))
    ELSE {Outcome(Copied(tr, from, to, some), FALSE) : some \in SUBSET (keys \cap (Keys(tr) \cup tr.dirs))}

\* A file that is gone is skipped; every other one gets its directory and is written.
Made1(tr, dirs) == [tr EXCEPT !.dirs = @ \cup dirs, !.known = @ \cup dirs]
fs_copy(tr, from, to, keys) ==
    LET there == keys \cap Keys(tr)
        chain == UNION {Chain(parent_prefix(Swapped(from, to, k))) : k \in there}
        stale == (chain \cap tr.known) \ tr.dirs
    IN IF stale = {}
       THEN Ok(Copied(Made1(tr, chain), from, to, there))
       ELSE {Outcome(Copied(tr, from, to, some), FALSE) :
             some \in SUBSET {k \in there : Chain(parent_prefix(Swapped(from, to, k))) \subseteq tr.dirs}}

copy(tr, from, to, keys) ==
    IF tr.kind = "s3" THEN s3_copy(tr, from, to, keys) ELSE fs_copy(tr, from, to, keys)
=============================================================================
