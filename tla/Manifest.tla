------------------------------ MODULE Manifest ------------------------------
(***************************************************************************)
(* The content of a directory's ".rse" manifest (src/src/manifest.rs) and  *)
(* the listing that is made from it (src/src/dir_view.rs).                 *)
(*                                                                         *)
(* A segment of a remote key is a pair of its form and the name it stands  *)
(* for: <<"sha256", n>> is the upper-case hex SHA-256 of the deterministic *)
(* encryption of n, <<"plain", n>> the literal name n.  So different names *)
(* have different hashes, and no hash is a name.                           *)
(***************************************************************************)
EXTENDS Naturals, Sequences

hash_entry(n) == <<"sha256", n>>
literal(n) == <<"plain", n>>
looks_like_hash(seg) == seg[1] = "sha256"

MANIFEST_KEY == literal(".rse")
is_manifest_key(seg) == seg = MANIFEST_KEY

on_disk_segment(e2ee, n) == IF e2ee THEN hash_entry(n) ELSE literal(n)
on_disk_path(e2ee, rel) == [i \in DOMAIN rel |-> on_disk_segment(e2ee, rel[i])]

\* The prefix of the directory an entry is in, and its own segment.
parent_prefix(key) == SubSeq(key, 1, Len(key) - 1)
leaf_of(key) == key[Len(key)]

-----------------------------------------------------------------------------
(* Manifest: two maps from the on-disk segment to a record of the real name  *)
(* and a size, the one a folder has cached (0 for None) or that of a file.   *)

Without(map, keys) == [k \in DOMAIN map \ keys |-> map[k]]
With(map, key, value) == [k \in {key} \cup DOMAIN map |-> IF k = key THEN value ELSE map[k]]

Default == [files |-> <<>>, folders |-> <<>>]

upsert_file(m, n, size) ==
    [m EXCEPT !.files = With(@, hash_entry(n), [name |-> n, size |-> size])]

\* An existing folder keeps its cached size.
upsert_folder(m, n) ==
    LET key == hash_entry(n)
        old == IF key \in DOMAIN m.folders THEN m.folders[key].size ELSE 0
    IN [m EXCEPT !.folders = With(@, key, [name |-> n, size |-> old])]

set_folder_size(m, n, total) ==
    IF hash_entry(n) \in DOMAIN m.folders
    THEN [m EXCEPT !.folders[hash_entry(n)].size = total]
    ELSE m

remove(m, n) == [files |-> Without(m.files, {hash_entry(n)}),
                 folders |-> Without(m.folders, {hash_entry(n)})]

\* Some(name) of a segment as a set.
name_for(m, seg) == IF seg \in DOMAIN m.files THEN {m.files[seg].name}
                    ELSE IF seg \in DOMAIN m.folders THEN {m.folders[seg].name} ELSE {}

\* Fault: the record keeps its old display name.
rename_entry_keeping_name(m, old, new) ==
    LET move(map) == With(Without(map, {hash_entry(old)}), hash_entry(new), map[hash_entry(old)])
    IN IF hash_entry(old) \in DOMAIN m.files THEN [m EXCEPT !.files = move(@)]
       ELSE IF hash_entry(old) \in DOMAIN m.folders THEN [m EXCEPT !.folders = move(@)]
       ELSE m

rename_entry(m, old, new) ==
    LET move(map) == With(Without(map, {hash_entry(old)}), hash_entry(new),
                          [map[hash_entry(old)] EXCEPT !.name = new])
    IN IF hash_entry(old) \in DOMAIN m.files THEN [m EXCEPT !.files = move(@)]
       ELSE IF hash_entry(old) \in DOMAIN m.folders THEN [m EXCEPT !.folders = move(@)]
       ELSE m

\* take_entry gives at most one of Entry::File and Entry::Folder, and the manifest without it.
take_entry(m, n) ==
    LET key == hash_entry(n) IN
    IF key \in DOMAIN m.files
    THEN [entry |-> {<<"File", m.files[key]>>}, rest |-> [m EXCEPT !.files = Without(@, {key})]]
    ELSE IF key \in DOMAIN m.folders
    THEN [entry |-> {<<"Folder", m.folders[key]>>}, rest |-> [m EXCEPT !.folders = Without(@, {key})]]
    ELSE [entry |-> {}, rest |-> m]

insert_entry(m, n, entry) ==
    IF entry[1] = "File" THEN [m EXCEPT !.files = With(@, hash_entry(n), entry[2])]
    ELSE [m EXCEPT !.folders = With(@, hash_entry(n), entry[2])]

-----------------------------------------------------------------------------
(* build_listing: raw entries are records of key, is_prefix and size.        *)

EntryKind(m, seg) == IF name_for(m, seg) # {} THEN "Known"
                     ELSE IF looks_like_hash(seg) THEN "Orphan" ELSE "Foreign"

ListedSize(m, o) ==
    LET leaf == leaf_of(o.key) IN
    IF EntryKind(m, leaf) # "Known" THEN o.size
    ELSE IF o.is_prefix
         THEN IF leaf \in DOMAIN m.folders THEN m.folders[leaf].size ELSE 0
         ELSE IF leaf \in DOMAIN m.files THEN m.files[leaf].size ELSE o.size

build_listing(raw, m) ==
    { LET kind == EntryKind(m, leaf_of(o.key)) IN
      [key |-> o.key, is_dir |-> o.is_prefix, size |-> ListedSize(m, o),
       name |-> CASE kind = "Known" -> CHOOSE n \in name_for(m, leaf_of(o.key)) : TRUE
                  [] kind = "Orphan" -> "[unrecovered]"
                  [] kind = "Foreign" -> leaf_of(o.key)[2],
       encrypted |-> kind = "Known"] :
      o \in {r \in raw : ~is_manifest_key(leaf_of(r.key))} }
=============================================================================
