-------------------------- MODULE PatchAssociation --------------------------
(***************************************************************************)
(* local_patch_association.cpp: a record in patches.d names the files of a *)
(* patch series, which lie in a directory of the user, with their digests. *)
(* The digest of a file is its content.  Operations: list, register,       *)
(* update, forget, acquire (the patches for a build), and generate (new    *)
(* patch files, then their record).                                        *)
(***************************************************************************)
EXTENDS UserDirectory

CONSTANTS Material,     \* the directory of the patch files
          PatchNames    \* the files of the series, in order

ASSUME PatchAssumption == PatchNames \in Seq(Nat)

RecordLeaf(i) == Append(DirectoryOf(i), 1)
PatchFile(k) == Append(Material, PatchNames[k])
GeneratedTemp(i) == Append(Material, 20 + i)

\* list, update, forget and acquire start from a record that they load.
Association(op, env) ==
    [Invocation(op, "patches.d", env) EXCEPT
        !.next = "registry",
        !.st = CASE op = "register" -> "material" [] op = "generate" -> "destination" [] OTHER -> "start"]

(***************************************************************************)
(* Records                                                                 *)
(***************************************************************************)
\* A record that was written by moguet for this package.
decode(n) == n.data \in DOMAIN records

require_record_file(n) == validate_entry_status(n)

\* read_registry, first half: every name must be a record, every record
\* must be readable.
OpenRegistry(i) ==
    LET found == ChildrenOf(tree, DirectoryOf(i)) IN
    /\ u[i].st = "registry" /\ Looks
    /\ IF /\ require_unchanged_directory(i) /\ found \subseteq {RecordLeaf(i)}
          /\ \A p \in found : require_record_file(tree[p]) /\ decode(tree[p])
       THEN Alter(i, [u[i] EXCEPT !.st = "registry read", !.seenDir = <<tree[DirectoryOf(i)]>>,
                                  !.entry = IF found = {} THEN <<>> ELSE <<tree[RecordLeaf(i)]>>])
       ELSE Alter(i, Fail(i))

\* Where an operation goes with the record that it found.
WithRecord(i) ==
    LET loaded == [u[i] EXCEPT !.previous = u[i].entry, !.entry = <<>>, !.lock = "none",
                               !.held = <<>>, !.seenDir = <<>>] IN
    CASE u[i].op = "list" -> Halt(i, "ok")
      [] u[i].op # "list" /\ u[i].want = "EX" ->
            IF Len(u[i].entry) = Len(u[i].previous) /\ (u[i].entry # <<>> => same_state(u[i].entry[1], u[i].previous[1]))
            THEN [u[i] EXCEPT !.st = "record temp"] ELSE Fail(i)
      [] u[i].op = "generate" /\ u[i].want = "SH" ->
            IF u[i].entry = <<>> THEN [loaded EXCEPT !.st = "generate"] ELSE Fail(i)
      [] OTHER ->
            IF u[i].entry = <<>> THEN Halt(i, "absent")
            ELSE IF u[i].op = "update" THEN [loaded EXCEPT !.st = "material"]
            ELSE [loaded EXCEPT !.st = "start", !.next = "select",
                                !.want = IF u[i].op = "forget" THEN "EX" ELSE "SH"]

\* read_registry, second half: the records and the directory itself are as
\* they were.  publish goes on under the same lock and compares with the
\* record its caller had loaded.
read_registry(i) ==
    /\ u[i].st \in {"registry read", "absent"} /\ Looks
    /\ IF \/ u[i].st = "absent" /\ u[i].want = "SH"
          \/ /\ u[i].st = "registry read" /\ require_unchanged_directory(i)
             /\ u[i].entry # <<>> => Named(RecordLeaf(i), u[i].entry[1])
             /\ same_state(u[i].seenDir[1], tree[DirectoryOf(i)])
       THEN Alter(i, WithRecord(i))
       ELSE Alter(i, Fail(i))

\* read_record and require_previous: no residue, and the record is the one
\* the caller loaded.
SelectRecord(i) ==
    /\ u[i].st = "select" /\ Looks
    /\ IF /\ require_unchanged_directory(i) /\ \A p \in ChildrenOf(tree, DirectoryOf(i)) : ~IsResidue(p)
          /\ Named(RecordLeaf(i), u[i].previous[1]) /\ decode(tree[RecordLeaf(i)])
       THEN Alter(i, [u[i] EXCEPT !.entry = <<tree[RecordLeaf(i)]>>,
                                  !.st = IF u[i].op = "forget" THEN "forget check" ELSE "material"])
       ELSE Alter(i, Fail(i))

(***************************************************************************)
(* Material                                                                *)
(***************************************************************************)
\* Regular, ours, not writable by others.
require_file(n) == n.kind = "file" /\ n.own /\ n.mode # "shared"

\* MaterialDirectory: each component below the root, held and compared.
MaterialDirectoryHolds(n) ==
    /\ Exists(Material) /\ tree[Material].kind = "dir" /\ tree[Material].own /\ tree[Material].mode # "shared"
    /\ same_filesystem_identity(n, tree[Material])

\* The digests that must be found, if the operation knows them.
Expected(i) == IF u[i].op = "acquire" THEN <<records[u[i].entry[1].data]>>
               ELSE <<>>

\* The series as it lies there now is the one that was read, and so is its
\* record.
Present(i, files) ==
    /\ \A k \in DOMAIN PatchNames : Exists(PatchFile(k)) /\ tree[PatchFile(k)].data = files[k].data
    /\ u[i].op = "acquire" => Exists(RecordLeaf(i)) /\ tree[RecordLeaf(i)].data = u[i].entry[1].data

\* open_file: the next patch is opened and read.
ReadPatch(i) ==
    LET k == Len(u[i].files) + 1
        files == Append(u[i].files, tree[PatchFile(k)]) IN
    /\ u[i].st = "material" /\ Looks
    /\ IF /\ Exists(Material) /\ MaterialDirectoryHolds(IF k = 1 THEN tree[Material] ELSE u[i].root[1])
          /\ Exists(PatchFile(k)) /\ require_file(tree[PatchFile(k)])
          /\ \A j \in 1..(k - 1) : u[i].files[j].ino # tree[PatchFile(k)].ino
       THEN Alter(i, [u[i] EXCEPT !.files = files, !.root = <<tree[Material]>>,
                                  !.whole = k = Len(PatchNames) /\ Present(i, files),
                                  !.st = IF k = Len(PatchNames) THEN "series" ELSE "material"])
       ELSE Alter(i, Fail(i))

\* What is read is all that is compared with the names.
revalidate_file(k, n) == Named(PatchFile(k), n)

\* After the series: to the record's directory, or back to the record.
AfterSeries(i) ==
    IF u[i].op = "acquire" THEN [u[i] EXCEPT !.st = "acquired"]
    ELSE [u[i] EXCEPT !.st = "start", !.create = u[i].op # "update", !.want = "EX", !.next = "registry"]

\* Mutant: the files are not looked at again after the series is read.
Mutant_acquire_material(i) ==
    /\ u[i].st = "series" /\ Looks
    /\ IF /\ MaterialDirectoryHolds(u[i].root[1])
          /\ \A want \in {Expected(i)[k] : k \in DOMAIN Expected(i)} :
                \A k \in DOMAIN PatchNames : u[i].files[k].data = want[k]
       THEN Alter(i, AfterSeries(i))
       ELSE Alter(i, Fail(i))

\* Every file of the series is what was read, with the digest that the
\* record gives, in the directory that was opened.
acquire_material(i) ==
    /\ u[i].st = "series" /\ Looks
    /\ IF /\ \A k \in DOMAIN PatchNames : revalidate_file(k, u[i].files[k])
          /\ MaterialDirectoryHolds(u[i].root[1])
          /\ \A want \in {Expected(i)[k] : k \in DOMAIN Expected(i)} :
                \A k \in DOMAIN PatchNames : u[i].files[k].data = want[k]
       THEN Alter(i, AfterSeries(i))
       ELSE Alter(i, Fail(i))

acquire_selected_patch_series(i) ==
    /\ u[i].st = "acquired" /\ Looks
    /\ IF Named(RecordLeaf(i), u[i].entry[1]) /\ require_unchanged_directory(i)
       THEN Alter(i, Halt(i, "ok")) ELSE Alter(i, Fail(i))

(***************************************************************************)
(* Publication of a record                                                 *)
(***************************************************************************)
\* encode, then a temporary with the new record.
WriteRecord(i) ==
    /\ u[i].st = "record temp" /\ UNCHANGED <<moves, destroyed>>
    /\ \/ /\ Exists(DirectoryOf(i)) /\ ~Exists(TempLeaf(i))
          /\ tree' = AddEntry(tree, TempLeaf(i), Made("file", "private", fresh))
          /\ records' = Put(records, fresh, [k \in DOMAIN PatchNames |-> u[i].files[k].data])
          /\ fresh' = fresh + 1
          /\ Alter(i, [u[i] EXCEPT !.st = "record check", !.temp = <<tree'[TempLeaf(i)]>>])
       \/ Alter(i, Fail(i)) /\ UNCHANGED <<tree, fresh, records>>

\* The generated series is acquired once more, the directory, the temporary
\* and the record are compared.
CheckRecord(i) ==
    /\ u[i].st = "record check" /\ Looks
    /\ IF /\ u[i].op = "generate" =>
                \A k \in DOMAIN PatchNames : Exists(PatchFile(k)) /\ require_file(tree[PatchFile(k)])
                                             /\ tree[PatchFile(k)].data = u[i].files[k].data
          /\ require_unchanged_directory(i) /\ Named(TempLeaf(i), u[i].temp[1])
          /\ IF u[i].entry = <<>> THEN ~Exists(RecordLeaf(i)) ELSE Named(RecordLeaf(i), u[i].entry[1])
       THEN Alter(i, [u[i] EXCEPT !.st = "record publish",
                                  !.whole = IF u[i].op = "generate" THEN Present(i, u[i].files) ELSE u[i].whole])
       ELSE Alter(i, Fail(i))

PublishRecord(i) ==
    /\ u[i].st = "record publish" /\ UNCHANGED <<moves, records, destroyed>>
    /\ \/ /\ Exists(TempLeaf(i)) /\ (Exists(RecordLeaf(i)) <=> u[i].entry # <<>>)
          /\ tree' = IF u[i].entry # <<>> THEN Exchanged(TempLeaf(i), RecordLeaf(i))
                     ELSE Relocated(TempLeaf(i), RecordLeaf(i))
          /\ fresh' = fresh + 1
          /\ Alter(i, [u[i] EXCEPT !.st = "record verify", !.published = TRUE])
       \/ Alter(i, Fail(i)) /\ UNCHANGED <<tree, fresh>>

\* revalidate_file after a rename.
revalidate_renamed(p, n) ==
    /\ Exists(p) /\ same_state(tree[p], Descriptor(n)) /\ same_relocated_state(n, Descriptor(n))

\* The new record under its name, the old one under the temporary's, with
\* the text that was read before; then the old one is unlinked.
VerifyRecord(i) ==
    /\ u[i].st = "record verify" /\ UNCHANGED <<moves, records>>
    /\ IF /\ require_unchanged_directory(i) /\ revalidate_renamed(RecordLeaf(i), u[i].temp[1])
          /\ u[i].entry # <<>> => revalidate_renamed(TempLeaf(i), u[i].entry[1])
       THEN /\ Moves(i, "record final")
            /\ IF u[i].entry = <<>> THEN UNCHANGED <<tree, fresh, destroyed>>
               ELSE Destroy(i, TempLeaf(i), FALSE, {u[i].previous[1].data}) /\ fresh' = fresh + 1
       ELSE Alter(i, Fail(i)) /\ UNCHANGED <<tree, fresh, destroyed>>

\* After the synchronization, which may fail, the record is read again.
publish(i) ==
    /\ u[i].st = "record final" /\ Looks
    /\ \/ /\ require_unchanged_directory(i) /\ Exists(RecordLeaf(i)) /\ require_record_file(tree[RecordLeaf(i)])
          /\ tree[RecordLeaf(i)].data = u[i].temp[1].data /\ tree[RecordLeaf(i)].ino = u[i].temp[1].ino
          /\ \A p \in ChildrenOf(tree, DirectoryOf(i)) : ~IsResidue(p)
          /\ Alter(i, Halt(i, "ok"))
       \/ Alter(i, Fail(i))

\* A temporary of a record is taken back when the name still is our object.
TakeBack(i) ==
    /\ u[i].st = "unwind" /\ Alter(i, Halt(i, "failed")) /\ UNCHANGED <<moves, records>>
    /\ LET p == IF u[i].held = <<>> THEN GeneratedTemp(i) ELSE TempLeaf(i) IN
       IF /\ u[i].held = <<>> \/ require_unchanged_directory(i)
          /\ Exists(p) /\ same_filesystem_identity(tree[p], u[i].temp[1])
       THEN Destroy(i, p, tree[p].id = u[i].temp[1].id, {}) /\ fresh' = fresh + 1
       ELSE UNCHANGED <<tree, fresh, destroyed>>

(***************************************************************************)
(* Forgetting                                                              *)
(***************************************************************************)
CheckForget(i) ==
    /\ u[i].st = "forget check" /\ Looks
    /\ IF require_unchanged_directory(i) /\ Named(RecordLeaf(i), u[i].entry[1])
       THEN Moves(i, "forget move") ELSE Alter(i, Fail(i))

MoveRecord(i) ==
    /\ u[i].st = "forget move" /\ UNCHANGED <<moves, records, destroyed>>
    /\ \/ /\ Exists(RecordLeaf(i)) /\ ~Exists(TempLeaf(i))
          /\ tree' = Relocated(RecordLeaf(i), TempLeaf(i)) /\ fresh' = fresh + 1
          /\ Alter(i, [u[i] EXCEPT !.st = "forget verify", !.published = TRUE])
       \/ Alter(i, Fail(i)) /\ UNCHANGED <<tree, fresh>>

VerifyForget(i) ==
    /\ u[i].st = "forget verify" /\ UNCHANGED <<moves, records>>
    /\ IF require_unchanged_directory(i) /\ revalidate_renamed(TempLeaf(i), u[i].entry[1])
       THEN /\ Destroy(i, TempLeaf(i), FALSE, {u[i].previous[1].data}) /\ fresh' = fresh + 1
            /\ Moves(i, "forget final")
       ELSE Alter(i, Fail(i)) /\ UNCHANGED <<tree, fresh, destroyed>>

forget_patch_association(i) ==
    /\ u[i].st = "forget final" /\ Looks
    /\ \/ require_unchanged_directory(i) /\ ~Exists(RecordLeaf(i)) /\ Alter(i, Halt(i, "ok"))
       \/ Alter(i, Fail(i))

(***************************************************************************)
(* Generated patches                                                       *)
(***************************************************************************)
\* The destination exists and none of the new files does.
validate_generated_patch_destination(i) ==
    /\ u[i].st = "destination" /\ Looks
    /\ IF /\ Exists(Material) /\ MaterialDirectoryHolds(tree[Material])
          /\ \A k \in DOMAIN PatchNames : ~Exists(PatchFile(k))
       THEN Alter(i, [u[i] EXCEPT !.root = <<tree[Material]>>, !.st = "start"])
       ELSE Alter(i, Halt(i, "failed"))

\* The record is read before every file, here without the steps of its
\* shared lock.
StillUnassociated(i) ==
    /\ \A j \in Invokers \ {i} : u[j].lock # "EX"
    /\ Exists(StoreDirectory("patches.d")) => ~Exists(Append(StoreDirectory("patches.d"), 1))

WriteGenerated(i) ==
    /\ u[i].st = "generate" /\ UNCHANGED <<moves, records, destroyed>>
    /\ \/ /\ MaterialDirectoryHolds(u[i].root[1]) /\ StillUnassociated(i)
          /\ ~Exists(PatchFile(Len(u[i].files) + 1)) /\ ~Exists(GeneratedTemp(i))
          /\ tree' = AddEntry(tree, GeneratedTemp(i), Made("file", "private", fresh)) /\ fresh' = fresh + 1
          /\ Alter(i, [u[i] EXCEPT !.st = "generated", !.temp = <<tree'[GeneratedTemp(i)]>>])
       \/ Alter(i, Fail(i)) /\ UNCHANGED <<tree, fresh>>

PublishGenerated(i) ==
    LET p == PatchFile(Len(u[i].files) + 1) IN
    /\ u[i].st = "generated" /\ UNCHANGED <<moves, records, destroyed>>
    /\ \/ /\ MaterialDirectoryHolds(u[i].root[1]) /\ Named(GeneratedTemp(i), u[i].temp[1]) /\ ~Exists(p)
          /\ tree' = Relocated(GeneratedTemp(i), p) /\ fresh' = fresh + 1
          /\ Alter(i, [u[i] EXCEPT !.st = "generated verify", !.published = TRUE])
       \/ Alter(i, Fail(i)) /\ UNCHANGED <<tree, fresh>>

\* The published file is opened and read again; after the last one the
\* record is written for exactly these digests.
publish_one_generated_recipe_material(i) ==
    LET p == PatchFile(Len(u[i].files) + 1)
        files == Append(u[i].files, u[i].temp[1])
        next == [u[i] EXCEPT !.files = files, !.temp = <<>>, !.published = FALSE] IN
    /\ u[i].st = "generated verify" /\ Looks
    /\ \/ /\ MaterialDirectoryHolds(u[i].root[1]) /\ Exists(p) /\ revalidate_renamed(p, u[i].temp[1])
          /\ Alter(i, IF Len(files) < Len(PatchNames) THEN [next EXCEPT !.st = "generate"]
                      ELSE [next EXCEPT !.st = "reacquire"])
       \/ Alter(i, Halt(i, "uncertain"))

\* register_expected_aur_patch_association acquires the series by its digests.
Reacquire(i) ==
    /\ u[i].st = "reacquire" /\ Looks
    /\ IF /\ MaterialDirectoryHolds(u[i].root[1])
          /\ \A k \in DOMAIN PatchNames : Exists(PatchFile(k)) /\ require_file(tree[PatchFile(k)])
                                          /\ tree[PatchFile(k)].data = u[i].files[k].data
       THEN Alter(i, AfterSeries(i))
       ELSE Alter(i, Halt(i, "failed"))

AssociationStep(i) ==
    /\ u[i].store = "patches.d"
    /\ \/ PrepareDirectory(i) \/ lock_source_preference_directory(i)
       \/ OpenRegistry(i) \/ read_registry(i) \/ SelectRecord(i) \/ ReadPatch(i)
       \/ acquire_material(i) \/ acquire_selected_patch_series(i)
       \/ WriteRecord(i) \/ CheckRecord(i) \/ PublishRecord(i) \/ VerifyRecord(i) \/ publish(i)
       \/ TakeBack(i) \/ CheckForget(i) \/ MoveRecord(i) \/ VerifyForget(i)
       \/ forget_patch_association(i) \/ validate_generated_patch_destination(i)
       \/ WriteGenerated(i) \/ PublishGenerated(i)
       \/ publish_one_generated_recipe_material(i) \/ Reacquire(i)

\* A series that an operation answers, for a build or in a new record, was
\* the user's at one moment: all its files, and for a build the record, were
\* there with that content at the same time.
AcquiredSeriesExisted ==
    \A i \in Invokers : u[i].store = "patches.d" /\ u[i].op \in {"acquire", "register", "update", "generate"}
                        /\ u[i].out = "ok" => u[i].whole
=============================================================================
