-------------------------- MODULE SourcePreference --------------------------
(***************************************************************************)
(* source_preference.cpp and its commands: the entry of a package in       *)
(* sources.d is read under a shared lock, and created, replaced or removed *)
(* under an exclusive one.  The lock binds moguet only: an editor of the   *)
(* user writes where it likes, so every step compares states, and what a   *)
(* rename displaced is looked at before it is unlinked.                    *)
(*                                                                         *)
(* Operations: read, list, snapshot, add (create, then append), create,    *)
(* append, promote, edit, remove, revert.                                  *)
(***************************************************************************)
EXTENDS UserDirectory

CONSTANT Drafts        \* the directory of the files given to the editor

Entry(i) == Append(DirectoryOf(i), 1)
Draft(i) == Append(Drafts, i)

Preference(op, env) ==
    [Invocation(op, "sources.d", env) EXCEPT
        !.create = op \in {"add", "create", "append", "promote"},
        !.want = IF op \in {"promote", "remove", "revert"} THEN "EX" ELSE "SH",
        !.next = CASE op = "promote" -> "expect" [] op \in {"list", "snapshot"} -> "enumerate"
                   [] OTHER -> "inspect",
        !.st = IF op = "revert" THEN "query" ELSE "start"]

\* cmd_add_src: a package that was created gets its assignments.
cmd_add_src(i) == Preference("append", u[i].env)

Finish(i) == IF u[i].op = "add" THEN cmd_add_src(i) ELSE Halt(i, "ok")

\* The shared lock is released, the exclusive one is taken.
ToReplace(i) == [u[i] EXCEPT !.st = "lock", !.lock = "none", !.want = "EX", !.next = "expect"]

(***************************************************************************)
(* Reading                                                                 *)
(***************************************************************************)
\* Absent or acceptable, in the directory that was opened.
inspect_source_preference_entry(i) ==
    require_unchanged_directory(i) /\ (Exists(Entry(i)) => validate_entry_status(tree[Entry(i)]))

\* cmd_revert: nothing is removed while the repositories cannot be asked.
cmd_revert(i) ==
    /\ u[i].st = "query" /\ Looks
    /\ \/ Moves(i, "start")
       \/ Alter(i, Halt(i, "failed"))

\* A name that is not a package name makes the listing fail; so does, when
\* it is inspected, a file that is not moguet's.
enumerate_source_preference_names(i) ==
    /\ u[i].st = "enumerate" /\ Looks
    /\ LET found == ChildrenOf(tree, DirectoryOf(i)) IN
       IF require_unchanged_directory(i) /\ found \subseteq {Entry(i)}
       THEN IF found = {} THEN Alter(i, Halt(i, "ok")) ELSE Moves(i, "inspect")
       ELSE Alter(i, Fail(i))

\* What an operation does when the entry, or its directory, is not there.
WhenAbsent(i) ==
    CASE u[i].op \in {"add", "create", "append"} -> ToReplace(i)
      [] u[i].op = "edit" -> [u[i] EXCEPT !.st = "draft", !.lock = "none"]
      [] u[i].op \in {"list", "snapshot"} -> IF u[i].st = "absent" THEN Halt(i, "ok") ELSE Fail(i)
      [] OTHER -> Halt(i, "absent")

InspectEntry(i) ==
    /\ u[i].st \in {"inspect", "absent"} /\ Looks
    /\ IF u[i].st = "inspect" /\ ~inspect_source_preference_entry(i) THEN Alter(i, Fail(i))
       ELSE IF u[i].st = "inspect" /\ Exists(Entry(i))
            THEN Alter(i, [u[i] EXCEPT !.st = "open", !.entry = <<tree[Entry(i)]>>])
            ELSE Alter(i, WhenAbsent(i))

\* The descriptor and, once more, the name show what was inspected.
open_source_preference_entry(i) ==
    /\ u[i].st = "open" /\ Looks
    /\ IF inspect_source_preference_entry(i) /\ Named(Entry(i), u[i].entry[1])
       THEN CASE u[i].op \in {"add", "create", "snapshot"} -> Alter(i, Finish(i))
              [] u[i].op \in {"remove", "revert"} -> Moves(i, "doomed")
              [] OTHER -> Moves(i, "read")
       ELSE Alter(i, Fail(i))

ReadBytes(i) ==
    /\ u[i].st = "read" /\ Looks
    /\ Alter(i, [u[i] EXCEPT !.st = "reread", !.content = <<Descriptor(u[i].entry[1]).data>>])

read_source_preference_contents(i) ==
    /\ u[i].st = "reread" /\ Looks
    /\ IF inspect_source_preference_entry(i) /\ Named(Entry(i), u[i].entry[1])
       THEN CASE u[i].op = "append" -> Alter(i, ToReplace(i))
              [] u[i].op = "edit" -> Alter(i, [u[i] EXCEPT !.st = "draft", !.lock = "none"])
              [] OTHER -> Alter(i, Halt(i, "ok"))
       ELSE Alter(i, Fail(i))

(***************************************************************************)
(* Editing, without a lock                                                 *)
(***************************************************************************)
MakeDraft(i) ==
    /\ u[i].st = "draft" /\ UNCHANGED <<moves, records, destroyed>>
    /\ \/ /\ Exists(Drafts) /\ ~Exists(Draft(i))
          /\ tree' = AddEntry(tree, Draft(i),
                              Made("file", "private", IF u[i].content = <<>> THEN 0 ELSE u[i].content[1]))
          /\ fresh' = fresh + 1 /\ Moves(i, "editor")
       \/ Alter(i, Halt(i, "failed")) /\ UNCHANGED <<tree, fresh>>

\* The editor fails, or leaves a new text.
Editor(i) ==
    /\ u[i].st = "editor" /\ UNCHANGED <<moves, records, destroyed>>
    /\ \/ Alter(i, Halt(i, "failed")) /\ UNCHANGED <<tree, fresh>>
       \/ /\ Exists(Drafts) /\ fresh' = fresh + 1 /\ Moves(i, "edited")
          /\ tree' = IF Exists(Draft(i)) THEN Changed(tree, Draft(i), [tree[Draft(i)] EXCEPT !.data = fresh])
                     ELSE AddEntry(tree, Draft(i), Made("file", "private", fresh))

\* replace_source_preference_entry_from_descriptor starts from the state of
\* the edited file, and prepares the directory anew.
cmd_edit_src(i) ==
    /\ u[i].st = "edited" /\ Looks
    /\ IF Exists(Draft(i)) /\ tree[Draft(i)].kind = "file"
       THEN Alter(i, [u[i] EXCEPT !.draft = <<tree[Draft(i)]>>, !.st = "start", !.held = <<>>,
                                  !.create = TRUE, !.want = "EX", !.next = "expect"])
       ELSE Alter(i, Halt(i, "failed"))

\* The draft is still the file that was opened.
require_descriptor_state_unchanged(i) ==
    u[i].op = "edit" => same_state(u[i].draft[1], Descriptor(u[i].draft[1]))

\* The draft is unlinked when its descriptor and its name are unchanged.
RemoveDraft(i) ==
    /\ u[i].st = "settled" /\ UNCHANGED <<moves, records>>
    /\ IF require_descriptor_state_unchanged(i) /\ Named(Draft(i), u[i].draft[1])
       THEN /\ Destroy(i, Draft(i), FALSE, {u[i].temp[1].data}) /\ fresh' = fresh + 1
            /\ Alter(i, Halt(i, "ok"))
       ELSE Alter(i, Halt(i, "failed")) /\ UNCHANGED <<tree, fresh, destroyed>>

(***************************************************************************)
(* Replacement                                                             *)
(***************************************************************************)
\* Under the exclusive lock the entry must be what the operation has read;
\* create and promote know no entry.
ExpectEntry(i) ==
    /\ u[i].st = "expect" /\ Looks
    /\ IF /\ inspect_source_preference_entry(i)
          /\ Exists(Entry(i)) <=> u[i].entry # <<>>
          /\ Exists(Entry(i)) => Named(Entry(i), u[i].entry[1])
       THEN Moves(i, "temp")
       ELSE Alter(i, Fail(i))

\* A temporary of our own; its name is new.
MakeTemporary(i) ==
    /\ u[i].st = "temp" /\ UNCHANGED <<moves, records, destroyed>>
    /\ \/ /\ Exists(DirectoryOf(i)) /\ ~Exists(TempLeaf(i))
          /\ tree' = AddEntry(tree, TempLeaf(i), Made("file", "private", 0)) /\ fresh' = fresh + 1
          /\ Alter(i, [u[i] EXCEPT !.st = "write", !.temp = <<tree'[TempLeaf(i)]>>])
       \/ Alter(i, Fail(i)) /\ UNCHANGED <<tree, fresh>>

\* write_all and copy_descriptor_contents: the new text holds what was read
\* and the assignment, or it is the draft.
WriteTemporary(i) ==
    /\ u[i].st = "write" /\ UNCHANGED <<moves, records, destroyed>>
    /\ \/ /\ require_descriptor_state_unchanged(i)
          /\ LET text == IF u[i].op = "edit" THEN u[i].draft[1].data ELSE fresh
                 file == [Descriptor(u[i].temp[1]) EXCEPT !.data = text, !.stamp = fresh] IN
             /\ tree' = IF Exists(TempLeaf(i)) /\ tree[TempLeaf(i)].id = file.id
                        THEN Put(tree, TempLeaf(i), file) ELSE tree
             /\ Alter(i, [u[i] EXCEPT !.st = "check", !.temp = <<file>>])
          /\ fresh' = fresh + 1
       \/ Alter(i, Fail(i)) /\ UNCHANGED <<tree, fresh>>

require_expected_destination(i) ==
    /\ inspect_source_preference_entry(i)
    /\ IF u[i].entry = <<>> THEN ~Exists(Entry(i)) ELSE Named(Entry(i), u[i].entry[1])

\* The last look: destination, temporary, retained entry and draft.
CheckReplacement(i) ==
    /\ u[i].st = "check" /\ Looks
    /\ IF /\ require_expected_destination(i) /\ validate_entry_status(u[i].temp[1])
          /\ Named(TempLeaf(i), u[i].temp[1]) /\ require_descriptor_state_unchanged(i)
       THEN Moves(i, "publish")
       ELSE Alter(i, Fail(i))

\* The rename itself replaces whatever bears the name at that moment: an
\* entry is exchanged, an absent one is filled.
PublishReplacement(i) ==
    /\ u[i].st = "publish" /\ UNCHANGED <<moves, records, destroyed>>
    /\ \/ /\ Exists(TempLeaf(i)) /\ (Exists(Entry(i)) <=> u[i].entry # <<>>)
          /\ tree' = IF u[i].entry # <<>> THEN Exchanged(TempLeaf(i), Entry(i))
                     ELSE Relocated(TempLeaf(i), Entry(i))
          /\ fresh' = fresh + 1
          /\ Alter(i, [u[i] EXCEPT !.st = "verify", !.published = TRUE])
       \/ Alter(i, Fail(i)) /\ UNCHANGED <<tree, fresh>>

\* A descriptor, its name, and the file as it was before the rename.
Arrived(p, n) ==
    /\ Exists(p) /\ same_state(tree[p], Descriptor(n)) /\ same_relocated_state(n, Descriptor(n))

\* Mutant: the displaced file is not compared with the entry that was read.
Mutant_VerifyReplacement(i) ==
    /\ u[i].st = "verify" /\ Looks
    /\ IF Arrived(Entry(i), u[i].temp[1]) /\ (u[i].entry # <<>> => Exists(TempLeaf(i)))
       THEN Alter(i, [u[i] EXCEPT !.st = IF u[i].entry = <<>> THEN "final" ELSE "drop",
                                  !.temp = <<tree[Entry(i)]>>,
                                  !.entry = IF u[i].entry = <<>> THEN <<>> ELSE <<tree[TempLeaf(i)]>>])
       ELSE Alter(i, Fail(i))

\* Both names must show what they were meant to; otherwise all is kept.
VerifyReplacement(i) ==
    /\ u[i].st = "verify" /\ Looks
    /\ IF Arrived(Entry(i), u[i].temp[1]) /\ (u[i].entry # <<>> => Arrived(TempLeaf(i), u[i].entry[1]))
       THEN Alter(i, [u[i] EXCEPT !.st = IF u[i].entry = <<>> THEN "final" ELSE "drop",
                                  !.temp = <<tree[Entry(i)]>>,
                                  !.entry = IF u[i].entry = <<>> THEN <<>> ELSE <<tree[TempLeaf(i)]>>])
       ELSE Alter(i, Fail(i))

\* What the operation knows of the file it displaced.
Known(i) == IF u[i].op \in {"remove", "revert"} THEN {u[i].previous[1].data}
            ELSE {u[i].content[k] : k \in DOMAIN u[i].content}

remove_internal_entry_if_descriptor_matches(i, then) ==
    /\ u[i].st = "drop" /\ UNCHANGED <<moves, records>>
    /\ IF Named(TempLeaf(i), u[i].entry[1])
       THEN /\ Destroy(i, TempLeaf(i), FALSE, Known(i)) /\ fresh' = fresh + 1
            /\ Moves(i, then)
       ELSE Alter(i, Fail(i)) /\ UNCHANGED <<tree, fresh, destroyed>>

\* The published name once more, then the directory is synchronized.
FinalCheck(i) ==
    /\ u[i].st = "final" /\ Looks
    /\ \/ /\ inspect_source_preference_entry(i) /\ Named(Entry(i), u[i].temp[1])
          /\ Alter(i, IF u[i].op = "edit" THEN [u[i] EXCEPT !.st = "settled", !.lock = "none"] ELSE Finish(i))
       \/ Alter(i, Fail(i))

(***************************************************************************)
(* Removal                                                                 *)
(***************************************************************************)
CheckRemoval(i) ==
    /\ u[i].st = "doomed" /\ Looks
    /\ IF require_expected_destination(i)
       THEN Alter(i, [u[i] EXCEPT !.st = "bury", !.previous = u[i].entry])
       ELSE Alter(i, Fail(i))

\* The entry is moved to a new name, whatever it is by now.
BuryEntry(i) ==
    /\ u[i].st = "bury" /\ UNCHANGED <<moves, records, destroyed>>
    /\ \/ /\ Exists(Entry(i)) /\ ~Exists(TempLeaf(i))
          /\ tree' = Relocated(Entry(i), TempLeaf(i)) /\ fresh' = fresh + 1
          /\ Alter(i, [u[i] EXCEPT !.st = "tombstone", !.published = TRUE])
       \/ Alter(i, Fail(i)) /\ UNCHANGED <<tree, fresh>>

VerifyTombstone(i) ==
    /\ u[i].st = "tombstone" /\ Looks
    /\ IF Arrived(TempLeaf(i), u[i].entry[1])
       THEN Alter(i, [u[i] EXCEPT !.st = "drop", !.entry = <<tree[TempLeaf(i)]>>])
       ELSE Alter(i, Fail(i))

\* An entry that came meanwhile makes the removal fail.
RemovalDone(i) ==
    /\ u[i].st = "removed" /\ Looks
    /\ \/ inspect_source_preference_entry(i) /\ ~Exists(Entry(i)) /\ Alter(i, Halt(i, "ok"))
       \/ Alter(i, Fail(i))

ReadStep(i) ==
    \/ cmd_revert(i) \/ enumerate_source_preference_names(i) \/ InspectEntry(i)
    \/ open_source_preference_entry(i) \/ ReadBytes(i) \/ read_source_preference_contents(i)

ReplaceStep(i) ==
    \/ MakeDraft(i) \/ Editor(i) \/ cmd_edit_src(i) \/ RemoveDraft(i) \/ ExpectEntry(i)
    \/ MakeTemporary(i) \/ WriteTemporary(i) \/ CheckReplacement(i) \/ PublishReplacement(i)
    \/ VerifyReplacement(i) \/ FinalCheck(i)

RemoveStep(i) == CheckRemoval(i) \/ BuryEntry(i) \/ VerifyTombstone(i) \/ RemovalDone(i)

PreferenceStep(i) ==
    /\ u[i].store = "sources.d"
    /\ \/ PrepareDirectory(i) \/ lock_source_preference_directory(i)
       \/ ReadStep(i) \/ ReplaceStep(i) \/ RemoveStep(i) \/ RemoveTemp(i)
       \/ remove_internal_entry_if_descriptor_matches(i,
              IF u[i].op \in {"remove", "revert"} THEN "removed" ELSE "final")

\* What moguet unlinks in the user's directories is its own temporary, or a
\* file whose last content the operation had read or judged: an edit by
\* another process that slips in before the rename is never lost.
NothingUnseenDestroyed == \A d \in destroyed : d.ours \/ d.data \in d.seen
=============================================================================
