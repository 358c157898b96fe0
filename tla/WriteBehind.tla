---------------------------- MODULE WriteBehind ----------------------------
(***************************************************************************)
(* The saving of the key-value store (engine/src/builtins/kv.rs) and of the *)
(* queue's lists and sorted sets (queue_kv.rs): a mutation changes memory   *)
(* under one lock and marks its file dirty under another, and save loops    *)
(* drain the marks, take a snapshot and write it.  A crash leaves the files *)
(* only.  What is in a file is left to the module that extends this one.    *)
(***************************************************************************)
EXTENDS Naturals, FiniteSets

CONSTANTS
    File,       \* the files: one per index of the store, lists, sorted sets
    Writer,     \* tasks that mutate the store, one operation at a time
    Loop,       \* save loops; reconfigure starts another beside the old one
    Serves,     \* Serves[l]: the files loop l saves
    NoFile

ASSUME SaveAssumption ==
    /\ Serves \in [Loop -> SUBSET File] /\ NoFile \notin File
    /\ \A f \in File : \E l \in Loop : f \in Serves[l]

VARIABLES
    mem, disk,  \* mem[f], disk[f]: the content in memory and in the file
    dirty,      \* the marks
    owes,       \* owes[w]: mutated by w and not marked yet
    todo,       \* todo[l]: the rest of the batch that l drained
    saving,     \* saving[l]: the file l is writing
    snap        \* snap[l]: what it writes

saveVars == <<mem, disk, dirty, owes, todo, saving, snap>>

----------------------------------------------------------------------------
(* A mutation, and its mark once the store's lock is released. *)
put(w, f, v) ==
    /\ owes[w] = {}
    /\ mem' = [mem EXCEPT ![f] = v]
    /\ owes' = [owes EXCEPT ![w] = {f}]
    /\ UNCHANGED <<disk, dirty, todo, saving, snap>>

\* Faulty variant: the mark is forgotten.
markForgotten(w) ==
    /\ owes[w] # {}
    /\ owes' = [owes EXCEPT ![w] = {}]
    /\ UNCHANGED <<mem, disk, dirty, todo, saving, snap>>

mark(w) ==
    /\ owes[w] # {}
    /\ dirty' = dirty \cup owes[w]
    /\ owes' = [owes EXCEPT ![w] = {}]
    /\ UNCHANGED <<mem, disk, todo, saving, snap>>

----------------------------------------------------------------------------
Busy(l) == todo[l] # {} \/ saving[l] # NoFile
Free(l) == \A m \in Loop : Serves[m] \cap Serves[l] # {} => ~Busy(m)

(* A tick: the loop takes the marks of its files, holding flush_lock from    *)
(* before it looks until its batch is written.                              *)
Drain(l) ==
    /\ Free(l) /\ dirty \cap Serves[l] # {}
    /\ todo' = [todo EXCEPT ![l] = dirty \cap Serves[l]]
    /\ dirty' = dirty \ Serves[l]
    /\ UNCHANGED <<mem, disk, owes, saving, snap>>

Snapshot(l, f) ==
    /\ f \in todo[l] /\ saving[l] = NoFile
    /\ todo' = [todo EXCEPT ![l] = @ \ {f}]
    /\ saving' = [saving EXCEPT ![l] = f]
    /\ snap' = [snap EXCEPT ![l] = mem[f]]
    /\ UNCHANGED <<mem, disk, dirty, owes>>

endSave(l) ==
    /\ saving' = [saving EXCEPT ![l] = NoFile]
    /\ snap' = [snap EXCEPT ![l] = NoFile]

(* The temporary file is written and renamed, or an empty index's file is   *)
(* deleted.                                                                 *)
Write(l) ==
    /\ saving[l] # NoFile
    /\ disk' = [disk EXCEPT ![saving[l]] = snap[l]]
    /\ endSave(l)
    /\ UNCHANGED <<mem, dirty, owes, todo>>

WriteFails(l) ==
    /\ saving[l] # NoFile
    /\ dirty' = dirty \cup {saving[l]}
    /\ endSave(l)
    /\ UNCHANGED <<mem, disk, owes, todo>>

SaveFile(l) == (\E f \in File : Snapshot(l, f)) \/ Write(l) \/ WriteFails(l)

(* The process ends and the next one loads the files. *)
reload ==
    /\ mem' = disk
    /\ dirty' = {}
    /\ owes' = [w \in Writer |-> {}] /\ todo' = [l \in Loop |-> {}]
    /\ saving' = [l \in Loop |-> NoFile] /\ snap' = [l \in Loop |-> NoFile]
    /\ UNCHANGED disk

SaveInit ==
    /\ mem = disk /\ disk = [f \in File |-> disk[f]]
    /\ dirty = {} /\ owes = [w \in Writer |-> {}]
    /\ todo = [l \in Loop |-> {}] /\ saving = [l \in Loop |-> NoFile]
    /\ snap = [l \in Loop |-> NoFile]

SaveNext ==
    \/ \E w \in Writer : mark(w) \/ \E f \in File : put(w, f, mem'[f])
    \/ \E l \in Loop : Drain(l) \/ SaveFile(l)
    \/ reload

SaveSpec == SaveInit /\ [][SaveNext]_saveVars

----------------------------------------------------------------------------
SaveTypeOK ==
    /\ mem = [f \in File |-> mem[f]] /\ disk = [f \in File |-> disk[f]]
    /\ dirty \subseteq File /\ owes \in [Writer -> SUBSET File]
    /\ todo \in [Loop -> SUBSET File] /\ saving \in [Loop -> File \cup {NoFile}]
    /\ snap = [l \in Loop |-> snap[l]]

(* No change is forgotten by the saving: when a file differs from memory,   *)
(* it is marked, about to be marked, waiting in a batch, or being written   *)
(* with the current content, although marks, snapshots and mutations are    *)
(* under different locks (queue_kv.rs save_loop, kv.rs flush_dirty).        *)
WillBeSaved(f) ==
    \/ f \in dirty
    \/ \E w \in Writer : f \in owes[w]
    \/ \E l \in Loop : f \in todo[l] \/ (saving[l] = f /\ snap[l] = mem[f])
NoChangeForgotten == \A f \in File : mem[f] # disk[f] => WillBeSaved(f)
============================================================================
