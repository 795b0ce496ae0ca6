------------------------------ MODULE Session ------------------------------
(***************************************************************************)
(* Opening and closing a database path: connect and Database.close of      *)
(* caracaldb/api.py, pack_bundle, unpack_bundle and is_packed of           *)
(* caracaldb/storage/pack.py.                                              *)
(*                                                                         *)
(* A directory bundle is worked on in place.  A packed file is unpacked to *)
(* a working directory of the handle's own, and closing the handle removes *)
(* the file, packs the working directory into a new one and removes the    *)
(* working directory.  Every handle is a process here: handles interleave, *)
(* may die at any step, and packing may fail.                              *)
(*                                                                         *)
(* The content of a bundle is its rows and its write clock: a row is the   *)
(* number of the write and the LSN it was stamped with.                    *)
(***************************************************************************)
EXTENDS Integers, FiniteSets

CONSTANTS
    Handles,
    Formats,    \* the formats that connect is asked for
    MaxWrites,  \* bound on the number of writes
    MaxFaults,  \* bound on deaths and failures
    None

(* A copy of the database, and a handle with its step of closing.              *)
Data == [rows : SUBSET (Nat \X Nat), clock : Nat]
Steps == {"open", "pack", "create", "write", "remove"}
HandleSet == [pc : Steps, kind : {"dir", "packed"}, mode : {"rw", "ro"}, clock : Nat, data : Data]

ASSUME SessionConstants ==
    /\ MaxWrites \in Nat /\ MaxFaults \in Nat /\ Formats \subseteq {"auto", "packed", "bundle"}
    /\ Handles # {} /\ None \notin HandleSet

VARIABLES
    path,       \* what is at the path: [kind, data, by], by: handles writing to it
    hd,         \* the handles: None, or [pc, kind, mode, clock, data]
    left,       \* contents of working directories nobody will remove
    writes,     \* the number of writes
    stored,     \* history: the writes through read-write handles, as rows
    faults,     \* deaths and failures so far
    overlap     \* history: two handles were open at once

vars == <<path, hd, left, writes, stored, faults, overlap>>

Blank == [rows |-> {}, clock |-> 0]

(* zip: a packed file; partial: a packed file that does not unpack; broken: a  *)
(* file without its central directory, which is_packed does not accept.        *)
Missing == [kind |-> "none", data |-> Blank, by |-> {}]
At(kind, data) == [kind |-> kind, data |-> data, by |-> {}]
Exists == path.kind # "none"
IsPacked == path.kind \in {"zip", "partial"}
Unpacks == IsPacked /\ path.kind # "partial"

Live == {h \in Handles : hd[h] # None}
Opened(h) == h \in Live /\ hd[h].pc = "open"

Handle(kind, mode, data) == [pc |-> "open", kind |-> kind, mode |-> mode, clock |-> data.clock, data |-> data]

Init ==
    /\ path = Missing /\ hd = [h \in Handles |-> None] /\ left = {}
    /\ writes = 0 /\ stored = {} /\ faults = 0 /\ overlap = FALSE

-----------------------------------------------------------------------------
Connected(h, handle) ==
    /\ hd' = [hd EXCEPT ![h] = handle]
    /\ overlap' = (overlap \/ Live # {})
    /\ UNCHANGED <<left, writes, stored, faults>>

(* _connect_bundle, for a directory that is there or for none: in both modes a *)
(* missing bundle is created when the format is "bundle".                      *)
ConnectBundle(h, format, mode) ==
    /\ hd[h] = None
    /\ \/ path.kind = "dir" /\ format \in {"auto", "bundle"}
          /\ UNCHANGED path /\ Connected(h, Handle("dir", mode, path.data))
       \/ ~Exists /\ format = "bundle"
          /\ path' = At("dir", Blank) /\ Connected(h, Handle("dir", mode, Blank))

(* _connect_packed: a file that unpacks; otherwise connect raises.             *)
ConnectPacked(h, format, mode) ==
    /\ hd[h] = None /\ Unpacks /\ format \in {"auto", "packed"}
    /\ UNCHANGED path /\ Connected(h, Handle("packed", mode, path.data))

(* _connect_new_packed: nothing is at the path until the handle is closed.     *)
ConnectNewPacked(h, format, mode) ==
    /\ hd[h] = None /\ ~Exists /\ format \in {"auto", "packed"} /\ mode = "rw"
    /\ UNCHANGED path /\ Connected(h, Handle("packed", mode, Blank))

(* connect raises: a file that is no packed file or does not unpack, a format  *)
(* that does not fit what is there, nothing to read in read-only mode.         *)
ConnectRaises(h, format, mode) ==
    /\ hd[h] = None
    /\ \/ Exists /\ path.kind # "dir" /\ ~Unpacks
       \/ path.kind = "dir" /\ format = "packed"
       \/ path.kind = "zip" /\ format = "bundle"
       \/ ~Exists /\ format # "bundle" /\ mode = "ro"
    /\ UNCHANGED vars

MutStamped(d, row, clock) == [rows |-> d.rows \cup {row}, clock |-> d.clock]
Stamped(d, row, clock) == [rows |-> d.rows \cup {row}, clock |-> clock]

(* A write: _next_lsn advances the handle's copy of the clock and saves it, and *)
(* the row is stamped with it.  The mode of the handle is not looked at.        *)
Write(h) ==
    /\ Opened(h) /\ writes < MaxWrites
    /\ hd[h].kind = "dir" => path.kind = "dir"
    /\ LET lsn == hd[h].clock + 1
           row == <<writes + 1, lsn>>
       IN /\ writes' = writes + 1
          /\ IF hd[h].kind = "dir"
             THEN /\ path' = [path EXCEPT !.data = Stamped(@, row, lsn)]
                  /\ hd' = [hd EXCEPT ![h].clock = lsn]
             ELSE /\ hd' = [hd EXCEPT ![h].clock = lsn, ![h].data = Stamped(@, row, lsn)]
                  /\ UNCHANGED path
          /\ stored' = IF hd[h].mode = "rw" THEN stored \cup {row} ELSE stored
    /\ UNCHANGED <<left, faults, overlap>>

-----------------------------------------------------------------------------
Goto(h, pc) == hd' = [hd EXCEPT ![h].pc = pc]
Rest == UNCHANGED <<writes, stored, overlap>>

(* close of a directory handle, and of a read-only packed one, whose working   *)
(* directory is removed with what was written to it.                           *)
CloseKept(h) ==
    /\ Opened(h) /\ (hd[h].kind = "dir" \/ hd[h].mode = "ro")
    /\ hd' = [hd EXCEPT ![h] = None]
    /\ UNCHANGED <<path, left, faults>> /\ Rest

MutClosePacked(h) ==
    /\ Opened(h) /\ hd[h].kind = "packed"
    /\ Goto(h, "pack") /\ path' = IF Exists THEN Missing ELSE path
    /\ UNCHANGED <<left, faults>> /\ Rest

(* close of a read-write packed handle, first the old file.  Removing a        *)
(* directory fails: the error leaves close, and the working directory stays.   *)
ClosePacked(h) ==
    /\ Opened(h) /\ hd[h].kind = "packed" /\ hd[h].mode = "rw"
    /\ IF path.kind = "dir"
       THEN /\ hd' = [hd EXCEPT ![h] = None] /\ left' = left \cup {hd[h].data} /\ UNCHANGED path
       ELSE /\ Goto(h, "pack") /\ path' = Missing /\ UNCHANGED left
    /\ UNCHANGED faults /\ Rest

(* pack_bundle: an error if something is at the path by now.                   *)
PackCheck(h) ==
    /\ h \in Live /\ hd[h].pc = "pack"
    /\ IF Exists THEN hd' = [hd EXCEPT ![h] = None] /\ left' = left \cup {hd[h].data}
                 ELSE Goto(h, "create") /\ UNCHANGED left
    /\ UNCHANGED <<path, faults>> /\ Rest

(* The file is created, or emptied if it appeared after the check.             *)
PackOpen(h) ==
    /\ h \in Live /\ hd[h].pc = "create"
    /\ IF path.kind = "dir"
       THEN hd' = [hd EXCEPT ![h] = None] /\ left' = left \cup {hd[h].data} /\ UNCHANGED path
       ELSE /\ path' = [kind |-> "broken", data |-> Blank, by |-> path.by \cup {h}]
            /\ Goto(h, "write") /\ UNCHANGED left
    /\ UNCHANGED faults /\ Rest

(* The central directory is written.  A file that was removed meanwhile is     *)
(* lost; one that two handles wrote holds the one, or a mixture of both.       *)
Finished(h, kinds, data) ==
    IF h \notin path.by THEN UNCHANGED path
    ELSE \E k \in (IF path.by = {h} THEN kinds ELSE {"zip", "partial"}) :
            path' = [kind |-> k, data |-> IF k = "zip" THEN data ELSE Blank, by |-> path.by \ {h}]

PackDone(h) ==
    /\ h \in Live /\ hd[h].pc = "write"
    /\ Finished(h, {"zip"}, hd[h].data)
    /\ Goto(h, "remove") /\ UNCHANGED <<left, faults>> /\ Rest

MutPackFails(h) ==
    /\ h \in Live /\ hd[h].pc = "write" /\ faults < MaxFaults
    /\ \E part \in SUBSET hd[h].data.rows : Finished(h, {"zip", "partial"}, [hd[h].data EXCEPT !.rows = part])
    /\ hd' = [hd EXCEPT ![h] = None]
    /\ faults' = faults + 1 /\ UNCHANGED left /\ Rest

(* An error while a file is added.  Leaving the with block still writes the    *)
(* central directory: the file is a packed file of what was added so far, with *)
(* the manifest or without.  The working directory stays.                      *)
PackFails(h) ==
    /\ h \in Live /\ hd[h].pc = "write" /\ faults < MaxFaults
    /\ \E part \in SUBSET hd[h].data.rows : Finished(h, {"zip", "partial"}, [hd[h].data EXCEPT !.rows = part])
    /\ hd' = [hd EXCEPT ![h] = None] /\ left' = left \cup {hd[h].data}
    /\ faults' = faults + 1 /\ Rest

(* rmtree of the working directory.                                            *)
CloseDone(h) ==
    /\ h \in Live /\ hd[h].pc = "remove"
    /\ hd' = [hd EXCEPT ![h] = None] /\ UNCHANGED <<path, left, faults>> /\ Rest

(* The process dies: its working directory stays, and so does a half-written   *)
(* file.                                                                       *)
Dies(h) ==
    /\ h \in Live /\ faults < MaxFaults
    /\ hd' = [hd EXCEPT ![h] = None] /\ faults' = faults + 1
    /\ left' = IF hd[h].kind = "packed" THEN left \cup {hd[h].data} ELSE left
    /\ path' = [path EXCEPT !.by = @ \ {h}]
    /\ Rest

Close(h) == CloseKept(h) \/ ClosePacked(h)
Pack(h) == PackCheck(h) \/ PackOpen(h) \/ PackDone(h) \/ CloseDone(h)

Next ==
    \E h \in Handles :
        \/ \E f \in Formats, m \in {"rw", "ro"} :
              ConnectBundle(h, f, m) \/ ConnectPacked(h, f, m) \/ ConnectNewPacked(h, f, m) \/ ConnectRaises(h, f, m)
        \/ Write(h) \/ Close(h) \/ Pack(h) \/ PackFails(h) \/ Dies(h)

Spec == Init /\ [][Next]_vars

-----------------------------------------------------------------------------
Contents == {path.data} \cup left \cup {hd[h].data : h \in Live}

(* One handle at a time: whatever step a process dies at, or packing fails, a  *)
(* row written through a read-write handle is still on disk, at the path or in *)
(* a working directory.                                                        *)
CopyOnDisk == ~overlap => \A row \in stored : \E d \in Contents : row \in d.rows

(* One handle at a time, no death and no failure: when no handle is open, the  *)
(* path holds all that was written through read-write handles; a packed file   *)
(* holds nothing else, not what read-only handles wrote.                       *)
PathComplete ==
    ~overlap /\ faults = 0 /\ Live = {} =>
        /\ stored \subseteq path.data.rows
        /\ path.kind = "zip" => path.data.rows = stored
        /\ path.kind \in {"none", "dir", "zip"}

(* One handle at a time: the clock of every copy of the database is at least   *)
(* the LSN of its rows, and no two rows of a copy share an LSN, across close,  *)
(* pack, unpack and reopen.                                                    *)
ClockAhead ==
    ~overlap => \A d \in Contents :
        /\ \A r \in d.rows : r[2] <= d.clock
        /\ \A r, s \in d.rows : r[2] = s[2] => r = s
=============================================================================
