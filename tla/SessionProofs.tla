--------------------------- MODULE SessionProofs ---------------------------
(***************************************************************************)
(* What connect and close keep when one handle is open at a time, for any  *)
(* number of sessions, writes, deaths and failures.                        *)
(*                                                                         *)
(* While no two handles overlap, the state is the path, the abandoned      *)
(* working directories and at most one handle.  Sound says how these three *)
(* hang together at every step of a close: it is what makes the three      *)
(* properties inductive.                                                   *)
(***************************************************************************)
EXTENDS Session, BundleDiff, TLAPS

Kinds == {"none", "dir", "zip", "partial", "broken"}
PathSet == [kind : Kinds, data : Data, by : SUBSET Handles]

TypeInv ==
    /\ path \in PathSet /\ hd \in [Handles -> HandleSet \cup {None}] /\ left \subseteq Data
    /\ writes \in Nat /\ stored \subseteq Nat \X Nat /\ faults \in Nat /\ overlap \in BOOLEAN

Only(h) == \A g \in Handles : g # h => hd[g] = None
Single == ~overlap => \A g, h \in Live : g = h
Numbered == \A r \in stored : r[1] <= writes
Absent == path.kind = "none" => path.data = Blank /\ path.by = {}

Ahead(d) ==
    /\ \A r \in d.rows : r[2] <= d.clock
    /\ \A r, s \in d.rows : r[2] = s[2] => r = s

(* What handle h, in state x, has to do with the path p.                       *)
Attached(h, x, p, st) ==
    /\ x.kind = "dir" => /\ x.pc = "open" /\ p.kind = "dir" /\ x.clock = p.data.clock
                         /\ x.data.rows \subseteq p.data.rows
    /\ x.kind = "packed" => x.clock = x.data.clock
    /\ x.kind = "packed" /\ x.mode = "ro" =>
          x.pc = "open" /\ \A r \in st : r \in x.data.rows => r \in p.data.rows
    /\ x.kind = "packed" /\ x.pc = "open" /\ x.mode = "rw" => \A r \in st : r \in p.data.rows => r \in x.data.rows
    /\ x.pc \in {"pack", "create"} => p.kind = "none"
    /\ x.pc = "write" => p.kind = "broken" /\ p.data = Blank /\ p.by = {h}
    /\ x.pc = "remove" => p.data = x.data

(* Where everything stored is while nothing has failed.                        *)
Complete(x, p, st) ==
    /\ x = None => /\ st \subseteq p.data.rows /\ (p.kind = "zip" => p.data.rows = st)
                   /\ p.kind \in {"none", "dir", "zip"}
    /\ x # None /\ x.kind = "dir" => st \subseteq p.data.rows
    /\ x # None /\ x.kind = "packed" /\ x.mode = "ro" => p.kind = "zip" /\ p.data.rows = st
    /\ x # None /\ x.kind = "packed" /\ x.mode = "rw" =>
          x.data.rows = st /\ (x.pc = "open" => p.kind \in {"none", "zip"}) /\ (x.pc = "remove" => p.kind = "zip")

Sound(h, x, p, l, st, f) ==
    /\ x # None => Attached(h, x, p, st)
    /\ Ahead(p.data) /\ (\A d \in l : Ahead(d)) /\ (x # None => Ahead(x.data))
    /\ \A r \in st : r \in p.data.rows \/ (\E d \in l : r \in d.rows) \/ (x # None /\ r \in x.data.rows)
    /\ f = 0 => Complete(x, p, st)

Solo == ~overlap => \A h \in Handles : Only(h) => Sound(h, hd[h], path, left, stored, faults)

IInv == TypeInv /\ Single /\ Numbered /\ Absent /\ Solo

LEMMA BlankData == Blank \in Data /\ Blank.rows = {} /\ Blank.clock = 0 /\ Ahead(Blank)
BY DEF Blank, Data, Ahead

LEMMA InitInv == Init => IInv
<1> SUFFICES ASSUME Init PROVE IInv
    OBVIOUS
<1>1. path = [kind |-> "none", data |-> Blank, by |-> {}]
    BY DEF Init, Missing
<1>2. TypeInv
    <2>1. path \in PathSet
        BY <1>1, BlankData DEF PathSet, Kinds
    <2> QED BY <2>1 DEF Init, TypeInv
<1>3. Single /\ Numbered /\ Absent
    BY <1>1 DEF Init, Single, Live, Numbered, Absent
<1>4. ASSUME NEW h \in Handles
      PROVE  Sound(h, hd[h], path, left, stored, faults)
    <2>1. hd[h] = None /\ left = {} /\ stored = {} /\ path.data = Blank /\ path.kind = "none"
        BY <1>1 DEF Init
    <2> QED BY <2>1, BlankData DEF Sound, Complete
<1> QED BY <1>2, <1>3, <1>4 DEF IInv, Solo

-----------------------------------------------------------------------------
(* Every step of h sets the state of h, and possibly the path and the rest.    *)
(* The invariant then needs to be looked at for h alone.                       *)
LEMMA StepOf ==
    ASSUME IInv, NEW h \in Handles, NEW x \in HandleSet \cup {None}, hd' = [hd EXCEPT ![h] = x],
           \/ overlap' = overlap /\ hd[h] # None
           \/ overlap' = (overlap \/ Live # {}),
           TypeInv', Numbered', Absent',
           ~overlap /\ Only(h) /\ Sound(h, hd[h], path, left, stored, faults)
               => Sound(h, x, path', left', stored', faults')
    PROVE  IInv'
<1>1. hd'[h] = x /\ \A g \in Handles : g # h => hd'[g] = hd[g]
    BY DEF IInv, TypeInv
<1>2. overlap \in BOOLEAN
    BY DEF IInv, TypeInv
<1>3. ~overlap' => ~overlap /\ Only(h)
    BY <1>2 DEF IInv, Single, Only, Live
<1>4. ~overlap' => \A g \in Handles : g # h => hd'[g] = None
    BY <1>1, <1>3 DEF Only
<1>5. Single'
    BY <1>4 DEF Single, Live
<1>6. ~overlap' => Sound(h, hd'[h], path', left', stored', faults')
    BY <1>1, <1>3 DEF IInv, Solo
<1>7. Solo'
    <2> SUFFICES ASSUME ~overlap', NEW g \in Handles, Only(g)'
                 PROVE  Sound(g, hd'[g], path', left', stored', faults')
        BY DEF Solo
    <2>1. CASE g = h
        BY <1>6, <2>1
    <2>2. CASE g # h
        <3>1. hd'[h] = None /\ hd'[g] = None
            BY <1>4, <2>2 DEF Only
        <3> QED BY <1>6, <3>1 DEF Sound
    <2> QED BY <2>1, <2>2
<1> QED BY <1>5, <1>7 DEF IInv

LEMMA ConnectedInv ==
    ASSUME IInv, NEW h \in Handles, hd[h] = None, NEW kind \in {"dir", "packed"}, NEW mode \in {"rw", "ro"},
           NEW data \in Data, path' \in PathSet, Absent', Connected(h, Handle(kind, mode, data)),
           data = path'.data,
           Sound(h, None, path, left, stored, faults) => path'.data.rows = path.data.rows /\ Ahead(path'.data),
           kind = "dir" => path'.kind = "dir",
           kind = "packed" => path' = path /\ (path.kind = "zip" \/ (path.kind = "none" /\ mode = "rw"))
    PROVE  IInv'
<1> DEFINE x == Handle(kind, mode, data)
<1>1. /\ x \in HandleSet /\ x.pc = "open" /\ x.kind = kind /\ x.mode = mode
      /\ x.clock = data.clock /\ x.data = data
    BY DEF Handle, HandleSet, Steps, Data
<1>2. x # None
    BY <1>1, SessionConstants
<1>3. /\ hd' = [hd EXCEPT ![h] = x] /\ overlap' = (overlap \/ Live # {})
      /\ UNCHANGED <<left, writes, stored, faults>>
    BY DEF Connected
<1> HIDE DEF x
<1>4. TypeInv' /\ Numbered'
    BY <1>1, <1>3 DEF IInv, TypeInv, Numbered
<1>5. ASSUME Sound(h, None, path, left, stored, faults)
      PROVE  Sound(h, x, path', left', stored', faults')
    <2>1. path'.data.rows = path.data.rows /\ Ahead(path'.data) /\ stored' = stored /\ left' = left /\ faults' = faults
        BY <1>3, <1>5
    <2>2. Attached(h, x, path', stored)
        BY <1>1, <2>1 DEF Attached
    <2>3. faults = 0 => Complete(x, path', stored)
        <3> SUFFICES ASSUME faults = 0 PROVE Complete(x, path', stored)
            OBVIOUS
        <3>1. /\ stored \subseteq path.data.rows
              /\ path.kind = "zip" => path.data.rows = stored
            BY <1>5 DEF Sound, Complete
        <3>2. path.kind = "none" => path.data.rows = {}
            BY BlankData DEF IInv, Absent
        <3> QED BY <1>1, <1>2, <2>1, <3>1, <3>2 DEF Complete
    <2>4. \A r \in stored : r \in path.data.rows \/ (\E d \in left : r \in d.rows)
        BY <1>5 DEF Sound
    <2>5. \A d \in left : Ahead(d)
        BY <1>5 DEF Sound
    <2> QED BY <1>1, <2>1, <2>2, <2>3, <2>4, <2>5 DEF Sound
<1> QED BY <1>1, <1>3, <1>4, <1>5, StepOf

LEMMA Connects ==
    ASSUME IInv, NEW h \in Handles, NEW f \in Formats, NEW m \in {"rw", "ro"},
           ConnectBundle(h, f, m) \/ ConnectPacked(h, f, m) \/ ConnectNewPacked(h, f, m) \/ ConnectRaises(h, f, m)
    PROVE  IInv'
<1>1. path \in PathSet /\ path.data \in Data /\ path.kind \in Kinds
    BY DEF IInv, TypeInv, PathSet
<1>2. Sound(h, None, path, left, stored, faults) => Ahead(path.data)
    BY DEF Sound
<1>3. CASE path.kind = "dir" /\ hd[h] = None /\ UNCHANGED path /\ Connected(h, Handle("dir", m, path.data))
    BY <1>1, <1>2, <1>3, ConnectedInv DEF IInv, Absent
<1>4. CASE ~Exists /\ hd[h] = None /\ path' = At("dir", Blank) /\ Connected(h, Handle("dir", m, Blank))
    <2>1. path'.kind = "dir" /\ path'.data = Blank /\ path' \in PathSet
        BY <1>4, BlankData DEF At, PathSet, Kinds
    <2>2. path.data = Blank
        BY <1>4 DEF IInv, Absent, Exists
    <2> QED BY <1>4, <2>1, <2>2, BlankData, ConnectedInv DEF Absent
<1>5. CASE Unpacks /\ hd[h] = None /\ UNCHANGED path /\ Connected(h, Handle("packed", m, path.data))
    BY <1>1, <1>2, <1>5, ConnectedInv DEF IInv, Absent, Unpacks, IsPacked
<1>6. CASE ~Exists /\ m = "rw" /\ hd[h] = None /\ UNCHANGED path /\ Connected(h, Handle("packed", m, Blank))
    <2>1. path.data = Blank /\ path.kind = "none"
        BY <1>6 DEF IInv, Absent, Exists
    <2> QED BY <1>1, <1>2, <1>6, <2>1, BlankData, ConnectedInv DEF IInv, Absent
<1>7. CASE UNCHANGED vars
    BY <1>7 DEF vars, IInv, TypeInv, Single, Live, Numbered, Absent, Solo, Only
<1> QED BY <1>3, <1>4, <1>5, <1>6, <1>7 DEF ConnectBundle, ConnectPacked, ConnectNewPacked, ConnectRaises

-----------------------------------------------------------------------------
LEMMA StampedAhead ==
    ASSUME NEW d \in Data, Ahead(d), NEW n \in Nat
    PROVE  Ahead(Stamped(d, <<n, d.clock + 1>>, d.clock + 1))
<1> DEFINE row == <<n, d.clock + 1>>
           e == Stamped(d, row, d.clock + 1)
<1>1. e.rows = d.rows \cup {row} /\ e.clock = d.clock + 1 /\ d.clock \in Nat /\ d.rows \subseteq Nat \X Nat
    BY DEF Stamped, Data
<1>2. \A r \in d.rows : r[2] \in Nat /\ r[2] <= d.clock
    BY <1>1 DEF Ahead
<1>3. row[2] = d.clock + 1
    OBVIOUS
<1> HIDE DEF row, e
<1> QED BY <1>1, <1>2, <1>3 DEF Ahead, row, e

LEMMA StampedData ==
    ASSUME NEW d \in Data, NEW n \in Nat, NEW c \in Nat
    PROVE  Stamped(d, <<n, c>>, c) \in Data
BY DEF Stamped, Data

LEMMA Writes ==
    ASSUME IInv, NEW h \in Handles, Write(h)
    PROVE  IInv'
<1> DEFINE y == hd[h]
           lsn == y.clock + 1
           row == <<writes + 1, lsn>>
           d == [y EXCEPT !.clock = lsn]
           q == [y EXCEPT !.clock = lsn, !.data = Stamped(@, row, lsn)]
           x == IF y.kind = "dir" THEN d ELSE q
<1>1. /\ hd[h] # None /\ y \in HandleSet /\ y.pc = "open" /\ hd \in [Handles -> HandleSet \cup {None}]
      /\ y.kind = "dir" => path.kind = "dir"
    BY DEF Write, Opened, Live, IInv, TypeInv
<1>2. /\ y.clock \in Nat /\ lsn \in Nat /\ y.data \in Data /\ writes \in Nat /\ path \in PathSet
      /\ path.data \in Data /\ y.kind \in {"dir", "packed"} /\ y.mode \in {"rw", "ro"} /\ row \in Nat \X Nat
      /\ stored \subseteq Nat \X Nat /\ path.kind \in Kinds
    BY <1>1 DEF HandleSet, IInv, TypeInv, PathSet
<1>3. /\ writes' = writes + 1 /\ left' = left /\ faults' = faults /\ overlap' = overlap
      /\ stored' = IF y.mode = "rw" THEN stored \cup {row} ELSE stored
      /\ y.kind = "dir" => path' = [path EXCEPT !.data = Stamped(@, row, lsn)]
      /\ y.kind # "dir" => path' = path
    BY DEF Write
<1>4. y.kind = "dir" => hd' = [hd EXCEPT ![h] = d]
    BY <1>1 DEF Write
<1>5. y.kind # "dir" => hd' = [hd EXCEPT ![h] = q]
    BY <1>1 DEF Write
<1>6. Stamped(y.data, row, lsn) \in Data /\ Stamped(path.data, row, lsn) \in Data
    BY <1>2, StampedData
<1>7. /\ y.kind = "dir" => /\ x \in HandleSet /\ x.data = y.data
      /\ y.kind # "dir" => /\ x \in HandleSet /\ x.data = Stamped(y.data, row, lsn)
      /\ x.kind = y.kind /\ x.mode = y.mode /\ x.pc = y.pc /\ x.clock = lsn
    BY <1>1, <1>2, <1>6 DEF HandleSet
<1>8. hd' = [hd EXCEPT ![h] = x]
    BY <1>4, <1>5
<1>9. /\ row \notin stored /\ \A r \in stored' : r[1] <= writes'
      /\ row[1] = writes + 1 /\ row[2] = lsn
    <2>1. row[1] = writes + 1 /\ row[2] = lsn
        OBVIOUS
    <2>2. \A r \in stored : r[1] \in Nat /\ r[1] <= writes
        BY <1>2 DEF IInv, Numbered
    <2> HIDE DEF row
    <2> QED BY <1>2, <1>3, <2>1, <2>2
<1> HIDE DEF row, lsn, d, q, x, y
<1>10. /\ Stamped(path.data, row, lsn).rows = path.data.rows \cup {row} /\ Stamped(path.data, row, lsn).clock = lsn
       /\ Stamped(y.data, row, lsn).rows = y.data.rows \cup {row} /\ Stamped(y.data, row, lsn).clock = lsn
    BY DEF Stamped
<1>11. y.kind = "dir" => path'.data = Stamped(path.data, row, lsn) /\ path'.kind = path.kind /\ path'.by = path.by
                         /\ path' \in PathSet
    BY <1>2, <1>3, <1>6 DEF PathSet
<1>12. TypeInv'
    <2>1. hd' \in [Handles -> HandleSet \cup {None}]
        BY <1>1, <1>7, <1>8
    <2>2. stored' \subseteq Nat \X Nat
        BY <1>2, <1>3
    <2> QED BY <1>2, <1>3, <1>11, <2>1, <2>2 DEF IInv, TypeInv
<1>13. Numbered' /\ Absent'
    BY <1>1, <1>3, <1>9, <1>11 DEF IInv, Numbered, Absent
<1>14. ASSUME Sound(h, y, path, left, stored, faults)
       PROVE  Sound(h, x, path', left', stored', faults')
    <2>1. y # None /\ x # None
        BY <1>1, <1>7, SessionConstants DEF y
    <2>2. Attached(h, y, path, stored) /\ Ahead(path.data) /\ Ahead(y.data)
        BY <1>14, <2>1 DEF Sound
    <2>3. \A r \in stored : r \in path.data.rows \/ (\E e \in left : r \in e.rows) \/ r \in y.data.rows
        BY <1>14, <2>1 DEF Sound
    <2>4. \A e \in left : Ahead(e)
        BY <1>14 DEF Sound
    <2>5. CASE y.kind = "dir"
        <3>1. lsn = path.data.clock + 1 /\ y.data.rows \subseteq path.data.rows /\ writes + 1 \in Nat
            BY <1>2, <2>2, <2>5 DEF Attached, lsn
        <3>2. Ahead(path'.data)
            BY <1>2, <1>11, <2>2, <2>5, <3>1, StampedAhead DEF row
        <3>3. /\ path'.data.rows = path.data.rows \cup {row} /\ path'.data.clock = lsn /\ path'.kind = path.kind
              /\ x.kind = "dir" /\ x.data = y.data /\ x.pc = "open" /\ x.clock = lsn /\ stored' \subseteq stored \cup {row}
              /\ path.kind = "dir"
            BY <1>1, <1>3, <1>7, <1>10, <1>11, <2>5
        <3>4. Attached(h, x, path', stored')
            BY <3>1, <3>3 DEF Attached
        <3>5. faults' = 0 => Complete(x, path', stored')
            <4> SUFFICES ASSUME faults' = 0 PROVE Complete(x, path', stored')
                OBVIOUS
            <4>1. stored \subseteq path.data.rows
                BY <1>3, <1>14, <2>1, <2>5 DEF Sound, Complete
            <4> QED BY <2>1, <3>3, <4>1 DEF Complete
        <3>6. \A r \in stored' : r \in path'.data.rows \/ (\E e \in left' : r \in e.rows)
            BY <1>3, <2>3, <3>1, <3>3
        <3> QED BY <1>3, <2>2, <2>4, <3>2, <3>3, <3>4, <3>5, <3>6 DEF Sound
    <2>6. CASE y.kind = "packed"
        <3>1. lsn = y.data.clock + 1 /\ writes + 1 \in Nat
            BY <1>2, <2>2, <2>6 DEF Attached, lsn
        <3>2. Ahead(x.data)
            BY <1>2, <1>7, <2>2, <2>6, <3>1, StampedAhead DEF row
        <3>3. /\ path' = path /\ x.data.rows = y.data.rows \cup {row} /\ x.data.clock = lsn
              /\ x.kind = "packed" /\ x.pc = "open" /\ x.clock = lsn /\ x.mode = y.mode
            BY <1>1, <1>3, <1>7, <1>10, <2>6
        <3>4. CASE y.mode = "rw"
            <4>1. stored' = stored \cup {row}
                BY <1>3, <3>4
            <4>2. Attached(h, x, path', stored')
                BY <1>1, <2>2, <2>6, <3>3, <3>4, <4>1 DEF Attached
            <4>3. faults' = 0 => Complete(x, path', stored')
                BY <1>1, <1>3, <1>14, <2>1, <2>6, <3>3, <3>4, <4>1 DEF Sound, Complete
            <4>4. \A r \in stored' : r \in path'.data.rows \/ (\E e \in left' : r \in e.rows) \/ r \in x.data.rows
                BY <1>3, <2>3, <3>3, <4>1
            <4> QED BY <1>3, <2>1, <2>2, <2>4, <3>2, <3>3, <4>2, <4>3, <4>4 DEF Sound
        <3>5. CASE y.mode = "ro"
            <4>1. stored' = stored
                BY <1>3, <3>5
            <4>2. Attached(h, x, path', stored')
                BY <1>1, <1>9, <2>2, <2>6, <3>3, <3>5, <4>1 DEF Attached
            <4>3. faults' = 0 => Complete(x, path', stored')
                BY <1>1, <1>3, <1>14, <2>1, <2>6, <3>3, <3>5, <4>1 DEF Sound, Complete
            <4>4. \A r \in stored' : r \in path'.data.rows \/ (\E e \in left' : r \in e.rows) \/ r \in x.data.rows
                BY <1>3, <2>3, <3>3, <4>1
            <4> QED BY <1>3, <2>1, <2>2, <2>4, <3>2, <3>3, <4>2, <4>3, <4>4 DEF Sound
        <3> QED BY <1>2, <3>4, <3>5
    <2> QED BY <1>2, <2>5, <2>6
<1>15. Sound(h, hd[h], path, left, stored, faults) => Sound(h, x, path', left', stored', faults')
    BY <1>14 DEF y
<1>16. x \in HandleSet \cup {None}
    BY <1>7
<1> QED BY <1>1, <1>3, <1>8, <1>12, <1>13, <1>15, <1>16, StepOf
-----------------------------------------------------------------------------
(* The steps of a close: x is the handle with another pc, or nothing.          *)
LEMMA Moved ==
    ASSUME NEW y \in HandleSet, NEW pc \in Steps, NEW x, x = [y EXCEPT !.pc = pc]
    PROVE  /\ x \in HandleSet /\ x # None /\ x.pc = pc
           /\ x.kind = y.kind /\ x.mode = y.mode /\ x.clock = y.clock /\ x.data = y.data
<1>1. x \in HandleSet
    BY DEF HandleSet
<1> QED BY <1>1, SessionConstants DEF HandleSet

LEMMA Closing ==
    ASSUME IInv, NEW h \in Handles, hd[h] # None, NEW x \in HandleSet \cup {None}, hd' = [hd EXCEPT ![h] = x],
           path' \in PathSet, Absent', left' \subseteq left \cup {hd[h].data}, faults' \in Nat, Rest,
           Sound(h, hd[h], path, left, stored, faults) => Sound(h, x, path', left', stored, faults')
    PROVE  IInv'
<1>1. stored' = stored /\ writes' = writes /\ overlap' = overlap
    BY DEF Rest
<1>2. hd \in [Handles -> HandleSet \cup {None}] /\ hd[h].data \in Data
    BY DEF IInv, TypeInv, HandleSet
<1>3. hd' \in [Handles -> HandleSet \cup {None}]
    BY <1>2
<1>4. TypeInv'
    BY <1>1, <1>2, <1>3 DEF IInv, TypeInv
<1>5. Numbered'
    BY <1>1 DEF IInv, Numbered
<1> QED BY <1>1, <1>4, <1>5, StepOf

(* A handle of the invariant, and what the type invariant says of it.          *)
LEMMA HandleOf ==
    ASSUME IInv, NEW h \in Handles, hd[h] # None
    PROVE  /\ hd[h] \in HandleSet /\ hd[h].pc \in Steps /\ hd[h].kind \in {"dir", "packed"}
           /\ hd[h].mode \in {"rw", "ro"} /\ hd[h].data \in Data
           /\ hd \in [Handles -> HandleSet \cup {None}]
           /\ path \in PathSet /\ path.kind \in Kinds /\ path.data \in Data /\ path.by \subseteq Handles
           /\ faults \in Nat
BY DEF IInv, TypeInv, HandleSet, PathSet

LEMMA Closes ==
    ASSUME IInv, NEW h \in Handles, Close(h)
    PROVE  IInv'
<1> DEFINE y == hd[h]
<1>1. hd[h] # None /\ y.pc = "open"
    BY DEF Close, CloseKept, ClosePacked, Opened, Live
<1>2. /\ y \in HandleSet /\ y.kind \in {"dir", "packed"} /\ y.mode \in {"rw", "ro"} /\ y.data \in Data
      /\ hd \in [Handles -> HandleSet \cup {None}] /\ path \in PathSet /\ faults \in Nat /\ path.kind \in Kinds
    BY <1>1, HandleOf
<1>3. CASE CloseKept(h)
    <2>1. /\ hd' = [hd EXCEPT ![h] = None] /\ path' = path /\ left' = left /\ faults' = faults /\ Rest
          /\ y.kind = "dir" \/ y.mode = "ro"
        BY <1>3 DEF CloseKept
    <2>2. ASSUME Sound(h, y, path, left, stored, faults)
          PROVE  Sound(h, None, path, left, stored, faults)
        <3> HIDE DEF y
        <3>1. y # None
            BY <1>1 DEF y
        <3>2. Attached(h, y, path, stored) /\ (faults = 0 => Complete(y, path, stored))
            BY <2>2, <3>1 DEF Sound
        <3>3. \A r \in stored : r \in y.data.rows => r \in path.data.rows
            BY <1>2, <2>1, <3>2 DEF Attached
        <3>4. faults = 0 => Complete(None, path, stored)
            BY <1>2, <2>1, <3>1, <3>2 DEF Attached, Complete
        <3> QED BY <2>2, <3>3, <3>4 DEF Sound
    <2>3. Absent'
        BY <2>1 DEF IInv, Absent
    <2> QED BY <1>1, <1>2, <2>1, <2>2, <2>3, Closing
<1>4. CASE ClosePacked(h) /\ path.kind = "dir"
    <2>1. /\ hd' = [hd EXCEPT ![h] = None] /\ path' = path /\ left' = left \cup {y.data} /\ faults' = faults /\ Rest
          /\ y.kind = "packed" /\ y.mode = "rw"
        BY <1>4 DEF ClosePacked
    <2>2. ASSUME Sound(h, y, path, left, stored, faults)
          PROVE  Sound(h, None, path, left', stored, faults)
        <3> HIDE DEF y
        <3>1. y # None
            BY <1>1 DEF y
        <3>2. faults # 0
            BY <1>1, <1>4, <2>1, <2>2, <3>1 DEF Sound, Complete, y
        <3>3. \A r \in stored : r \in path.data.rows \/ (\E d \in left' : r \in d.rows)
            BY <2>1, <2>2 DEF Sound
        <3>4. Ahead(path.data) /\ \A d \in left' : Ahead(d)
            BY <2>1, <2>2, <3>1 DEF Sound
        <3> QED BY <3>2, <3>3, <3>4 DEF Sound
    <2>3. Absent'
        BY <2>1 DEF IInv, Absent
    <2> QED BY <1>1, <1>2, <2>1, <2>2, <2>3, Closing
<1>5. CASE ClosePacked(h) /\ path.kind # "dir"
    <2> DEFINE x == [y EXCEPT !.pc = "pack"]
    <2>1. /\ hd' = [hd EXCEPT ![h] = x] /\ path' = Missing /\ left' = left /\ faults' = faults /\ Rest
          /\ y.kind = "packed" /\ y.mode = "rw"
        BY <1>2, <1>5 DEF ClosePacked, Goto
    <2>2. path' \in PathSet /\ path'.kind = "none" /\ path'.data = Blank /\ path'.by = {}
        BY <2>1, BlankData DEF Missing, PathSet, Kinds
    <2>3. "pack" \in Steps
        BY DEF Steps
    <2>4. /\ x \in HandleSet /\ x # None /\ x.pc = "pack" /\ x.kind = "packed" /\ x.mode = "rw"
          /\ x.clock = y.clock /\ x.data = y.data
        BY <1>2, <2>1, <2>3, Moved
    <2> HIDE DEF x
    <2>5. ASSUME Sound(h, y, path, left, stored, faults)
          PROVE  Sound(h, x, path', left, stored, faults)
        <3> HIDE DEF y
        <3>1. y # None /\ y.pc = "open"
            BY <1>1 DEF y
        <3>2. Attached(h, y, path, stored) /\ (faults = 0 => Complete(y, path, stored))
            BY <2>5, <3>1 DEF Sound
        <3>3. Attached(h, x, path', stored)
            BY <2>1, <2>2, <2>4, <3>2 DEF Attached
        <3>4. faults = 0 => Complete(x, path', stored)
            BY <2>1, <2>4, <3>1, <3>2 DEF Complete
        <3>5. \A r \in stored : (\E d \in left : r \in d.rows) \/ r \in x.data.rows
            BY <2>1, <2>4, <2>5, <3>1, <3>2 DEF Sound, Attached
        <3>6. (\A d \in left : Ahead(d)) /\ Ahead(x.data)
            BY <2>4, <2>5, <3>1 DEF Sound
        <3> QED BY <2>2, <2>4, <3>3, <3>4, <3>5, <3>6, BlankData DEF Sound
    <2>6. Absent'
        BY <2>2 DEF Absent
    <2> QED BY <1>1, <1>2, <2>1, <2>2, <2>4, <2>5, <2>6, Closing
<1> QED BY <1>3, <1>4, <1>5 DEF Close

LEMMA PackChecks ==
    ASSUME IInv, NEW h \in Handles, PackCheck(h)
    PROVE  IInv'
<1> DEFINE y == hd[h]
<1>1. hd[h] # None /\ y.pc = "pack"
    BY DEF PackCheck, Live
<1>2. /\ y \in HandleSet /\ y.kind \in {"dir", "packed"} /\ y.mode \in {"rw", "ro"} /\ y.data \in Data
      /\ hd \in [Handles -> HandleSet \cup {None}] /\ path \in PathSet /\ faults \in Nat
    BY <1>1, HandleOf
<1>3. path' = path /\ faults' = faults /\ Rest /\ Absent'
    BY DEF PackCheck, IInv, Absent
<1>4. CASE Exists
    <2>1. hd' = [hd EXCEPT ![h] = None] /\ left' = left \cup {y.data}
        BY <1>4 DEF PackCheck
    <2>2. ~Sound(h, y, path, left, stored, faults)
        BY <1>1, <1>4 DEF Sound, Attached, Exists
    <2> QED BY <1>1, <1>2, <1>3, <2>1, <2>2, Closing
<1>5. CASE ~Exists
    <2> DEFINE x == [y EXCEPT !.pc = "create"]
    <2>1. hd' = [hd EXCEPT ![h] = x] /\ left' = left
        BY <1>2, <1>5 DEF PackCheck, Goto
    <2>2. "create" \in Steps
        BY DEF Steps
    <2>3. /\ x \in HandleSet /\ x # None /\ x.pc = "create" /\ x.kind = y.kind /\ x.mode = y.mode
          /\ x.clock = y.clock /\ x.data = y.data
        BY <1>2, <2>2, Moved
    <2> HIDE DEF x
    <2>4. ASSUME Sound(h, y, path, left, stored, faults)
          PROVE  Sound(h, x, path, left, stored, faults)
        <3> HIDE DEF y
        <3>1. y # None /\ y.pc = "pack"
            BY <1>1 DEF y
        <3>2. Attached(h, x, path, stored)
            BY <2>3, <2>4, <3>1 DEF Sound, Attached
        <3>3. faults = 0 => Complete(x, path, stored)
            BY <2>3, <2>4, <3>1 DEF Sound, Complete
        <3> QED BY <2>3, <2>4, <3>1, <3>2, <3>3 DEF Sound
    <2> QED BY <1>1, <1>2, <1>3, <2>1, <2>3, <2>4, Closing
<1> QED BY <1>4, <1>5

LEMMA PackOpens ==
    ASSUME IInv, NEW h \in Handles, PackOpen(h)
    PROVE  IInv'
<1> DEFINE y == hd[h]
<1>1. hd[h] # None /\ y.pc = "create"
    BY DEF PackOpen, Live
<1>2. /\ y \in HandleSet /\ y.kind \in {"dir", "packed"} /\ y.mode \in {"rw", "ro"} /\ y.data \in Data
      /\ hd \in [Handles -> HandleSet \cup {None}] /\ path \in PathSet /\ faults \in Nat /\ path.by \subseteq Handles
    BY <1>1, HandleOf
<1>3. faults' = faults /\ Rest
    BY DEF PackOpen
<1>4. CASE path.kind = "dir"
    <2>1. hd' = [hd EXCEPT ![h] = None] /\ left' = left \cup {y.data} /\ path' = path
        BY <1>4 DEF PackOpen
    <2>2. ~Sound(h, y, path, left, stored, faults)
        BY <1>1, <1>4 DEF Sound, Attached
    <2>3. Absent'
        BY <2>1 DEF IInv, Absent
    <2> QED BY <1>1, <1>2, <1>3, <2>1, <2>2, <2>3, Closing
<1>5. CASE path.kind # "dir"
    <2> DEFINE x == [y EXCEPT !.pc = "write"]
    <2>1. hd' = [hd EXCEPT ![h] = x] /\ left' = left /\ path' = [kind |-> "broken", data |-> Blank, by |-> path.by \cup {h}]
        BY <1>2, <1>5 DEF PackOpen, Goto
    <2>2. path' \in PathSet /\ path'.kind = "broken" /\ path'.data = Blank /\ path'.by = path.by \cup {h}
        BY <1>2, <2>1, BlankData DEF PathSet, Kinds
    <2>3. "write" \in Steps
        BY DEF Steps
    <2>4. /\ x \in HandleSet /\ x # None /\ x.pc = "write" /\ x.kind = y.kind /\ x.mode = y.mode
          /\ x.clock = y.clock /\ x.data = y.data
        BY <1>2, <2>3, Moved
    <2> HIDE DEF x
    <2>5. ASSUME Sound(h, y, path, left, stored, faults)
          PROVE  Sound(h, x, path', left, stored, faults)
        <3> HIDE DEF y
        <3>1. y # None /\ y.pc = "create"
            BY <1>1 DEF y
        <3>2. path.kind = "none" /\ path.data = Blank /\ path.by = {}
            BY <2>5, <3>1 DEF Sound, Attached, IInv, Absent
        <3>3. Attached(h, x, path', stored)
            BY <2>2, <2>4, <2>5, <3>1, <3>2 DEF Sound, Attached
        <3>4. faults = 0 => Complete(x, path', stored)
            BY <2>2, <2>4, <2>5, <3>1, <3>2, BlankData DEF Sound, Complete, Attached
        <3> QED BY <2>2, <2>4, <2>5, <3>1, <3>2, <3>3, <3>4 DEF Sound
    <2>6. Absent'
        BY <2>2 DEF Absent
    <2> QED BY <1>1, <1>2, <1>3, <2>1, <2>2, <2>4, <2>5, <2>6, Closing
<1> QED BY <1>4, <1>5
(* A file that is finished by h: at the end there is a path of the set, with   *)
(* the data of h if nobody else was writing to it.                             *)
LEMMA FinishedPath ==
    ASSUME IInv, NEW h \in Handles, NEW kinds \in SUBSET {"zip", "partial"}, NEW data \in Data,
           Finished(h, kinds, data)
    PROVE  /\ path' \in PathSet /\ Absent'
           /\ path.by = {h} => /\ path'.kind \in kinds /\ path'.by = {}
                               /\ path'.data = IF path'.kind = "zip" THEN data ELSE Blank
<1>1. path \in PathSet /\ path.by \subseteq Handles
    BY DEF IInv, TypeInv, PathSet
<1>2. CASE h \notin path.by
    BY <1>1, <1>2 DEF Finished, IInv, Absent
<1>3. CASE h \in path.by
    <2>1. PICK k \in (IF path.by = {h} THEN kinds ELSE {"zip", "partial"}) :
              path' = [kind |-> k, data |-> IF k = "zip" THEN data ELSE Blank, by |-> path.by \ {h}]
        BY <1>3 DEF Finished
    <2>2. k \in {"zip", "partial"}
        BY <2>1
    <2>3. (IF k = "zip" THEN data ELSE Blank) \in Data
        BY BlankData
    <2>4. path'.kind = k /\ path'.data = (IF k = "zip" THEN data ELSE Blank) /\ path'.by = path.by \ {h}
        BY <2>1
    <2>5. path' \in PathSet
        BY <1>1, <2>1, <2>2, <2>3 DEF PathSet, Kinds
    <2>6. Absent'
        BY <2>2, <2>4 DEF Absent
    <2> QED BY <2>1, <2>4, <2>5, <2>6
<1> QED BY <1>2, <1>3

LEMMA PackEnds ==
    ASSUME IInv, NEW h \in Handles, PackDone(h)
    PROVE  IInv'
<1> DEFINE y == hd[h]
           x == [y EXCEPT !.pc = "remove"]
<1>1. hd[h] # None /\ y.pc = "write" /\ Finished(h, {"zip"}, y.data) /\ left' = left /\ faults' = faults /\ Rest
    BY DEF PackDone, Live
<1>2. /\ y \in HandleSet /\ y.kind \in {"dir", "packed"} /\ y.mode \in {"rw", "ro"} /\ y.data \in Data
      /\ hd \in [Handles -> HandleSet \cup {None}] /\ path \in PathSet /\ faults \in Nat
    BY <1>1, HandleOf
<1>3. hd' = [hd EXCEPT ![h] = x]
    BY <1>2 DEF PackDone, Goto
<1>4. "remove" \in Steps
    BY DEF Steps
<1>5. /\ x \in HandleSet /\ x # None /\ x.pc = "remove" /\ x.kind = y.kind /\ x.mode = y.mode
      /\ x.clock = y.clock /\ x.data = y.data
    BY <1>2, <1>4, Moved
<1> HIDE DEF x, y
<1>6. /\ path' \in PathSet /\ Absent'
      /\ path.by = {h} => path'.kind = "zip" /\ path'.data = y.data
    BY <1>1, <1>2, FinishedPath
<1>7. ASSUME Sound(h, y, path, left, stored, faults)
      PROVE  Sound(h, x, path', left, stored, faults)
    <2>1. y # None
        BY <1>1 DEF y
    <2>2. path.by = {h} /\ path.data = Blank
        BY <1>1, <1>7, <2>1 DEF Sound, Attached
    <2>3. Attached(h, x, path', stored)
        BY <1>1, <1>5, <1>6, <1>7, <2>1, <2>2 DEF Sound, Attached
    <2>4. faults = 0 => Complete(x, path', stored)
        BY <1>1, <1>5, <1>6, <1>7, <2>1, <2>2 DEF Sound, Complete, Attached
    <2>5. \A r \in stored : (\E d \in left : r \in d.rows) \/ r \in x.data.rows
        BY <1>5, <1>7, <2>1, <2>2, BlankData DEF Sound
    <2> QED BY <1>5, <1>6, <1>7, <2>1, <2>2, <2>3, <2>4, <2>5 DEF Sound
<1>8. left' \subseteq left \cup {hd[h].data} /\ faults' \in Nat /\ x \in HandleSet \cup {None}
    BY <1>1, <1>2, <1>5
<1>9. Sound(h, hd[h], path, left, stored, faults) => Sound(h, x, path', left', stored, faults')
    BY <1>1, <1>7 DEF y
<1> QED BY <1>1, <1>3, <1>6, <1>8, <1>9, Closing

LEMMA PackRaises ==
    ASSUME IInv, NEW h \in Handles, PackFails(h)
    PROVE  IInv'
<1> DEFINE y == hd[h]
<1>1. /\ hd[h] # None /\ y.pc = "write" /\ hd' = [hd EXCEPT ![h] = None] /\ left' = left \cup {y.data}
      /\ faults' = faults + 1 /\ Rest
    BY DEF PackFails, Live
<1>2. y \in HandleSet /\ y.data \in Data /\ faults \in Nat
    BY <1>1, HandleOf
<1>3. PICK part \in SUBSET y.data.rows : Finished(h, {"zip", "partial"}, [y.data EXCEPT !.rows = part])
    BY DEF PackFails
<1> DEFINE data == [y.data EXCEPT !.rows = part]
<1>4. data \in Data /\ data.rows = part /\ data.clock = y.data.clock
    BY <1>2 DEF Data
<1> HIDE DEF y, data
<1>5. Finished(h, {"zip", "partial"}, data)
    BY <1>3 DEF data
<1>6. /\ path' \in PathSet /\ Absent'
      /\ path.by = {h} => path'.data = IF path'.kind = "zip" THEN data ELSE Blank
    BY <1>4, <1>5, FinishedPath
<1>7. ASSUME Sound(h, y, path, left, stored, faults)
      PROVE  Sound(h, None, path', left', stored, faults')
    <2>1. y # None
        BY <1>1 DEF y
    <2>2. path.by = {h} /\ path.data = Blank
        BY <1>1, <1>7, <2>1 DEF Sound, Attached
    <2>3. Ahead(y.data)
        BY <1>7, <2>1 DEF Sound
    <2>4. Ahead(data)
        BY <1>3, <1>4, <2>3 DEF Ahead
    <2>5. Ahead(path'.data)
        BY <1>6, <2>2, <2>4, BlankData
    <2>6. \A d \in left' : Ahead(d)
        BY <1>1, <1>7, <2>3 DEF Sound
    <2>7. \A r \in stored : \E d \in left' : r \in d.rows
        BY <1>1, <1>7, <2>2, BlankData DEF Sound
    <2> QED BY <1>1, <1>2, <2>5, <2>6, <2>7 DEF Sound
<1>8. left' \subseteq left \cup {hd[h].data} /\ faults' \in Nat /\ None \in HandleSet \cup {None}
    BY <1>1, <1>2 DEF y
<1>9. Sound(h, hd[h], path, left, stored, faults) => Sound(h, None, path', left', stored, faults')
    BY <1>7 DEF y
<1> QED BY <1>1, <1>6, <1>8, <1>9, Closing

LEMMA CloseEnded ==
    ASSUME IInv, NEW h \in Handles, CloseDone(h)
    PROVE  IInv'
<1> DEFINE y == hd[h]
<1>1. /\ hd[h] # None /\ y.pc = "remove" /\ hd' = [hd EXCEPT ![h] = None] /\ Rest
      /\ path' = path /\ left' = left /\ faults' = faults
    BY DEF CloseDone, Live
<1>2. /\ y \in HandleSet /\ faults \in Nat /\ path \in PathSet
      /\ y.kind \in {"dir", "packed"} /\ y.mode \in {"rw", "ro"}
    BY <1>1, HandleOf
<1> HIDE DEF y
<1>3. ASSUME Sound(h, y, path, left, stored, faults)
      PROVE  Sound(h, None, path, left, stored, faults)
    <2>1. y # None
        BY <1>1 DEF y
    <2>2. path.data = y.data /\ y.kind = "packed" /\ y.mode = "rw"
        BY <1>1, <1>2, <1>3, <2>1 DEF Sound, Attached
    <2>3. faults = 0 => Complete(None, path, stored)
        BY <1>1, <1>3, <2>1, <2>2 DEF Sound, Complete
    <2> QED BY <1>3, <2>2, <2>3 DEF Sound
<1>4. Absent'
    BY <1>1 DEF IInv, Absent
<1> QED BY <1>1, <1>2, <1>3, <1>4, Closing DEF y

LEMMA Death ==
    ASSUME IInv, NEW h \in Handles, Dies(h)
    PROVE  IInv'
<1> DEFINE y == hd[h]
<1>1. /\ hd[h] # None /\ hd' = [hd EXCEPT ![h] = None] /\ Rest /\ faults' = faults + 1
      /\ left' = (IF y.kind = "packed" THEN left \cup {y.data} ELSE left) /\ path' = [path EXCEPT !.by = @ \ {h}]
    BY DEF Dies, Live
<1>2. y \in HandleSet /\ faults \in Nat /\ path \in PathSet /\ y.kind \in {"dir", "packed"}
    BY <1>1, HandleOf
<1>3. /\ path' \in PathSet /\ path'.kind = path.kind /\ path'.data = path.data /\ path'.by = path.by \ {h}
    BY <1>1, <1>2 DEF PathSet
<1> HIDE DEF y
<1>4. ASSUME Sound(h, y, path, left, stored, faults)
      PROVE  Sound(h, None, path', left', stored, faults')
    <2>1. y # None
        BY <1>1 DEF y
    <2>2. y.kind = "dir" => y.data.rows \subseteq path.data.rows
        BY <1>4, <2>1 DEF Sound, Attached
    <2>3. \A r \in stored : r \in path.data.rows \/ (\E d \in left' : r \in d.rows)
        BY <1>1, <1>2, <1>4, <2>2 DEF Sound
    <2>4. \A d \in left' : Ahead(d)
        BY <1>1, <1>4, <2>1 DEF Sound
    <2> QED BY <1>1, <1>2, <1>3, <1>4, <2>3, <2>4 DEF Sound
<1>5. Absent'
    BY <1>3 DEF IInv, Absent
<1>6. left' \subseteq left \cup {hd[h].data} /\ faults' \in Nat /\ None \in HandleSet \cup {None}
    BY <1>1, <1>2 DEF y
<1>7. Sound(h, hd[h], path, left, stored, faults) => Sound(h, None, path', left', stored, faults')
    BY <1>4 DEF y
<1> QED BY <1>1, <1>3, <1>5, <1>6, <1>7, Closing

-----------------------------------------------------------------------------
LEMMA StepInv == IInv /\ [Next]_vars => IInv'
<1> SUFFICES ASSUME IInv, [Next]_vars PROVE IInv'
    OBVIOUS
<1>1. CASE UNCHANGED vars
    BY <1>1 DEF vars, IInv, TypeInv, Single, Live, Numbered, Absent, Solo, Only
<1>2. ASSUME NEW h \in Handles, NEW f \in Formats, NEW m \in {"rw", "ro"},
             ConnectBundle(h, f, m) \/ ConnectPacked(h, f, m) \/ ConnectNewPacked(h, f, m) \/ ConnectRaises(h, f, m)
      PROVE  IInv'
    BY <1>2, Connects
<1>3. ASSUME NEW h \in Handles, Write(h) \/ Close(h) \/ Pack(h) \/ PackFails(h) \/ Dies(h)
      PROVE  IInv'
    BY <1>3, Writes, Closes, PackChecks, PackOpens, PackEnds, CloseEnded, PackRaises, Death DEF Pack
<1> QED BY <1>1, <1>2, <1>3 DEF Next

LEMMA SpecInv == Spec => []IInv
BY InitInv, StepInv, PTL DEF Spec

(* The one handle to look at: the live one, or any.                            *)
LEMMA OneHandle ==
    ASSUME IInv, ~overlap
    PROVE  \E h \in Handles : Sound(h, hd[h], path, left, stored, faults) /\ \A g \in Live : g = h
<1>1. CASE Live = {}
    BY <1>1, SessionConstants DEF IInv, Solo, Only, Live
<1>2. CASE Live # {}
    BY <1>2 DEF IInv, Solo, Single, Only, Live
<1> QED BY <1>1, <1>2

(* A row written through a read-write handle stays on disk whatever step of    *)
(* connect, write, close or pack_bundle a process dies at, as long as handles  *)
(* do not overlap: for any number of sessions, writes and deaths.              *)
THEOREM RowsSurvive == Spec => []CopyOnDisk
<1>1. IInv => CopyOnDisk
    <2> SUFFICES ASSUME IInv, ~overlap, NEW row \in stored
                 PROVE  \E d \in Contents : row \in d.rows
        BY DEF CopyOnDisk
    <2>1. PICK h \in Handles : Sound(h, hd[h], path, left, stored, faults) /\ \A g \in Live : g = h
        BY OneHandle
    <2>2. row \in path.data.rows \/ (\E d \in left : row \in d.rows) \/ (hd[h] # None /\ row \in hd[h].data.rows)
        BY <2>1 DEF Sound
    <2> QED BY <2>2 DEF Contents, Live
<1> QED BY <1>1, SpecInv, PTL

(* While no handle overlapped another and nothing failed, closing leaves at    *)
(* the path all that was written, and a packed file nothing else.              *)
THEOREM ClosedPathComplete == Spec => []PathComplete
<1>1. IInv => PathComplete
    <2> SUFFICES ASSUME IInv, ~overlap, faults = 0, Live = {}
                 PROVE  /\ stored \subseteq path.data.rows
                        /\ path.kind = "zip" => path.data.rows = stored
                        /\ path.kind \in {"none", "dir", "zip"}
        BY DEF PathComplete
    <2>1. PICK h \in Handles : Sound(h, hd[h], path, left, stored, faults)
        BY OneHandle
    <2> QED BY <2>1 DEF Sound, Complete, Live
<1> QED BY <1>1, SpecInv, PTL

(* The saved clock of every copy of the database is at least the LSN of its    *)
(* rows, and no LSN is given twice, across close, pack, unpack and reopen.     *)
THEOREM ClockNeverBehind == Spec => []ClockAhead
<1>1. IInv => ClockAhead
    <2> SUFFICES ASSUME IInv, ~overlap, NEW d \in Contents
                 PROVE  Ahead(d)
        BY DEF ClockAhead, Ahead
    <2>1. PICK h \in Handles : Sound(h, hd[h], path, left, stored, faults) /\ \A g \in Live : g = h
        BY OneHandle
    <2> QED BY <2>1 DEF Sound, Contents, Live
<1> QED BY <1>1, SpecInv, PTL
-----------------------------------------------------------------------------
(* The comparison of two bundles: a directory is only ever there for a name of *)
(* the catalog.                                                                *)
Bundle ==
    [classes : SUBSET Classes, props : SUBSET Relations,
     nodes : [Classes -> NodeStore \cup Unreadable], edges : [Relations -> (SUBSET Edges) \cup Unreadable]]
Kept(x) ==
    /\ x \in Bundle
    /\ \A c \in Classes : x.nodes[c] # NoStore => c \in x.classes
    /\ \A r \in Relations : x.edges[r] # NoStore => r \in x.props

(* A class or a property of the catalog may get any store.                     *)
LEMMA NodesKept ==
    ASSUME NEW x, Kept(x), NEW c \in x.classes, NEW s \in NodeStore \cup Unreadable
    PROVE  Kept([x EXCEPT !.nodes[c] = s])
<1>1. x \in Bundle /\ x.classes \subseteq Classes /\ x.nodes \in [Classes -> NodeStore \cup Unreadable]
    BY DEF Kept, Bundle
<1> DEFINE y == [x EXCEPT !.nodes = [x.nodes EXCEPT ![c] = s]]
<1>2. /\ y.classes = x.classes /\ y.props = x.props /\ y.edges = x.edges
      /\ y.nodes = [x.nodes EXCEPT ![c] = s] /\ y \in Bundle
    BY <1>1 DEF Bundle
<1>3. Kept(y)
    BY <1>1, <1>2 DEF Kept
<1> QED BY <1>3

LEMMA EdgesKept ==
    ASSUME NEW x, Kept(x), NEW r \in x.props, NEW s \in (SUBSET Edges) \cup Unreadable
    PROVE  Kept([x EXCEPT !.edges[r] = s])
<1>1. x \in Bundle /\ x.props \subseteq Relations /\ x.edges \in [Relations -> (SUBSET Edges) \cup Unreadable]
    BY DEF Kept, Bundle
<1> DEFINE y == [x EXCEPT !.edges = [x.edges EXCEPT ![r] = s]]
<1>2. /\ y.classes = x.classes /\ y.props = x.props /\ y.nodes = x.nodes
      /\ y.edges = [x.edges EXCEPT ![r] = s] /\ y \in Bundle
    BY <1>1 DEF Bundle
<1>3. Kept(y)
    BY <1>1, <1>2 DEF Kept
<1> QED BY <1>3

LEMMA ChangedKept ==
    ASSUME NEW x, Kept(x), NEW y \in Changed(x)
    PROVE  Kept(y)
<1>1. /\ x \in Bundle /\ x.classes \subseteq Classes /\ x.props \subseteq Relations
      /\ x.nodes \in [Classes -> NodeStore \cup Unreadable]
      /\ x.edges \in [Relations -> (SUBSET Edges) \cup Unreadable]
    BY DEF Kept, Bundle
<1>2. CASE \E c \in Classes : y = Declared(x, c)
    BY <1>1, <1>2 DEF Kept, Bundle, Declared
<1>3. CASE \E r \in Relations : y = Defined(x, r)
    BY <1>1, <1>3 DEF Kept, Bundle, Defined
<1>4. ASSUME NEW c \in x.classes, NEW s \in Prepared(x.nodes[c], Empty) \cup Inserted(x.nodes[c]),
             y = [x EXCEPT !.nodes[c] = s]
      PROVE  Kept(y)
    <2>1. Prepared(x.nodes[c], Empty) \subseteq NodeStore \cup Unreadable
        BY DEF Prepared, Empty, NodeStore, Unreadable
    <2>2. x.nodes[c] \notin Unreadable => x.nodes[c] \in NodeStore
        BY <1>1
    <2>3. Inserted(x.nodes[c]) \subseteq NodeStore
        <3>1. CASE x.nodes[c] \in Unreadable
            BY <3>1 DEF Inserted
        <3>2. CASE x.nodes[c] \notin Unreadable
            BY <2>2, <3>2 DEF Inserted, NodeStore
        <3> QED BY <3>1, <3>2
    <2> QED BY <2>1, <2>3, <1>4, NodesKept
<1>5. ASSUME NEW r \in x.props, NEW s \in Prepared(x.edges[r], {}) \cup Linked(x.edges[r]),
             y = [x EXCEPT !.edges[r] = s]
      PROVE  Kept(y)
    <2>1. Prepared(x.edges[r], {}) \subseteq (SUBSET Edges) \cup Unreadable
        BY DEF Prepared, Unreadable
    <2>2. x.edges[r] \notin Unreadable => x.edges[r] \in SUBSET Edges
        BY <1>1
    <2>3. Linked(x.edges[r]) \subseteq SUBSET Edges
        BY <2>2 DEF Linked
    <2> QED BY <2>1, <2>3, <1>5, EdgesKept
<1> QED BY <1>2, <1>3, <1>4, <1>5 DEF Changed, ClassesChanged, RelationsChanged

(* What an empty diff says of the stores of a class and of a property.         *)
LEMMA SameNodes ==
    ASSUME NEW s \in NodeStore, NEW t \in NodeStore
    PROVE  s = t <=> s.ids \ t.ids = {} /\ t.ids \ s.ids = {} /\ s.cols = t.cols
BY DEF NodeStore

LEMMA EmptyDiff ==
    ASSUME Kept(a), Kept(b), ~DiffRaises(a, b)
    PROVE  IsEmpty(DiffBundles(a, b)) <=>
              /\ a.classes = b.classes /\ a.props = b.props
              /\ \A c \in Classes \ Unfilled : a.nodes[c] = b.nodes[c]
              /\ \A r \in Relations \ Unlinked : a.edges[r] = b.edges[r]
<1> DEFINE d == DiffBundles(a, b)
<1>1. /\ a.classes \subseteq Classes /\ a.props \subseteq Relations /\ b.classes \subseteq Classes /\ b.props \subseteq Relations
      /\ a.nodes \in [Classes -> NodeStore \cup Unreadable] /\ b.nodes \in [Classes -> NodeStore \cup Unreadable]
      /\ a.edges \in [Relations -> (SUBSET Edges) \cup Unreadable] /\ b.edges \in [Relations -> (SUBSET Edges) \cup Unreadable]
    BY DEF Kept, Bundle
<1>2. /\ d.classesAdded = b.classes \ a.classes /\ d.classesRemoved = a.classes \ b.classes
      /\ d.propsAdded = b.props \ a.props /\ d.propsRemoved = a.props \ b.props
      /\ DOMAIN d.nodes = SharedClasses(a, b) /\ DOMAIN d.edges = SharedProps(a, b)
      /\ \A c \in SharedClasses(a, b) : d.nodes[c] = ClassDiff(a, b, c)
      /\ \A r \in SharedProps(a, b) : d.edges[r] = RelationDiff(a, b, r)
    BY DEF DiffBundles
<1> HIDE DEF d
<1> DEFINE SameClasses == \A c \in SharedClasses(a, b) : a.nodes[c] = b.nodes[c]
           SameProps == \A r \in SharedProps(a, b) : a.edges[r] = b.edges[r]
<1>3. \A c \in SharedClasses(a, b) :
          (d.nodes[c].added = {} /\ d.nodes[c].removed = {} /\ ~d.nodes[c].schema) <=> a.nodes[c] = b.nodes[c]
    <2> SUFFICES ASSUME NEW c \in SharedClasses(a, b)
                 PROVE  (d.nodes[c].added = {} /\ d.nodes[c].removed = {} /\ ~d.nodes[c].schema) <=> a.nodes[c] = b.nodes[c]
        OBVIOUS
    <2>1. a.nodes[c] \in NodeStore /\ b.nodes[c] \in NodeStore
        BY <1>1 DEF SharedClasses, DiffRaises, Unreadable
    <2>2. d.nodes[c] = ClassDiff(a, b, c)
        BY <1>2
    <2>3. d.nodes[c].added = b.nodes[c].ids \ a.nodes[c].ids /\ d.nodes[c].removed = a.nodes[c].ids \ b.nodes[c].ids
        BY <2>2 DEF ClassDiff, NodeIdSet
    <2>4. d.nodes[c].schema <=> a.nodes[c].cols # b.nodes[c].cols
        <3>1. ClassDiff(a, b, c).schema = (a.nodes[c].cols # b.nodes[c].cols)
            BY DEF ClassDiff
        <3> QED BY <2>2, <3>1
    <2>5. a.nodes[c] = b.nodes[c] <=>
            /\ a.nodes[c].ids \ b.nodes[c].ids = {} /\ b.nodes[c].ids \ a.nodes[c].ids = {}
            /\ a.nodes[c].cols = b.nodes[c].cols
        BY <2>1, SameNodes
    <2> QED BY <2>3, <2>4, <2>5
<1>4. \A r \in SharedProps(a, b) : (d.edges[r].added = {} /\ d.edges[r].removed = {}) <=> a.edges[r] = b.edges[r]
    <2> SUFFICES ASSUME NEW r \in SharedProps(a, b)
                 PROVE  (d.edges[r].added = {} /\ d.edges[r].removed = {}) <=> a.edges[r] = b.edges[r]
        OBVIOUS
    <2>1. a.edges[r] \in SUBSET Edges /\ b.edges[r] \in SUBSET Edges
        <3>1. r \in Relations /\ a.edges[r] \notin Unreadable /\ b.edges[r] \notin Unreadable
            BY <1>1 DEF SharedProps, DiffRaises, Unreadable
        <3> QED BY <1>1, <3>1
    <2>2. d.edges[r].added = b.edges[r] \ a.edges[r] /\ d.edges[r].removed = a.edges[r] \ b.edges[r]
        <3>1. d.edges[r] = RelationDiff(a, b, r)
            BY <1>2
        <3> QED BY <3>1 DEF RelationDiff, EdgePairSet
    <2> QED BY <2>1, <2>2
<1>5. IsEmpty(d) <=> a.classes = b.classes /\ a.props = b.props /\ SameClasses /\ SameProps
    <2>1. (b.classes \ a.classes = {} /\ a.classes \ b.classes = {}) <=> a.classes = b.classes
        OBVIOUS
    <2>2. (b.props \ a.props = {} /\ a.props \ b.props = {}) <=> a.props = b.props
        OBVIOUS
    <2>3. (\A c \in DOMAIN d.nodes : d.nodes[c].added = {} /\ d.nodes[c].removed = {} /\ ~d.nodes[c].schema) <=> SameClasses
        BY <1>2, <1>3
    <2>4. (\A r \in DOMAIN d.edges : d.edges[r].added = {} /\ d.edges[r].removed = {}) <=> SameProps
        BY <1>2, <1>4
    <2> HIDE DEF SameClasses, SameProps
    <2> QED BY <1>2, <2>1, <2>2, <2>3, <2>4 DEF IsEmpty
<1>6. ASSUME a.props = b.props
      PROVE  SameProps <=> \A r \in Relations \ Unlinked : a.edges[r] = b.edges[r]
    <2>1. \A r \in SharedProps(a, b) : r \in Relations \ Unlinked
        BY <1>1 DEF SharedProps, Unlinked
    <2>2. \A r \in Relations \ Unlinked : r \notin SharedProps(a, b) => a.edges[r] = NoStore /\ b.edges[r] = NoStore
        BY <1>1, <1>6 DEF SharedProps, Unlinked, Kept
    <2> QED BY <2>1, <2>2
<1>7. ASSUME a.classes = b.classes
      PROVE  SameClasses <=> \A c \in Classes \ Unfilled : a.nodes[c] = b.nodes[c]
    <2>1. \A c \in SharedClasses(a, b) : c \in Classes \ Unfilled
        BY <1>1 DEF SharedClasses, Unfilled
    <2>2. \A c \in Classes \ Unfilled : c \notin SharedClasses(a, b) => a.nodes[c] = NoStore /\ b.nodes[c] = NoStore
        BY <1>1, <1>7 DEF SharedClasses, Unfilled, Kept
    <2> QED BY <2>1, <2>2
<1> HIDE DEF SameClasses, SameProps
<1> QED BY <1>5, <1>6, <1>7 DEF d

LEMMA DiffOfKept ==
    ASSUME Kept(a), Kept(b)
    PROVE  DiffExact
<1> DEFINE d == DiffBundles(a, b)
           e == DiffBundles(b, a)
           Compared(x) == [classes |-> x.classes, props |-> x.props,
                           nodes |-> [c \in Classes \ Unfilled |-> x.nodes[c]],
                           edges |-> [r \in Relations \ Unlinked |-> x.edges[r]]]
<1>1. ASSUME ~DiffRaises(a, b) PROVE IsEmpty(d) <=> Compared(a) = Compared(b)
    <2>1. [c \in Classes \ Unfilled |-> a.nodes[c]] = [c \in Classes \ Unfilled |-> b.nodes[c]]
             <=> \A c \in Classes \ Unfilled : a.nodes[c] = b.nodes[c]
        OBVIOUS
    <2>2. [r \in Relations \ Unlinked |-> a.edges[r]] = [r \in Relations \ Unlinked |-> b.edges[r]]
             <=> \A r \in Relations \ Unlinked : a.edges[r] = b.edges[r]
        OBVIOUS
    <2>3. Compared(a) = Compared(b) <=>
              /\ a.classes = b.classes /\ a.props = b.props
              /\ \A c \in Classes \ Unfilled : a.nodes[c] = b.nodes[c]
              /\ \A r \in Relations \ Unlinked : a.edges[r] = b.edges[r]
        BY <2>1, <2>2
    <2> QED BY <1>1, <2>3, EmptyDiff
<1>2. /\ d.classesAdded = e.classesRemoved /\ d.propsAdded = e.propsRemoved
      /\ DOMAIN d.nodes = DOMAIN e.nodes /\ DOMAIN d.edges = DOMAIN e.edges
    BY DEF DiffBundles, SharedClasses, SharedProps
<1>3. \A c \in DOMAIN d.nodes : d.nodes[c].added = e.nodes[c].removed /\ d.nodes[c].schema = e.nodes[c].schema
    BY DEF DiffBundles, SharedClasses, ClassDiff, NodeIdSet
<1>4. \A r \in DOMAIN d.edges : d.edges[r].added = e.edges[r].removed
    BY DEF DiffBundles, SharedProps, RelationDiff, EdgePairSet
<1>5. DiffRaises(a, b) <=> DiffRaises(b, a)
    BY DEF DiffRaises, SharedClasses, SharedProps
<1> QED BY <1>1, <1>2, <1>3, <1>4, <1>5 DEF DiffExact

(* diff_bundles is exact, apart from the names it skips, and symmetric for any *)
(* two bundles that declarations, inserts, rewrites and calls cut short in     *)
(* them can build, over any classes, properties, columns and ids.              *)
THEOREM DiffAlwaysExact == DiffSpec => []DiffExact
<1> DEFINE DInv == Kept(a) /\ Kept(b)
<1>1. DiffInit => DInv
    <2> SUFFICES Kept(Nothing)
        BY DEF DiffInit
    <2>1. /\ [c \in Classes |-> NoStore] \in [Classes -> NodeStore \cup Unreadable]
          /\ [r \in Relations |-> NoStore] \in [Relations -> (SUBSET Edges) \cup Unreadable]
        BY DEF Unreadable
    <2>2. Nothing \in Bundle
        BY <2>1 DEF Nothing, Bundle
    <2> QED BY <2>2 DEF Nothing, Kept
<1>2. DInv /\ [DiffNext]_diffVars => DInv'
    <2> SUFFICES ASSUME DInv, [DiffNext]_diffVars PROVE Kept(a') /\ Kept(b')
        BY DEF Kept
    <2> QED BY ChangedKept DEF DiffNext, diffVars
<1>3. DInv => DiffExact
    BY DiffOfKept
<1> QED BY <1>1, <1>2, <1>3, PTL DEF DiffSpec
=============================================================================
