------------------------------ MODULE FileCache ------------------------------
(***************************************************************************)
(* FileCache (cache.py): one gzip file per key in a directory several      *)
(* processes share, with no lock.  put truncates the file and then writes  *)
(* it; a compressed answer larger than the stream buffer, or a page, needs *)
(* more than one write, so an entry is a head and a tail.  A step is one   *)
(* file system call.  A process may die between two of them, and a write   *)
(* may fail (disk full) when Faults holds.                                 *)
(*                                                                         *)
(* The operators take the process so that RequestLifecycle can interleave  *)
(* them with the calls they belong to.                                     *)
(***************************************************************************)
EXTENDS Naturals

CONSTANTS
    Procs,     \* client processes that share the directory
    Keys,      \* cache keys
    Values,    \* distinct answers a provider may give
    Faults     \* may processes die and writes fail?

ASSUME KeysAssumption == Keys # {}
ASSUME FaultsAssumption == Faults \in BOOLEAN

Hole == "hole"         \* bytes not written: the end of the file, or zeros
NoValue == "none"      \* get returned None
Broken == "broken"     \* get raised EOFError or zlib.error
ASSUME ValuesAssumption == {Hole, NoValue, Broken} \cap Values = {}

VARIABLES
    file,      \* what the directory holds for each key
    io         \* what each process is doing in the cache

cacheVars == <<file, io>>

Piece == Values \cup {Hole}
Entry == [exists: BOOLEAN, head: Piece, tail: Piece]
Absent == [exists |-> FALSE, head |-> Hole, tail |-> Hole]
Empty == [exists |-> TRUE, head |-> Hole, tail |-> Hole]

(* detached: the file being written was unlinked or never opened.          *)
Io == [op: {"idle", "reading", "putting", "opened", "head_written"},
       key: Keys, value: Piece, detached: BOOLEAN]
IdleIo == [op |-> "idle", key |-> CHOOSE k \in Keys : TRUE, value |-> Hole, detached |-> FALSE]

CacheInit ==
    /\ file \in [Keys -> {Absent}]
    /\ io \in [Procs -> {IdleIo}]

Set(p, op) == io' = [io EXCEPT ![p].op = op]
Release(p) == io' = [io EXCEPT ![p] = IdleIo]
-----------------------------------------------------------------------------
(* gzip.decompress and json.loads on the bytes of an entry.  An empty file *)
(* and one that starts with zeros are errors get handles; a file that      *)
(* stops early raises EOFError, which it does not; two halves of different *)
(* answers fail in the CRC (handled) or in the decompressor (zlib.error,   *)
(* not handled).                                                           *)
Decoded(e) ==
    IF ~e.exists \/ e.head = Hole THEN {NoValue}
    ELSE IF e.tail = Hole THEN {Broken}
    ELSE IF e.head = e.tail THEN {e.head}
    ELSE {NoValue, Broken}

(* get: the existence test, then the read.                                 *)
GetAbsent(p, k) == io[p].op = "idle" /\ ~file[k].exists

GetFound(p, k) ==
    /\ io[p].op = "idle"
    /\ file[k].exists
    /\ io' = [io EXCEPT ![p].op = "reading", ![p].key = k]
    /\ UNCHANGED file

SlipWaitWhole(p, answer) ==   \* a slip: wait until the entry is whole
    /\ io[p].op = "reading"
    /\ answer \in Decoded(file[io[p].key]) \ {Broken}
    /\ Release(p)
    /\ UNCHANGED file

Get(p, answer) ==
    /\ io[p].op = "reading"
    /\ answer \in Decoded(file[io[p].key])
    /\ Release(p)
    /\ UNCHANGED file

(* put: mkdir and serialisation, open with O_TRUNC, the writes.            *)
PutBegin(p, k, v) ==
    /\ io[p].op = "idle"
    /\ io' = [io EXCEPT ![p] = [op |-> "putting", key |-> k, value |-> v, detached |-> FALSE]]
    /\ UNCHANGED file

PutOpen(p) ==
    /\ io[p].op = "putting"
    /\ file' = [file EXCEPT ![io[p].key] = Empty]
    /\ Set(p, "opened")

Write(p, piece, next) ==
    /\ file' = [file EXCEPT ![io[p].key] =
                    IF io[p].detached THEN @
                    ELSE IF piece = "head" THEN [@ EXCEPT !.head = io[p].value]
                    ELSE [@ EXCEPT !.tail = io[p].value]]
    /\ IF next = "idle" THEN Release(p) ELSE Set(p, next)

PutHead(p) == io[p].op = "opened" /\ Write(p, "head", "head_written")

PutTail(p) == io[p].op = "head_written" /\ Write(p, "tail", "idle")

(* OSError is logged and swallowed; what was written stays.  Before the    *)
(* open it needs no fault: clear may just have removed the directory.      *)
PutFails(p) ==
    /\ io[p].op \in {"putting"} \cup (IF Faults THEN {"opened", "head_written"} ELSE {})
    /\ Release(p)
    /\ UNCHANGED file

Die(p) ==
    /\ Faults
    /\ Release(p)
    /\ UNCHANGED file

(* clear: rmtree unlinks one entry after the other.  A writer that holds   *)
(* the file goes on writing to an inode nobody can reach.                  *)
Unlink(k) ==
    /\ file[k].exists
    /\ file' = [file EXCEPT ![k] = Absent]
    /\ io' = [p \in Procs |->
                IF io[p].key = k /\ io[p].op \in {"opened", "head_written"}
                THEN [io[p] EXCEPT !.detached = TRUE] ELSE io[p]]
-----------------------------------------------------------------------------
CacheTypeOK ==
    /\ file \in [Keys -> Entry]
    /\ io \in [Procs -> Io]

=============================================================================
