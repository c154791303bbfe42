------------------------------- MODULE Cassette -------------------------------
(***************************************************************************)
(* Recording and replaying exchanges (cassette.py): sessions of            *)
(* use_cassette on one file, one after the other.  In each a test runs the *)
(* same requests, asks the cassette for each and goes to the provider for  *)
(* what it does not find, one request at a time or several at once.  A     *)
(* process may die at any point, between truncating and writing the file   *)
(* included.                                                               *)
(***************************************************************************)
EXTENDS Integers, Sequences, FiniteSets, SequencesExt

CONSTANTS
    Keys,         \* what cassette_key tells apart
    MaxRequests,  \* bound: requests of the test
    MaxSessions   \* bound: sessions on the file

ASSUME BoundsAssumption == MaxRequests \in Nat /\ MaxSessions \in Nat

Modes == {"record", "replay", "auto"}

(* Who answered: request i of session s, live.                             *)
Answer == (1..MaxSessions) \X (1..MaxRequests)
Nothing == <<0, 0>>
Miss == <<0, 1>>
Error == <<0, 2>>

Entry == [key : Keys, sequence : Nat, response : Answer]

VARIABLES
    program,     \* the requests of the test, by key
    serial,      \* does it wait for each answer
    session,     \* sessions begun
    pc,          \* "closed", "open", "saving"
    mode,
    sequential,
    file,        \* whole lines on disk, and is there a torn one after them
    entries,     \* Cassette.entries; _by_key is its grouping by key
    cursor,      \* _key_cursors
    seq_cursor,  \* _seq_cursor
    sequence,    \* CassetteRecorder._sequence
    asked,       \* requests asked so far
    live,        \* requests at the provider
    got,         \* what each request got
    loaded,      \* history: the lines the session found
    before       \* history: the last session that ran to its end

vars == <<program, serial, session, pc, mode, sequential, file, entries, cursor,
          seq_cursor, sequence, asked, live, got, loaded, before>>

NoSession == [mode |-> "none", sequential |-> FALSE, got |-> <<>>]

Init ==
    /\ program \in UNION {[1..n -> Keys] : n \in 1..MaxRequests}
    /\ serial \in BOOLEAN
    /\ session = 0
    /\ pc = "closed"
    /\ mode = "record"
    /\ sequential = FALSE
    /\ file = [lines |-> <<>>, torn |-> FALSE]
    /\ entries = <<>>
    /\ cursor = [k \in Keys |-> 0]
    /\ seq_cursor = 0
    /\ sequence = 0
    /\ asked = 0
    /\ live = {}
    /\ got = [i \in DOMAIN program |-> Nothing]
    /\ loaded = <<>>
    /\ before = NoSession
-----------------------------------------------------------------------------
records == mode \in {"record", "auto"}
replays == mode \in {"replay", "auto"}

(* Cassette._by_key[k], by places in the list s, and its element n, from 0.*)
by_key(s, k) == {j \in DOMAIN s : s[j].key = k}
element(s, k, n) == {j \in by_key(s, k) : Cardinality({h \in by_key(s, k) : h < j}) = n}

SlipFreshRecorder(m, sq) ==   \* a slip: the recorder keeps a cassette of its own
    /\ pc = "closed"
    /\ session < MaxSessions
    /\ m # "record" => ~file.torn
    /\ session' = session + 1
    /\ pc' = "open"
    /\ mode' = m
    /\ sequential' = sq
    /\ loaded' = file.lines
    /\ entries' = IF m = "replay" THEN file.lines ELSE <<>>
    /\ sequence' = Len(entries')
    /\ cursor' = [k \in Keys |-> 0]
    /\ seq_cursor' = 0
    /\ asked' = 0
    /\ live' = {}
    /\ got' = [i \in DOMAIN program |-> Nothing]
    /\ UNCHANGED <<program, serial, file, before>>

(* use_cassette is entered: load, unless recording afresh; the recorder    *)
(* goes on numbering where the file ends.                                  *)
Open(m, sq) ==
    /\ pc = "closed"
    /\ session < MaxSessions
    /\ m # "record" => ~file.torn
    /\ session' = session + 1
    /\ pc' = "open"
    /\ mode' = m
    /\ sequential' = sq
    /\ loaded' = IF m = "record" THEN <<>> ELSE file.lines
    /\ entries' = loaded'
    /\ sequence' = Len(loaded')
    /\ cursor' = [k \in Keys |-> 0]
    /\ seq_cursor' = 0
    /\ asked' = 0
    /\ live' = {}
    /\ got' = [i \in DOMAIN program |-> Nothing]
    /\ UNCHANGED <<program, serial, file, before>>

(* A torn line does not parse, and load raises.                            *)
LoadFails(m) ==
    /\ pc = "closed"
    /\ session < MaxSessions
    /\ m # "record"
    /\ file.torn
    /\ session' = session + 1
    /\ UNCHANGED <<program, serial, pc, mode, sequential, file, entries, cursor, seq_cursor,
                   sequence, asked, live, got, loaded, before>>

(* The next request of the test is due.                                    *)
Asks(i) ==
    /\ pc = "open"
    /\ asked < Len(program)
    /\ i = asked + 1
    /\ serial => live = {}
    /\ asked' = i

SlipCursorStuck(i) ==         \* a slip: lookup does not advance its cursor
    /\ Asks(i)
    /\ replays /\ ~sequential
    /\ cursor[program[i]] < Cardinality(by_key(entries, program[i]))
    /\ \E j \in element(entries, program[i], cursor[program[i]]) :
           got' = [got EXCEPT ![i] = entries[j].response]
    /\ UNCHANGED <<program, serial, session, pc, mode, sequential, file, entries, cursor,
                   seq_cursor, sequence, live, loaded, before>>

(* lookup by content: the next recording of that key.                      *)
FoundByKey(i) ==
    /\ Asks(i)
    /\ replays /\ ~sequential
    /\ LET k == program[i]
       IN  /\ cursor[k] < Cardinality(by_key(entries, k))
           /\ \E j \in element(entries, k, cursor[k]) : got' = [got EXCEPT ![i] = entries[j].response]
           /\ cursor' = [cursor EXCEPT ![k] = @ + 1]
    /\ UNCHANGED <<program, serial, session, pc, mode, sequential, file, entries,
                   seq_cursor, sequence, live, loaded, before>>

(* next_sequential: the next recording, whatever its key.                  *)
FoundInSequence(i) ==
    /\ Asks(i)
    /\ replays /\ sequential
    /\ seq_cursor < Len(entries)
    /\ got' = [got EXCEPT ![i] = entries[seq_cursor + 1].response]
    /\ seq_cursor' = seq_cursor + 1
    /\ UNCHANGED <<program, serial, session, pc, mode, sequential, file, entries, cursor,
                   sequence, live, loaded, before>>

(* Nothing found, or nothing asked while recording: the provider is asked, *)
(* except in replay, where the lookup returns None.                        *)
Missed(i) ==
    /\ Asks(i)
    /\ replays /\ ~sequential => cursor[program[i]] >= Cardinality(by_key(entries, program[i]))
    /\ replays /\ sequential => seq_cursor >= Len(entries)
    /\ IF mode = "replay"
       THEN got' = [got EXCEPT ![i] = Miss] /\ UNCHANGED live
       ELSE live' = live \cup {i} /\ UNCHANGED got
    /\ UNCHANGED <<program, serial, session, pc, mode, sequential, file, entries, cursor,
                   seq_cursor, sequence, loaded, before>>

(* The provider answers; on_response records the pair.                     *)
LiveAnswers(i) ==
    /\ pc = "open"
    /\ i \in live
    /\ live' = live \ {i}
    /\ got' = [got EXCEPT ![i] = <<session, i>>]
    /\ entries' = Append(entries,
            [key |-> program[i], sequence |-> sequence, response |-> <<session, i>>])
    /\ sequence' = sequence + 1
    /\ UNCHANGED <<program, serial, session, pc, mode, sequential, file, cursor, seq_cursor,
                   asked, loaded, before>>

LiveFails(i) ==
    /\ pc = "open"
    /\ i \in live
    /\ live' = live \ {i}
    /\ got' = [got EXCEPT ![i] = Error]
    /\ UNCHANGED <<program, serial, session, pc, mode, sequential, file, entries, cursor,
                   seq_cursor, sequence, asked, loaded, before>>

(* The test ends, or fails early; a recorder saves in either case.         *)
Ended == IF asked = Len(program)
         THEN [mode |-> mode, sequential |-> sequential, got |-> got]
         ELSE NoSession

CloseReplay ==
    /\ pc = "open"
    /\ live = {}
    /\ ~records
    /\ pc' = "closed"
    /\ before' = Ended
    /\ UNCHANGED <<program, serial, session, mode, sequential, file, entries, cursor,
                   seq_cursor, sequence, asked, live, got, loaded>>

SaveOpen ==
    /\ pc = "open"
    /\ live = {}
    /\ records
    /\ pc' = "saving"
    /\ file' = [lines |-> <<>>, torn |-> FALSE]
    /\ UNCHANGED <<program, serial, session, mode, sequential, entries, cursor,
                   seq_cursor, sequence, asked, live, got, loaded, before>>

SaveWrite ==
    /\ pc = "saving"
    /\ pc' = "closed"
    /\ file' = [lines |-> entries, torn |-> FALSE]
    /\ before' = Ended
    /\ UNCHANGED <<program, serial, session, mode, sequential, entries, cursor,
                   seq_cursor, sequence, asked, live, got, loaded>>

(* The process dies: what was not saved is gone; of a save, some lines and *)
(* perhaps a piece of the next are on disk.                                *)
Crash ==
    /\ pc # "closed"
    /\ pc' = "closed"
    /\ IF pc = "saving"
       THEN \E n \in 0..Len(entries), torn \in BOOLEAN :
                /\ torn => n < Len(entries)
                /\ file' = [lines |-> SubSeq(entries, 1, n), torn |-> torn]
       ELSE UNCHANGED file
    /\ mode' = "record"
    /\ entries' = <<>>
    /\ cursor' = [k \in Keys |-> 0]
    /\ seq_cursor' = 0
    /\ sequence' = 0
    /\ live' = {}
    /\ loaded' = <<>>
    /\ before' = NoSession
    /\ UNCHANGED <<program, serial, session, sequential, asked, got>>

Terminated == pc = "closed" /\ session = MaxSessions /\ UNCHANGED vars

Next ==
    \/ \E m \in Modes, sq \in BOOLEAN : Open(m, sq)
    \/ \E m \in Modes : LoadFails(m)
    \/ \E i \in DOMAIN program :
        \/ FoundByKey(i) \/ FoundInSequence(i) \/ Missed(i)
        \/ LiveAnswers(i) \/ LiveFails(i)
    \/ CloseReplay \/ SaveOpen \/ SaveWrite \/ Crash
    \/ Terminated

Spec == Init /\ [][Next]_vars
-----------------------------------------------------------------------------
(***************************************************************************)
(* "Deterministic regression tests" (cassette.py:4): a test that waits for *)
(* each answer is told, request by request, what it was told before: when  *)
(* the cassette was recorded without a failure, by content or in sequence; *)
(* when it was replayed the same way; and after AUTO mode by content, for  *)
(* a test that never asks the same twice.                                  *)
(***************************************************************************)
Complete == \A i \in DOMAIN program : before.got[i] \in Answer

Deterministic ==
    /\ serial /\ pc = "open"
    /\ \/ /\ replays
          /\ before.mode = "record" /\ Complete
       \/ /\ replays /\ ~sequential
          /\ before.mode = "auto" /\ ~before.sequential /\ Complete
          /\ IsInjective(program)
       \/ /\ mode = "replay"
          /\ before.mode = "replay" /\ before.sequential = sequential
    => \A i \in 1..asked : got[i] = before.got[i]

(***************************************************************************)
(* Recording on in AUTO mode loses nothing: a session saves what it found, *)
(* then what it added, and the lines of the file are numbered through,     *)
(* early exits, crashes and concurrent answers included.                   *)
(***************************************************************************)
FileGrows ==
    /\ pc = "closed" /\ mode = "auto" => IsPrefix(loaded, file.lines)
    /\ \A i \in DOMAIN file.lines : file.lines[i].sequence = i - 1
=============================================================================
