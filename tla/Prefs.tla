---------------------------------- MODULE Prefs ----------------------------------
(***************************************************************************)
(* What a PrefManager promises on both targets: a store of preferences     *)
(* that is written in memory and made durable by commit.  A read answers   *)
(* what was written last.  A crash costs at most what was written since    *)
(* the last commit, and everything only if it happens during a commit that *)
(* rewrites the storage as a whole.                                        *)
(***************************************************************************)
CONSTANTS Keys,
          Values,
          None,         \* "not there, use the default", and an empty text
          Lost,         \* a storage that cannot be read any more
          Answers(_, _), \* what a read of a key with that value may answer
          Unstorable,   \* values that spoil the storage
          MayFail       \* whether a call may fail unnoticed

VARIABLES phase,        \* "off", "up" or "committing"
          work,         \* the preferences as the program sees them
          stored,       \* the preferences as the storage holds them, or Lost
          call          \* the last call: "read", "miss" (a read that failed) or
                        \* "write", the key, the value

vars == <<phase, work, stored, call>>

Empty == [k \in Keys |-> None]

Init == /\ phase = "off" /\ work = Empty /\ stored = Empty
        /\ call = <<"read", None, None>>

Start == /\ phase = "off" /\ stored # Lost
         /\ phase' = "up" /\ work' = stored
         /\ UNCHANGED <<stored, call>>

\* While the store is not up nothing is there to be read, and a write is
\* forgotten.
CallNothing(k, v) == /\ \/ call' = <<"write", k, v>>
                        \/ call' = <<"read", k, v>> /\ v \in Answers(k, None)
                     /\ phase = "off"
                     /\ UNCHANGED <<phase, work, stored>>

Read(k) == /\ phase = "up"
           /\ \E v \in Values \cup {None} : /\ call' = <<"read", k, v>>
                                          /\ v \in Answers(k, work[k])
           /\ UNCHANGED <<phase, work, stored>>

\* A read that fails answers as if nothing were there.
Miss(k) == /\ phase = "up" /\ MayFail
           /\ \E v \in Values \cup {None} : /\ call' = <<"miss", k, v>>
                                          /\ v \in Answers(k, None)
           /\ UNCHANGED <<phase, work, stored>>

Write(k, v) == /\ call' = <<"write", k, v>>
               /\ phase = "up"
               /\ \/ work' = [work EXCEPT ![k] = v]
                  \/ MayFail /\ work' = work
               /\ UNCHANGED <<phase, stored>>

\* A storage that is updated safely...
Commit == /\ phase = "up"
          /\ UNCHANGED <<call, phase, work>>
          /\ stored' = work \/ (MayFail /\ stored' = stored)

\* ... and one that is rewritten, and in danger meanwhile.
CommitBegin == /\ phase = "up" /\ phase' = "committing"
               /\ stored' = Lost
               /\ UNCHANGED <<work, call>>

CommitEnd == /\ phase = "committing" /\ phase' = "up"
             /\ \/ stored' = work
                \/ stored' = Lost /\ \E k \in Keys : work[k] \in Unstorable
             /\ UNCHANGED <<work, call>>

\* What was written since the last commit may be durable already.
Crash == /\ phase # "off" /\ phase' = "off"
         /\ work' = Empty
         /\ IF stored = Lost
              THEN stored' = Lost
              ELSE /\ stored' \in [Keys -> Values \cup {None}]
                   /\ \A k \in Keys : stored'[k] \in {stored[k], work[k]}
         /\ UNCHANGED call

Next == \/ Start \/ Commit \/ CommitBegin \/ CommitEnd \/ Crash
        \/ \E k \in Keys : Read(k) \/ Miss(k)
        \/ \E k \in Keys, v \in Values \cup {None} : Write(k, v) \/ CallNothing(k, v)

Spec == Init /\ [][Next]_vars
=================================================================================
