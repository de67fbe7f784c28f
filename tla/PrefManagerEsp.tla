----------------------------- MODULE PrefManagerEsp -----------------------------
(***************************************************************************)
(* PrefManager of driver_esp32: every call is a call of the non-volatile   *)
(* storage (NVS) of the chip, which is external: what it is given it       *)
(* answers from then on, and keeps over a restart once it is committed;    *)
(* before that it may or may not.  Opening, reading, setting and           *)
(* committing may fail, which is logged only.  Tasks share the object;     *)
(* each call of the NVS is atomic, so that only the two calls of read_ary, *)
(* here of one task, can be interleaved with those of others.              *)
(***************************************************************************)
EXTENDS Naturals, Sequences, SequencesExt

CONSTANTS Keys,
          Type,         \* which read and write functions a key is used with
          Chars,        \* of texts
          MAX_LEN,      \* what is written is at most this long, and at most
                        \* this much is expected by a read
          None          \* the key, the default, or no read is there

ASSUME KindAssumption == /\ Type \in [Keys -> {"int", "real", "ary", "str"}]
                         /\ Chars \subseteq Nat \ {0}
                         /\ MAX_LEN \in Nat \ {0}

VARIABLES opened,       \* whether nvs is a handle
          nvs,          \* what the storage answers
          flash,        \* what it has committed
          reader,       \* the read_ary between its two calls, or None
          call          \* the last finished: "read", "miss" (a read that the NVS
                        \* or the length failed) or "write", key, and value

vars == <<opened, nvs, flash, reader, call>>

Nothing == [k \in Keys |-> None]
Texts   == BoundedSeq(Chars, MAX_LEN)
Values  == Texts \ {<<>>}
Blobs   == UNION {[1 .. n -> Chars \cup {0}] : n \in 0 .. MAX_LEN}

\* The buffers that a caller may offer for exp_len bytes.
BuffersOf(exp_len) == [1 .. exp_len -> Chars \cup {0}]

\* What is not there is neither a blob nor a whole storage.
ASSUME NoneAssumption == None \notin Blobs \cup [Keys -> Values \cup {None}]

\* Numbers are blobs of one character, arrays are not empty.
Inputs(k) == CASE Type[k] \in {"int", "real"} -> {<<c>> : c \in Chars}
               [] Type[k] = "ary"             -> Values
               [] Type[k] = "str"             -> Texts

----------------------------------------------------------------------------
(* Deviations that the properties must notice; Next does not use them.     *)

\* The terminator is forgotten, or written behind the buffer.
NeverTerminated(text)  == text
AlwaysTerminated(text) == Append(text, 0)

----------------------------------------------------------------------------
Terminated(text) == IF Len(text) < MAX_LEN THEN Append(text, 0) ELSE text

\* A buffer after the first bytes of it have been overwritten with a blob.
memcpy(ary, blob) == [i \in DOMAIN ary |-> IF i <= Len(blob) THEN blob[i] ELSE ary[i]]

\* The text in a buffer or a blob: what is before the first zero.
Before0(ary) == LET zero == SelectInSeq(ary, LAMBDA c : c = 0)
                IN  IF zero = 0 THEN ary ELSE SubSeq(ary, 1, zero - 1)

\* A read that returns the length 0 has read nothing.
Result(ary) == IF ary = <<>> THEN None ELSE ary

Stored(k) == IF opened THEN nvs[k] ELSE None

Init == /\ opened = FALSE
        /\ nvs = Nothing /\ flash = Nothing
        /\ reader = None
        /\ call = <<"read", None, None>>

InitPref == /\ ~opened /\ opened' \in BOOLEAN
            /\ UNCHANGED <<nvs, flash, reader, call>>

Commit == /\ opened
          /\ flash' \in {nvs, flash}
          /\ UNCHANGED <<opened, nvs, reader, call>>

\* All write functions; without a handle, or if it fails, nothing is set.
Set(k, blob, v) == /\ call' = <<"write", k, v>>
                   /\ \/ opened /\ nvs' = [nvs EXCEPT ![k] = blob]
                      \/ nvs' = nvs
                   /\ UNCHANGED <<opened, flash, reader>>

write(k, v) == /\ Type[k] # "str"
               /\ Set(k, v, v)

write_str(k, text) == /\ Type[k] = "str"
                      /\ Set(k, Terminated(text), Result(text))

\* read_u8, ... read_u64.
read_int(k) == /\ Type[k] = "int"
               /\ \/ call' = <<"read", k, Stored(k)>>
                  \/ opened /\ call' = <<"miss", k, None>>
               /\ UNCHANGED <<opened, nvs, flash, reader>>

\* read_double, read_float: len is not initialized, and may be too small.
read_real(k) == /\ Type[k] = "real"
                /\ \/ \E fits \in BOOLEAN :
                        call' = <<"read", k, IF fits THEN Stored(k) ELSE None>>
                   \/ opened /\ call' = <<"miss", k, None>>
                /\ UNCHANGED <<opened, nvs, flash, reader>>

\* The end of read_ary and of read_str, which does not look at what read_ary
\* returns: if it has failed the text is what the caller's buffer has.
Return(how, k, blob, exp_len) ==
  \/ /\ Type[k] = "ary"
     /\ call' = <<how, k, blob>>
  \/ /\ Type[k] = "str"
     /\ \E ary \in BuffersOf(exp_len) :
          call' = <<how, k, Result(Before0(IF blob = None THEN ary ELSE memcpy(ary, blob)))>>

\* The first call of read_ary asks for the length.  There is none, or it fails
\* or the blob is longer than expected, or the read goes on...
ReadLength(k, exp_len) ==
  /\ Type[k] \in {"ary", "str"} /\ reader = None
  /\ \/ Stored(k) = None /\ Return("read", k, None, exp_len) /\ UNCHANGED reader
     \/ Stored(k) # None /\ Return("miss", k, None, exp_len) /\ UNCHANGED reader
     \/ /\ Stored(k) # None /\ Len(nvs[k]) <= exp_len
        /\ reader' = [key |-> k, len |-> Len(nvs[k]), exp_len |-> exp_len]
        /\ UNCHANGED call
  /\ UNCHANGED <<opened, nvs, flash>>

\* ... with the second call, which fails if the blob is longer by now.
ReadData ==
  /\ reader # None /\ reader' = None
  /\ \/ /\ Len(nvs[reader.key]) <= reader.len
        /\ Return("read", reader.key, nvs[reader.key], reader.exp_len)
     \/ Return("miss", reader.key, None, reader.exp_len)
  /\ UNCHANGED <<opened, nvs, flash>>

\* What has been set since the last commit may be in the flash already.
Restart == /\ opened /\ opened' = FALSE
           /\ \E kept \in SUBSET Keys :
                flash' = [k \in Keys |-> IF k \in kept THEN nvs[k] ELSE flash[k]]
           /\ nvs' = flash' /\ reader' = None
           /\ UNCHANGED call

Next == \/ InitPref \/ Commit \/ ReadData \/ Restart
        \/ \E k \in Keys : read_int(k) \/ read_real(k)
        \/ \E k \in Keys, exp_len \in 1 .. MAX_LEN : ReadLength(k, exp_len)
        \/ \E k \in Keys : \E v \in Inputs(k) : write(k, v) \/ write_str(k, v)

Spec == Init /\ [][Next]_vars

----------------------------------------------------------------------------
\* Nothing longer than max_len is stored.
TypeOK == /\ opened \in BOOLEAN
          /\ nvs \in [Keys -> Blobs \cup {None}]
          /\ flash \in [Keys -> Blobs \cup {None}]
          /\ \/ reader = None
             \/ reader \in [key : Keys, len : 0 .. MAX_LEN, exp_len : 1 .. MAX_LEN]
          /\ call \in {"read", "miss", "write"} \X (Keys \cup {None}) \X (Values \cup {None})

\* What a blob means to the program.
Meaning(blobs) == [k \in Keys |-> IF blobs[k] = None THEN None ELSE Result(Before0(blobs[k]))]

\* A double or a float is missed now and then.  A text that is not there is
\* whatever the caller's buffer has.
Answers(k, v) == CASE Type[k] = "real"            -> {v, None}
                   [] Type[k] = "str" /\ v = None -> Values \cup {None}
                   [] OTHER                       -> {v}

(* Whatever a buffer held before, a read finds the text that was written    *)
(* last and nothing of an earlier one, over restarts too, although the      *)
(* terminator is stored only where there is room for it.  A read that the   *)
(* storage fails, that expects less than is stored, or in whose midst       *)
(* something longer is written, answers the default, or, of a text, what    *)
(* the caller's buffer has.                                                 *)
P == INSTANCE Prefs WITH
       phase <- IF opened THEN "up" ELSE "off",
       work <- IF opened THEN Meaning(nvs) ELSE Nothing,
       stored <- Meaning(flash),
       Lost <- None, Unstorable <- {}, MayFail <- TRUE
IsPrefs == P!Spec

(* What the comment above the buffers of read_double and read_float says    *)
(* they are one byte longer for: that a number that is stored is read.      *)
RealsAreRead ==
  [][\A k \in Keys : Type[k] = "real" /\ Stored(k) # None /\ call' # call
                       => call' # <<"read", k, None>>]_vars
=================================================================================
