------------------------------ MODULE PrefManagerPi ------------------------------
(***************************************************************************)
(* PrefManager of driver_pi: the preferences are a rapidjson document in   *)
(* memory, read from config.json by init and written back by commit.       *)
(* rapidjson and the file system are external: an access to a document     *)
(* that is no object stops the program (an assertion of rapidjson), and a  *)
(* double that is not a number cannot be written.  The schema file is      *)
(* there and readable.                                                     *)
(***************************************************************************)
EXTENDS Naturals

CONSTANTS Keys,
          Type,         \* which read and write functions a key is used with
          Buffers,      \* memory of the callers that write_str is given
          Texts,        \* what a buffer can hold
          KeepsBuffers, \* whether callers leave the buffers they passed alone
          None,         \* the answer "not there", or the key is not there
          Broken        \* in place of every value of a file that is not JSON

Uints  == {"u8", "u16", "u32", "u64"}
Ints   == {"i16", "i32"}
Floats == {"float", "double"}

VARIABLES phase,        \* "off", "up", or "committing"
          doc,          \* the document: NullDoc, or what it has for each key
          file,         \* config.json: its values; no file is as good as {}
          buf,          \* what the buffers of the callers hold
          call          \* the last: "read" or "write", the key, the value

vars == <<phase, doc, file, buf, call>>

\* A value of the document says which of rapidjson's types it has; a string
\* either is a copy or points into a buffer.
Missing == [json |-> "missing", val |-> None]
NullDoc == [k \in Keys |-> [json |-> "null", val |-> None]]
Torn    == [k \in Keys |-> Broken]

Numbers(k) == CASE Type[k] \in Uints  -> {"one", "two"}
                [] Type[k] \in Ints   -> {"minus", "one"}
                [] Type[k] \in Floats -> {"half", "nan"}
                [] Type[k] = "ary"    -> {"bytes", "more"}
                [] Type[k] = "str"    -> {}

Json(k, v) == CASE Type[k] \in Floats -> "double"
                [] Type[k] = "ary"    -> "array"
                [] Type[k] = "str"    -> "string"
                [] OTHER              -> IF v = "minus" THEN "int" ELSE "uint"

\* The test of each read function: IsUint, IsUint64, IsInt, IsDouble, ...;
\* IsFloat is false for a double that is no number.
Accepts(k) == CASE Type[k] \in Uints \cup {"i16"} -> doc[k].json = "uint"
                [] Type[k] = "i32"    -> doc[k].json \in {"uint", "int"}
                [] Type[k] = "double" -> doc[k].json = "double"
                [] Type[k] = "float"  -> doc[k].json = "double" /\ doc[k].val # "nan"
                [] Type[k] = "ary"    -> doc[k].json = "array"
                [] OTHER              -> doc[k].json \in {"string", "ref"}

Content(k) == IF doc[k].json = "ref" THEN buf[doc[k].val] ELSE doc[k].val

Init == /\ phase = "off" /\ doc = NullDoc /\ file = [k \in Keys |-> None]
        /\ buf \in [Buffers -> Texts]
        /\ call = <<"read", None, None>>

----------------------------------------------------------------------------
(* Deviations that the properties must notice; Next does not use them.     *)

\* A write function without the branch for a key that is there already.
WriteOnlyNew(k, v) ==
  /\ phase = "up" /\ doc # NullDoc
  /\ doc' = IF doc[k] = Missing THEN [doc EXCEPT ![k] = [json |-> Json(k, v), val |-> v]]
                                ELSE doc
  /\ call' = <<"write", k, v>>
  /\ UNCHANGED <<phase, file, buf>>

\* The string is not given its length: the pointer itself is the value.
write_strPointer(k, b) ==
  /\ phase = "up" /\ doc # NullDoc
  /\ Type[k] = "str"
  /\ doc' = [doc EXCEPT ![k] = [json |-> "string", val |-> b]]
  /\ call' = <<"write", k, buf[b]>>
  /\ UNCHANGED <<phase, file, buf>>

----------------------------------------------------------------------------
\* The document read from the file.  Numbers keep their types; a string is a
\* copy.
Parsed == [k \in Keys |-> IF file[k] = None THEN Missing
                          ELSE [json |-> Json(k, file[k]), val |-> file[k]]]

\* A file that cannot be parsed leaves the document null.
InitPref == /\ phase = "off" /\ phase' = "up"
            /\ doc' = IF file = Torn THEN NullDoc ELSE Parsed
            /\ UNCHANGED <<file, buf, call>>

\* HasMember of a document that is no object.
Abort == /\ phase = "up" /\ doc = NullDoc
         /\ phase' = "off"
         /\ UNCHANGED <<doc, file, buf, call>>

\* write_u8, ... write_float, write_ary.
Write(k, v) == /\ phase = "up" /\ doc # NullDoc
               /\ doc' = [doc EXCEPT ![k] = [json |-> Json(k, v), val |-> v]]
               /\ call' = <<"write", k, v>>
               /\ UNCHANGED <<phase, file, buf>>

\* A key that is there gets a pointer to the buffer, a new one a copy of it.
write_str(k, b) ==
  /\ phase = "up" /\ doc # NullDoc
  /\ Type[k] = "str"
  /\ doc' = [doc EXCEPT ![k] = IF doc[k] # Missing
                                 THEN [json |-> "ref", val |-> b]
                                 ELSE [json |-> "string", val |-> buf[b]]]
  /\ call' = <<"write", k, buf[b]>>
  /\ UNCHANGED <<phase, file, buf>>

Read(k) == /\ phase = "up" /\ doc # NullDoc
           /\ call' = <<"read", k, IF Accepts(k) THEN Content(k) ELSE None>>
           /\ UNCHANGED <<phase, doc, file, buf>>

\* fopen with "w" truncates the file.
CommitOpen == /\ phase = "up" /\ phase' = "committing"
              /\ file' = Torn
              /\ UNCHANGED <<doc, buf, call>>

\* The writer stops at the first double that is not a number.
CommitWrite == /\ phase = "committing" /\ phase' = "up"
               /\ file' = IF doc = NullDoc \/ \E k \in Keys : doc[k].val = "nan"
                            THEN Torn
                            ELSE [k \in Keys |-> Content(k)]
               /\ UNCHANGED <<doc, buf, call>>

\* The program ends or is ended, at any time.
Crash == /\ phase # "off" /\ phase' = "off"
         /\ doc' = NullDoc
         /\ UNCHANGED <<file, buf, call>>

\* A caller uses its buffer for something else.
Reuse(b, text) == /\ KeepsBuffers => \A k \in Keys : doc[k] # [json |-> "ref", val |-> b]
                  /\ buf[b] # text
                  /\ buf' = [buf EXCEPT ![b] = text]
                  /\ UNCHANGED <<phase, doc, file, call>>

Next == \/ InitPref \/ Abort \/ CommitOpen \/ CommitWrite \/ Crash
        \/ \E k \in Keys : Read(k) \/ (\E v \in Numbers(k) : Write(k, v))
                                   \/ (\E b \in Buffers : write_str(k, b))
        \/ \E b \in Buffers, text \in Texts : Reuse(b, text)

Spec == Init /\ [][Next]_vars

----------------------------------------------------------------------------
Values == Texts \cup {"minus", "one", "two", "half", "nan", "bytes", "more"}

Entries == {Missing} \cup
           [json : {"uint", "int", "double", "array", "string"}, val : Values] \cup
           [json : {"ref"}, val : Buffers]

TypeOK == /\ phase \in {"off", "up", "committing"}
          /\ doc = NullDoc \/ doc \in [Keys -> Entries]
          /\ file \in {Torn} \cup [Keys -> Values \cup {None}]
          /\ buf \in [Buffers -> Texts]
          /\ call \in {"read", "write"} \X (Keys \cup {None}) \X (Values \cup {None})

(* The file is in danger during a commit only: otherwise it is torn because *)
(* a crash hit a commit, or because a double that is no number was written, *)
(* and then nothing is ever read or written again.  Callers that leave      *)
(* their buffers alone find what they wrote, before and after a restart,    *)
(* except for negative numbers in read_i16, which tests IsUint, and floats  *)
(* that are no number.                                                      *)
Answers(k, v) ==
  {v} \cup IF <<Type[k], v>> \in {<<"i16", "minus">>, <<"float", "nan">>}
           THEN {None} ELSE {}

P == INSTANCE Prefs WITH
       phase <- IF doc = NullDoc THEN "off" ELSE phase,
       work <- [k \in Keys |-> Content(k)],
       stored <- file,
       Lost <- Torn,
       Unstorable <- {"nan"},
       MayFail <- FALSE
IsPrefs == P!Spec
=================================================================================
