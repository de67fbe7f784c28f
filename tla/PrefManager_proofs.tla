--------------------------- MODULE PrefManager_proofs ---------------------------
(***************************************************************************)
(* Proofs about the PrefManagers of both targets: their types, and that    *)
(* each implements the store of Prefs, for any keys, texts and buffers.    *)
(***************************************************************************)
EXTENDS MCPrefManager, SequenceTheorems, WellFoundedInduction, TLAPS

----------------------------------------------------------------------------
(* ESP32: texts, blobs and buffers.                                         *)

LEMMA FunctionSeq ==
  ASSUME NEW S, NEW n \in Nat, NEW f \in [1 .. n -> S]
  PROVE  f \in Seq(S) /\ Len(f) = n
OBVIOUS

LEMMA FunctionIn ==
  ASSUME NEW D, NEW S, NEW T, S \subseteq T, NEW f \in [D -> S]
  PROVE  f \in [D -> T]
OBVIOUS

LEMMA CharFacts == /\ Chars \subseteq Nat /\ Chars \cup {0} \subseteq Nat /\ 0 \notin Chars
                   /\ MAX_LEN \in Nat /\ MAX_LEN > 0
BY KindAssumption

LEMMA TextFacts ==
  ASSUME NEW t \in Texts
  PROVE  /\ t \in Seq(Chars) /\ t \in Seq(Chars \cup {0})
         /\ Len(t) \in 0 .. MAX_LEN
         /\ t \in [1 .. Len(t) -> Chars]
         /\ t \in Blobs
<1>1. PICK n \in 0 .. MAX_LEN : t \in [1 .. n -> Chars]
  BY DEF Texts, BoundedSeq, SeqOf
<1>2. t \in Seq(Chars) /\ Len(t) = n
  BY <1>1, FunctionSeq, KindAssumption
<1>3. t \in [1 .. n -> Chars \cup {0}]
  BY <1>1
<1>4. t \in Seq(Chars \cup {0})
  BY <1>3, FunctionSeq, KindAssumption
<1> QED
  BY <1>1, <1>2, <1>3, <1>4 DEF Blobs

LEMMA Smallest ==
  ASSUME NEW I \in SUBSET Nat, I # {}
  PROVE  Min(I) \in I /\ \A i \in I : Min(I) <= i
<1>1. PICK m \in I : \A i \in I : ~(<<i, m>> \in OpToRel(<, Nat))
  BY NatLessThanWellFounded, WFMin
<1>2. \A i, j \in Nat : i < j => <<i, j>> \in OpToRel(<, Nat)
  BY DEF OpToRel
<1> HIDE DEF OpToRel
<1>3. \A i \in I : ~(i < m)
  BY <1>1, <1>2
<1>4. m \in Nat /\ \A i \in I : i \in Nat /\ m <= i
  BY <1>3
<1> QED
  BY <1>4 DEF Min

\* The text before a zero: at m + 1 is the first zero, or the end.
LEMMA Before0Is ==
  ASSUME NEW ary \in Seq(Nat), NEW m \in 0 .. Len(ary),
         \A i \in 1 .. m : ary[i] # 0,
         m < Len(ary) => ary[m + 1] = 0
  PROVE  Before0(ary) = SubSeq(ary, 1, m)
<1> DEFINE I == {i \in 1 .. Len(ary) : ary[i] = 0}
<1> DEFINE zero == IF I # {} THEN Min(I) ELSE 0
<1>1. Before0(ary) = IF zero = 0 THEN ary ELSE SubSeq(ary, 1, zero - 1)
  BY DEF Before0, SelectInSeq
<1>2. CASE m = Len(ary)
  <2>1. I = {}
    BY <1>2
  <2> QED
    BY <1>1, <1>2, <2>1, SubSeqFull
<1>3. CASE m < Len(ary)
  <2>1. m + 1 \in I /\ I \in SUBSET Nat /\ \A i \in I : m + 1 <= i
    BY <1>3
  <2>2. Min(I) \in I /\ Min(I) <= m + 1
    BY <2>1, Smallest
  <2>3. zero = m + 1 /\ m + 1 # 0 /\ (m + 1) - 1 = m
    BY <2>1, <2>2
  <2> QED
    BY <1>1, <2>3
<1> QED
  BY <1>2, <1>3

LEMMA BufferFacts ==
  ASSUME NEW n \in 1 .. MAX_LEN, NEW ary \in BuffersOf(n)
  PROVE  ary \in Seq(Chars \cup {0}) /\ ary \in Seq(Nat) /\ Len(ary) = n
<1>1. ary \in [1 .. n -> Chars \cup {0}] /\ n \in Nat
  BY CharFacts DEF BuffersOf
<1>2. ary \in [1 .. n -> Nat]
  BY <1>1, CharFacts, FunctionIn
<1> QED
  BY <1>1, <1>2, FunctionSeq, CharFacts

LEMMA Before0OfText ==
  ASSUME NEW t \in Texts
  PROVE  Before0(t) = t
<1>1. /\ t \in Seq(Chars) /\ Len(t) \in 0 .. MAX_LEN
      /\ t \in [1 .. Len(t) -> Chars]
  BY TextFacts
<1>2. t \in Seq(Nat) /\ \A i \in 1 .. Len(t) : t[i] # 0
  BY <1>1, CharFacts, SeqMonotonic
<1>3. Before0(t) = SubSeq(t, 1, Len(t))
  BY <1>1, <1>2, Before0Is
<1> QED
  BY <1>2, <1>3, SubSeqFull

\* The blob of a text: the text, then the zero if there is room for it.
LEMMA TerminatedFacts ==
  ASSUME NEW t \in Texts
  PROVE  LET blob == Terminated(t)
         IN  /\ blob \in Blobs
             /\ Len(blob) = IF Len(t) < MAX_LEN THEN Len(t) + 1 ELSE Len(t)
             /\ \A i \in 1 .. Len(t) : blob[i] = t[i] /\ blob[i] # 0
             /\ Len(t) < MAX_LEN => blob[Len(t) + 1] = 0
<1>1. /\ t \in Seq(Chars) /\ t \in Seq(Chars \cup {0}) /\ Len(t) \in 0 .. MAX_LEN
      /\ t \in [1 .. Len(t) -> Chars] /\ t \in Blobs
  BY TextFacts
<1>2. \A i \in 1 .. Len(t) : t[i] # 0
  BY <1>1, KindAssumption
<1>3. CASE Len(t) < MAX_LEN
  <2>1. Terminated(t) = Append(t, 0)
    BY <1>3 DEF Terminated
  <2>2. /\ Append(t, 0) \in Seq(Chars \cup {0})
        /\ Len(Append(t, 0)) = Len(t) + 1
        /\ \A i \in 1 .. Len(t) : Append(t, 0)[i] = t[i]
        /\ Append(t, 0)[Len(t) + 1] = 0
    BY <1>1
  <2>3. Append(t, 0) \in [1 .. Len(t) + 1 -> Chars \cup {0}]
    BY <2>2, LenProperties
  <2>4. Len(t) + 1 \in 0 .. MAX_LEN
    BY <1>1, <1>3, CharFacts
  <2>5. Append(t, 0) \in Blobs
    BY <2>3, <2>4 DEF Blobs
  <2> QED
    BY <1>2, <1>3, <2>1, <2>2, <2>5
<1>4. CASE ~(Len(t) < MAX_LEN)
  BY <1>1, <1>2, <1>4 DEF Terminated
<1> QED
  BY <1>3, <1>4

LEMMA BlobFacts ==
  ASSUME NEW blob \in Blobs
  PROVE  /\ blob \in Seq(Chars \cup {0}) /\ blob \in Seq(Nat)
         /\ Len(blob) \in 0 .. MAX_LEN
         /\ blob \in [1 .. Len(blob) -> Chars \cup {0}]
<1>1. PICK n \in 0 .. MAX_LEN : blob \in [1 .. n -> Chars \cup {0}]
  BY DEF Blobs
<1>2. blob \in [1 .. n -> Nat]
  BY <1>1, CharFacts, FunctionIn
<1>3. n \in Nat /\ blob \in Seq(Nat) /\ blob \in Seq(Chars \cup {0}) /\ Len(blob) = n
  BY <1>1, <1>2, FunctionSeq, KindAssumption
<1> QED
  BY <1>1, <1>3

LEMMA Before0OfTerminated ==
  ASSUME NEW t \in Texts
  PROVE  Before0(Terminated(t)) = t
<1> DEFINE blob == Terminated(t)
<1>1. /\ t \in Seq(Chars) /\ Len(t) \in 0 .. MAX_LEN
  BY TextFacts
<1>2. /\ blob \in Blobs
      /\ Len(blob) = IF Len(t) < MAX_LEN THEN Len(t) + 1 ELSE Len(t)
      /\ \A i \in 1 .. Len(t) : blob[i] = t[i] /\ blob[i] # 0
      /\ Len(t) < MAX_LEN => blob[Len(t) + 1] = 0
  BY TerminatedFacts
<1>3. blob \in Seq(Nat)
  BY <1>2, BlobFacts
<1> HIDE DEF blob
<1>4. Before0(blob) = SubSeq(blob, 1, Len(t))
  BY <1>1, <1>2, <1>3, Before0Is
<1>5. SubSeq(blob, 1, Len(t)) = t
  <2>1. \A i \in 1 .. Len(t) : blob[i] \in Chars /\ blob[i] = t[i]
    BY <1>1, <1>2, TextFacts
  <2>2. /\ SubSeq(blob, 1, Len(t)) \in Seq(Chars)
        /\ Len(SubSeq(blob, 1, Len(t))) = Len(t)
        /\ \A i \in 1 .. Len(t) : SubSeq(blob, 1, Len(t))[i] = blob[i]
    BY <1>1, <2>1, SubSeqProperties
  <2> QED
    BY <1>1, <2>1, <2>2, SeqEqual
<1> QED
  BY <1>4, <1>5 DEF blob

LEMMA MemcpyFacts ==
  ASSUME NEW n \in 1 .. MAX_LEN, NEW ary \in BuffersOf(n), NEW blob \in Blobs, Len(blob) <= n
  PROVE  /\ memcpy(ary, blob) \in BuffersOf(n)
         /\ \A i \in 1 .. Len(blob) : memcpy(ary, blob)[i] = blob[i]
<1>1. /\ Len(blob) \in 0 .. MAX_LEN /\ blob \in [1 .. Len(blob) -> Chars \cup {0}]
      /\ ary \in [1 .. n -> Chars \cup {0}]
  BY BlobFacts DEF BuffersOf
<1>2. \A i \in 1 .. n : (IF i <= Len(blob) THEN blob[i] ELSE ary[i]) \in Chars \cup {0}
  BY <1>1, CharFacts
<1>3. DOMAIN ary = 1 .. n
  BY <1>1
<1>4. memcpy(ary, blob) \in BuffersOf(n)
  BY <1>2, <1>3 DEF memcpy, BuffersOf
<1>5. \A i \in 1 .. Len(blob) : i \in 1 .. n /\ i <= Len(blob)
  BY <1>1, CharFacts
<1> QED
  BY <1>3, <1>4, <1>5 DEF memcpy

\* Whatever the buffer held, the text that was stored is found in it, where it
\* has room for what was stored.
LEMMA Before0OfMemcpy ==
  ASSUME NEW n \in 1 .. MAX_LEN, NEW ary \in BuffersOf(n), NEW t \in Texts,
         Len(Terminated(t)) <= n
  PROVE  Before0(memcpy(ary, Terminated(t))) = t
<1> DEFINE blob == Terminated(t)
           copy == memcpy(ary, blob)
<1>1. /\ t \in Seq(Chars) /\ Len(t) \in 0 .. MAX_LEN /\ t \in [1 .. Len(t) -> Chars]
      /\ n \in Nat /\ n <= MAX_LEN
  BY TextFacts, CharFacts
<1>2. /\ blob \in Blobs
      /\ Len(blob) = IF Len(t) < MAX_LEN THEN Len(t) + 1 ELSE Len(t)
      /\ \A i \in 1 .. Len(t) : blob[i] = t[i] /\ blob[i] # 0
      /\ Len(t) < MAX_LEN => blob[Len(t) + 1] = 0
      /\ Len(blob) <= n
  BY TerminatedFacts
<1> HIDE DEF blob
<1>3. /\ copy \in BuffersOf(n)
      /\ \A i \in 1 .. Len(blob) : copy[i] = blob[i]
  BY <1>2, MemcpyFacts
<1>4. copy \in Seq(Nat) /\ Len(copy) = n
  BY <1>3, BufferFacts
<1>5. /\ Len(t) \in 0 .. n
      /\ \A i \in 1 .. Len(t) : copy[i] = t[i] /\ copy[i] # 0
      /\ Len(t) < n => copy[Len(t) + 1] = 0
  <2>1. \A i \in 1 .. Len(t) : i \in 1 .. Len(blob)
    BY <1>1, <1>2
  <2>2. Len(t) < n => Len(t) < MAX_LEN /\ Len(t) + 1 \in 1 .. Len(blob)
    BY <1>1, <1>2, CharFacts
  <2>3. Len(t) \in 0 .. n
    BY <1>1, <1>2, CharFacts
  <2> QED
    BY <1>2, <1>3, <2>1, <2>2, <2>3
<1> HIDE DEF copy
<1>6. Before0(copy) = SubSeq(copy, 1, Len(t))
  BY <1>1, <1>4, <1>5, Before0Is
<1>7. \A i \in 1 .. Len(t) : copy[i] \in Chars
  BY <1>1, <1>5
<1>8. /\ SubSeq(copy, 1, Len(t)) \in Seq(Chars)
      /\ Len(SubSeq(copy, 1, Len(t))) = Len(t)
      /\ \A i \in 1 .. Len(t) : SubSeq(copy, 1, Len(t))[i] = copy[i]
  BY <1>1, <1>7, SubSeqProperties
<1>9. SubSeq(copy, 1, Len(t)) = t
  BY <1>1, <1>5, <1>8, SeqEqual
<1> QED
  BY <1>6, <1>9 DEF blob, copy

\* What is before the first zero of a buffer, or the whole buffer, is a text.
LEMMA Before0IsText ==
  ASSUME NEW m \in 1 .. MAX_LEN, NEW ary \in BuffersOf(m)
  PROVE  Before0(ary) \in Texts
<1> DEFINE I == {i \in 1 .. Len(ary) : ary[i] = 0}
           zero == IF I # {} THEN Min(I) ELSE 0
<1>1. /\ ary \in Seq(Chars \cup {0}) /\ Len(ary) = m
      /\ ary \in [1 .. m -> Chars \cup {0}]
      /\ m \in Nat /\ m \in 0 .. MAX_LEN /\ \A n \in 0 .. m : n \in 0 .. MAX_LEN
  BY BufferFacts, CharFacts DEF BuffersOf
<1>2. Before0(ary) = IF zero = 0 THEN ary ELSE SubSeq(ary, 1, zero - 1)
  BY DEF Before0, SelectInSeq
<1>3. CASE I = {}
  <2>1. \A i \in 1 .. m : ary[i] \in Chars
    BY <1>1, <1>3
  <2>2. ary \in [1 .. m -> Chars]
    BY <1>1, <2>1
  <2> QED
    BY <1>1, <1>2, <1>3, <2>2, CharFacts DEF Texts, BoundedSeq, SeqOf
<1>4. CASE I # {}
  <2>1. I \in SUBSET Nat
    BY <1>1, CharFacts
  <2>2. Min(I) \in I /\ \A i \in I : Min(I) <= i
    BY <1>4, <2>1, Smallest
  <2>3. zero \in 1 .. m /\ \A i \in 1 .. m : i < zero => ary[i] # 0
    <3>1. zero = Min(I) /\ I \subseteq 1 .. m
      BY <1>1, <1>4
    <3>2. \A i \in 1 .. m : ary[i] = 0 => i \in I
      BY <1>1
    <3> HIDE DEF I, zero
    <3>3. zero \in I /\ \A i \in I : zero <= i
      BY <2>2, <3>1
    <3>4. \A i \in 1 .. m : i < zero => i \notin I
      BY <3>1, <3>3, CharFacts
    <3> QED
      BY <3>1, <3>2, <3>3, <3>4
  <2> DEFINE n == zero - 1
  <2> HIDE DEF zero
  <2>4. n \in 0 .. m /\ n < zero
    BY <1>1, <2>3
  <2> HIDE DEF n
  <2>5. \A i \in 1 .. n : ary[i] \in Chars
    BY <1>1, <2>3, <2>4
  <2>6. /\ SubSeq(ary, 1, n) \in Seq(Chars) /\ Len(SubSeq(ary, 1, n)) = n
    BY <2>4, <2>5, SubSeqProperties
  <2>7. SubSeq(ary, 1, n) \in [1 .. n -> Chars]
    BY <2>6, LenProperties
  <2>8. SubSeq(ary, 1, n) \in Texts
    BY <1>1, <2>4, <2>7 DEF Texts, BoundedSeq, SeqOf
  <2> QED
    BY <1>2, <2>3, <2>8 DEF n
<1> QED
  BY <1>3, <1>4

----------------------------------------------------------------------------
(* ESP32: the invariant.  What is stored for a key is what a write function *)
(* makes of a value: a text with its terminator, if there is room for it,   *)
(* and all else as it is.                                                   *)

Written(k) ==
  (IF Type[k] = "str" THEN {Terminated(t) : t \in Texts} ELSE Values) \cup {None}

\* The value that a blob stands for.
Means(blob) == IF blob = None THEN None ELSE Result(Before0(blob))

Inv == /\ TypeOK
       /\ \A k \in Keys : nvs[k] \in Written(k) /\ flash[k] \in Written(k)
       /\ ~opened => nvs = flash /\ reader = None
       /\ reader # None => /\ Type[reader.key] \in {"ary", "str"}
                           /\ reader.len <= reader.exp_len

LEMMA WrittenFacts ==
  ASSUME NEW k \in Keys, NEW blob \in Written(k)
  PROVE  /\ blob \in Blobs \cup {None}
         /\ Means(blob) \in Values \cup {None}
         /\ Type[k] # "str" => Means(blob) = blob
         /\ Type[k] = "str" /\ blob # None =>
              \A n \in 1 .. MAX_LEN : \A ary \in BuffersOf(n) :
                Len(blob) <= n => Result(Before0(memcpy(ary, blob))) = Means(blob)
<1>1. CASE blob = None
  BY <1>1 DEF Means
<1>2. CASE blob # None /\ Type[k] = "str"
  <2>1. PICK t \in Texts : blob = Terminated(t)
    BY <1>2 DEF Written
  <2>2. Means(blob) = Result(t) /\ blob \in Blobs
    BY <1>2, <2>1, Before0OfTerminated, TerminatedFacts DEF Means
  <2>3. Result(t) \in Values \cup {None}
    BY DEF Result, Values
  <2>4. \A n \in 1 .. MAX_LEN : \A ary \in BuffersOf(n) :
          Len(blob) <= n => Result(Before0(memcpy(ary, blob))) = Result(t)
    BY <2>1, Before0OfMemcpy
  <2> QED
    BY <1>2, <2>2, <2>3, <2>4
<1>3. CASE blob # None /\ Type[k] # "str"
  <2>1. blob \in Texts /\ blob # <<>> /\ blob \in Values
    BY <1>3 DEF Written, Values
  <2>2. Means(blob) = blob /\ blob \in Blobs
    BY <1>3, <2>1, Before0OfText, TextFacts DEF Means, Result
  <2> QED
    BY <1>3, <2>1, <2>2
<1> QED
  BY <1>1, <1>2, <1>3

\* What the write functions are given is stored as such a blob.
LEMMA InputFacts ==
  ASSUME NEW k \in Keys, NEW v \in Inputs(k)
  PROVE  /\ Type[k] # "str" => v \in Values /\ v \in Written(k)
         /\ Type[k] = "str" => /\ v \in Texts /\ Terminated(v) \in Written(k)
                               /\ Result(v) \in Values \cup {None}
                               /\ Terminated(v) # None
                               /\ Means(Terminated(v)) = Result(v)
<1>1. Type[k] \in {"int", "real", "ary", "str"}
  BY KindAssumption
<1>2. CASE Type[k] \in {"int", "real"}
  <2>1. PICK c \in Chars : v = <<c>>
    BY <1>2 DEF Inputs
  <2>2. v \in [1 .. 1 -> Chars] /\ v # <<>>
    BY <2>1
  <2>3. v \in Texts
    BY <2>2, CharFacts DEF Texts, BoundedSeq, SeqOf
  <2> QED
    BY <1>2, <2>2, <2>3 DEF Values, Written
<1>3. CASE Type[k] = "ary"
  BY <1>3 DEF Inputs, Written
<1>4. CASE Type[k] = "str"
  <2>1. v \in Texts /\ Terminated(v) \in Written(k)
    BY <1>4 DEF Inputs, Written
  <2>2. Terminated(v) # None
    BY <2>1, TerminatedFacts, NoneAssumption
  <2> QED
    BY <1>4, <2>1, <2>2, Before0OfTerminated DEF Means, Result, Values
<1> QED
  BY <1>1, <1>2, <1>3, <1>4

\* What a read finds of a blob that is not being replaced, and for which the
\* buffer has room, is what it stands for.
LEMMA ReturnFacts ==
  ASSUME NEW k \in Keys, NEW blob \in Written(k), NEW n \in 1 .. MAX_LEN,
         blob # None => Len(blob) <= n,
         NEW how, Return(how, k, blob, n)
  PROVE  \E v \in Values \cup {None} :
            call' = <<how, k, v>> /\ v \in Answers(k, Means(blob))
<1>1. CASE Type[k] = "ary"
  BY <1>1, WrittenFacts DEF Return, Answers
<1>2. CASE Type[k] = "str"
  <2>1. PICK ary \in BuffersOf(n) :
          call' = <<how, k, Result(Before0(IF blob = None THEN ary
                                           ELSE memcpy(ary, blob)))>>
    BY <1>2 DEF Return
  <2>2. CASE blob = None
    <3>1. Result(Before0(ary)) \in Values \cup {None}
      BY Before0IsText DEF Result, Values
    <3> QED
      BY <1>2, <2>1, <2>2, <3>1 DEF Answers, Means
  <2>3. CASE blob # None
    <3>1. Result(Before0(memcpy(ary, blob))) = Means(blob)
      BY <1>2, <2>3, WrittenFacts
    <3>2. Means(blob) \in Answers(k, Means(blob)) /\ Means(blob) \in Values \cup {None}
      BY <1>2, WrittenFacts DEF Answers
    <3> QED
      BY <2>1, <2>3, <3>1, <3>2
  <2> QED
    BY <2>2, <2>3
<1> QED
  BY <1>1, <1>2 DEF Return

LEMMA InitInv == Init => Inv
<1> SUFFICES ASSUME Init PROVE Inv
  OBVIOUS
<1>1. nvs \in [Keys -> Blobs \cup {None}] /\ flash \in [Keys -> Blobs \cup {None}]
  BY DEF Init, Nothing
<1>2. \A k \in Keys : nvs[k] \in Written(k) /\ flash[k] \in Written(k)
  BY DEF Init, Nothing, Written
<1>3. TypeOK
  BY <1>1 DEF Init, TypeOK
<1> QED
  BY <1>2, <1>3 DEF Init, Inv

LEMMA SetKeeps ==
  ASSUME Inv, NEW k \in Keys, NEW blob \in Written(k), NEW v \in Values \cup {None},
         Set(k, blob, v)
  PROVE  Inv'
<1>1. blob \in Blobs \cup {None}
  BY WrittenFacts
<1>2. /\ UNCHANGED <<opened, flash, reader>> /\ call' = <<"write", k, v>>
      /\ \/ opened /\ nvs' = [nvs EXCEPT ![k] = blob]
         \/ nvs' = nvs
  BY DEF Set
<1>3. /\ nvs' \in [Keys -> Blobs \cup {None}]
      /\ \A j \in Keys : nvs'[j] \in Written(j)
      /\ ~opened => nvs' = nvs
  BY <1>1, <1>2 DEF Inv, TypeOK
<1>4. TypeOK'
  BY <1>2, <1>3 DEF Inv, TypeOK
<1> QED
  BY <1>2, <1>3, <1>4 DEF Inv, Written

LEMMA CallKeeps ==
  ASSUME Inv, UNCHANGED <<opened, nvs, flash>>, NEW k \in Keys,
         NEW v \in Values \cup {None}, NEW how \in {"read", "miss"}, call' = <<how, k, v>>,
         reader' \in {reader, None}
  PROVE  Inv'
<1>1. TypeOK'
  BY DEF Inv, TypeOK
<1> QED
  BY <1>1 DEF Inv, Written

\* The read goes on only if the buffer has room for the blob that is found.
LEMMA ReadDataAnswers ==
  ASSUME Inv, ReadData
  PROVE  \E v \in Values \cup {None} :
           \/ /\ call' = <<"read", reader.key, v>>
              /\ v \in Answers(reader.key, Means(nvs[reader.key]))
           \/ call' = <<"miss", reader.key, v>> /\ v \in Answers(reader.key, Means(None))
<1> DEFINE k == reader.key
           n == reader.exp_len
<1>1. /\ reader # None /\ k \in Keys /\ n \in 1 .. MAX_LEN /\ None \in Written(k)
      /\ nvs[k] \in Written(k) /\ reader.len <= n /\ reader.len \in 0 .. MAX_LEN
  BY DEF ReadData, Inv, TypeOK, Written
<1>2. CASE Len(nvs[k]) <= reader.len /\ Return("read", k, nvs[k], n)
  <2>1. nvs[k] # None => Len(nvs[k]) <= n
    <3> SUFFICES ASSUME nvs[k] # None PROVE Len(nvs[k]) <= n
      OBVIOUS
    <3>1. nvs[k] \in Blobs
      BY <1>1 DEF Inv, TypeOK
    <3>2. Len(nvs[k]) \in 0 .. MAX_LEN
      BY <3>1, BlobFacts
    <3> HIDE DEF n
    <3> QED
      BY <1>1, <1>2, <3>2, CharFacts
  <2> QED
    BY <1>1, <1>2, <2>1, ReturnFacts
<1>3. CASE Return("miss", k, None, n)
  BY <1>1, <1>3, ReturnFacts
<1> QED
  BY <1>2, <1>3 DEF ReadData

LEMMA ReadLengthAnswers ==
  ASSUME Inv, NEW k \in Keys, NEW n \in 1 .. MAX_LEN, ReadLength(k, n)
  PROVE  \/ \E v \in Values \cup {None} :
              /\ reader' = reader /\ v \in Answers(k, None)
              /\ \/ Stored(k) = None /\ call' = <<"read", k, v>>
                 \/ Stored(k) # None /\ call' = <<"miss", k, v>>
         \/ /\ Stored(k) # None /\ Len(nvs[k]) <= n /\ call' = call
            /\ reader' = [key |-> k, len |-> Len(nvs[k]), exp_len |-> n]
<1>1. None \in Written(k) /\ Means(None) = None
  BY DEF Written, Means
<1>2. ASSUME NEW how, Return(how, k, None, n)
      PROVE  \E v \in Values \cup {None} : call' = <<how, k, v>> /\ v \in Answers(k, None)
  BY <1>1, <1>2, ReturnFacts
<1> QED
  BY <1>2 DEF ReadLength

LEMMA StepInv ==
  ASSUME Inv, [Next]_vars
  PROVE  Inv'
<1>1. CASE UNCHANGED vars
  BY <1>1 DEF vars, Inv, TypeOK, Written
<1>2. CASE InitPref
  <2>1. TypeOK'
    BY <1>2 DEF InitPref, Inv, TypeOK
  <2> QED
    BY <1>2, <2>1 DEF InitPref, Inv, Written
<1>3. CASE Commit
  <2>1. TypeOK'
    BY <1>3 DEF Commit, Inv, TypeOK
  <2> QED
    BY <1>3, <2>1 DEF Commit, Inv, Written
<1>4. CASE ReadData
  <2>1. \E v \in Values \cup {None}, how \in {"read", "miss"} : call' = <<how, reader.key, v>>
    BY <1>4, ReadDataAnswers
  <2> QED
    BY <1>4, <2>1, CallKeeps DEF ReadData, Inv, TypeOK
<1>5. CASE Restart
  <2>1. PICK kept \in SUBSET Keys :
          flash' = [k \in Keys |-> IF k \in kept THEN nvs[k] ELSE flash[k]]
    BY <1>5 DEF Restart
  <2>2. /\ nvs' = flash' /\ reader' = None /\ ~opened' /\ opened' \in BOOLEAN
        /\ call' = call
    BY <1>5 DEF Restart
  <2>3. /\ flash' \in [Keys -> Blobs \cup {None}]
        /\ \A k \in Keys : flash'[k] \in Written(k)
    BY <2>1 DEF Inv, TypeOK
  <2>4. TypeOK'
    BY <2>2, <2>3 DEF Inv, TypeOK
  <2> QED
    BY <2>2, <2>3, <2>4 DEF Inv, Written
<1>6. ASSUME NEW k \in Keys, read_int(k) \/ read_real(k) PROVE Inv'
  <2>1. Type[k] \in {"int", "real"} /\ UNCHANGED <<opened, nvs, flash, reader>>
    BY <1>6 DEF read_int, read_real
  <2>2. nvs[k] \in Written(k) /\ Written(k) = Values \cup {None}
    BY <2>1 DEF Inv, Written
  <2>3. PICK v \in Values \cup {None}, how \in {"read", "miss"} : call' = <<how, k, v>>
    BY <1>6, <2>2 DEF read_int, read_real, Stored
  <2> QED
    BY <2>1, <2>3, CallKeeps
<1>7. ASSUME NEW k \in Keys, NEW n \in 1 .. MAX_LEN, ReadLength(k, n) PROVE Inv'
  <2>1. /\ UNCHANGED <<opened, nvs, flash>> /\ reader = None
        /\ Type[k] \in {"ary", "str"}
    BY <1>7 DEF ReadLength
  <2>2. CASE \E v \in Values \cup {None}, how \in {"read", "miss"} :
               reader' = reader /\ call' = <<how, k, v>>
    BY <2>1, <2>2, CallKeeps
  <2>3. CASE /\ Stored(k) # None /\ Len(nvs[k]) <= n /\ call' = call
             /\ reader' = [key |-> k, len |-> Len(nvs[k]), exp_len |-> n]
    <3>1. opened /\ nvs[k] # None
      BY <2>3 DEF Stored
    <3>2. nvs[k] \in Blobs
      BY <3>1 DEF Inv, TypeOK
    <3>3. /\ reader' \in [key : Keys, len : 0 .. MAX_LEN, exp_len : 1 .. MAX_LEN]
          /\ reader'.key = k /\ reader'.len <= reader'.exp_len
      BY <2>3, <3>2, BlobFacts
    <3>4. TypeOK'
      BY <2>1, <2>3, <3>3 DEF Inv, TypeOK
    <3> QED
      BY <2>1, <3>1, <3>3, <3>4 DEF Inv, Written
  <2> QED
    BY <1>7, <2>2, <2>3, ReadLengthAnswers
<1>8. ASSUME NEW k \in Keys, NEW v \in Inputs(k), write(k, v) \/ write_str(k, v)
      PROVE  Inv'
  <2>1. CASE write(k, v)
    BY <2>1, InputFacts, SetKeeps DEF write
  <2>2. CASE write_str(k, v)
    BY <2>2, InputFacts, SetKeeps DEF write_str
  <2> QED
    BY <1>8, <2>1, <2>2
<1> QED
  BY <1>1, <1>2, <1>3, <1>4, <1>5, <1>6, <1>7, <1>8 DEF Next

\* ESP32: every variable keeps its type: nothing longer than the buffers that
\* it is read into is ever stored, and every answer is a value or the default.
THEOREM TypeCorrect == Spec => []TypeOK
<1>1. Inv => TypeOK
  BY DEF Inv
<1> QED
  BY <1>1, InitInv, StepInv, PTL DEF Spec

----------------------------------------------------------------------------
(* ESP32: the refinement of Prefs, one lemma for each kind of step.         *)

LEMMA MeaningFacts ==
  ASSUME NEW blobs, \A k \in Keys : blobs[k] \in Written(k)
  PROVE  /\ Meaning(blobs) \in [Keys -> Values \cup {None}]
         /\ \A k \in Keys : Meaning(blobs)[k] = Means(blobs[k])
         /\ Meaning(blobs) # None
<1>1. \A k \in Keys : Means(blobs[k]) \in Values \cup {None}
  BY WrittenFacts
<1>2. \A k \in Keys : Meaning(blobs)[k] = Means(blobs[k])
  BY DEF Meaning, Means
<1>3. Meaning(blobs) \in [Keys -> Values \cup {None}]
  BY <1>1 DEF Meaning, Means
<1> QED
  BY <1>2, <1>3, NoneAssumption

LEMMA InitRefines == Init => P!Init
BY DEF Init, P!Init, P!Empty, Meaning, Nothing

LEMMA StartRefines ==
  ASSUME Inv, InitPref
  PROVE  [P!Next]_(P!vars)
<1>1. CASE opened'
  <2>1. /\ ~opened /\ opened' = TRUE /\ nvs' = flash /\ flash' = flash /\ call' = call
    BY <1>1 DEF InitPref, Inv, TypeOK
  <2>2. Meaning(flash) # None /\ Meaning(nvs)' = Meaning(flash)
    <3>1. Meaning(flash) # None
      BY MeaningFacts DEF Inv
    <3> QED
      BY <2>1, <3>1 DEF Meaning
  <2>3. Meaning(flash)' = Meaning(flash)
    BY <2>1 DEF Meaning
  <2> QED
    BY <2>1, <2>2, <2>3 DEF P!Next, P!Start
<1>2. CASE ~opened'
  <2>1. ~opened /\ flash' = flash /\ call' = call
    BY DEF InitPref
  <2>2. Meaning(flash)' = Meaning(flash)
    BY <2>1 DEF Meaning
  <2> QED
    BY <1>2, <2>1, <2>2 DEF P!vars
<1> QED
  BY <1>1, <1>2

LEMMA CommitRefines ==
  ASSUME Inv, Commit
  PROVE  [P!Next]_(P!vars)
<1>1. opened /\ opened' = opened /\ nvs' = nvs /\ call' = call /\ flash' \in {nvs, flash}
  BY DEF Commit
<1>2. /\ Meaning(nvs)' = Meaning(nvs)
      /\ Meaning(flash)' \in {Meaning(nvs), Meaning(flash)}
  BY <1>1 DEF Meaning
<1> QED
  BY <1>1, <1>2 DEF P!Next, P!Commit

LEMMA RestartRefines ==
  ASSUME Inv, Restart
  PROVE  [P!Next]_(P!vars)
<1>1. /\ opened /\ ~opened' /\ call' = call
      /\ \A k \in Keys : flash'[k] \in {nvs[k], flash[k]}
  BY DEF Restart
<1>2. \A k \in Keys : /\ nvs[k] \in Written(k) /\ flash[k] \in Written(k)
                      /\ flash'[k] \in Written(k)
  BY <1>1 DEF Inv
<1>3. /\ Meaning(flash) # None
      /\ Meaning(flash)' \in [Keys -> Values \cup {None}]
      /\ \A k \in Keys : Meaning(flash)'[k] \in {Meaning(nvs)[k], Meaning(flash)[k]}
  <2>1. Meaning(flash)' = Meaning(flash')
    BY DEF Meaning
  <2>2. Meaning(flash') \in [Keys -> Values \cup {None}]
    BY <1>2, MeaningFacts
  <2>3. \A k \in Keys : Meaning(flash')[k] \in {Meaning(nvs)[k], Meaning(flash)[k]}
    BY <1>1 DEF Meaning
  <2>4. Meaning(flash) # None
    BY <1>2, MeaningFacts
  <2> QED
    BY <2>1, <2>2, <2>3, <2>4
<1> QED
  BY <1>1, <1>3 DEF P!Next, P!Crash, P!Empty, Nothing

\* A read that answers v, which the store would answer, too.
LEMMA ReadRefines ==
  ASSUME Inv, UNCHANGED <<opened, nvs, flash>>, NEW k \in Keys,
         NEW v \in Values \cup {None},
         \/ /\ call' = <<"read", k, v>>
            /\ IF opened THEN v \in Answers(k, Meaning(nvs)[k]) ELSE v \in Answers(k, None)
         \/ opened /\ call' = <<"miss", k, v>> /\ v \in Answers(k, None)
  PROVE  [P!Next]_(P!vars)
<1>1. Meaning(nvs)' = Meaning(nvs) /\ Meaning(flash)' = Meaning(flash)
  BY DEF Meaning
<1>2. CASE opened /\ call' = <<"read", k, v>> /\ v \in Answers(k, Meaning(nvs)[k])
  BY <1>1, <1>2 DEF P!Next, P!Read
<1>3. CASE opened /\ call' = <<"miss", k, v>> /\ v \in Answers(k, None)
  BY <1>1, <1>3 DEF P!Next, P!Miss
<1>4. CASE ~opened /\ call' = <<"read", k, v>> /\ v \in Answers(k, None)
  BY <1>1, <1>4 DEF P!Next, P!CallNothing, Nothing
<1> QED
  BY <1>2, <1>3, <1>4

LEMMA SetRefines ==
  ASSUME Inv, NEW k \in Keys, NEW blob \in Written(k), NEW v \in Values \cup {None},
         Means(blob) = v, Set(k, blob, v)
  PROVE  [P!Next]_(P!vars)
<1>1. /\ UNCHANGED <<opened, flash, reader>> /\ call' = <<"write", k, v>>
      /\ \/ opened /\ nvs' = [nvs EXCEPT ![k] = blob]
         \/ nvs' = nvs
      /\ nvs \in [Keys -> Blobs \cup {None}]
  BY DEF Set, Inv, TypeOK
<1>2. Meaning(flash)' = Meaning(flash)
  BY <1>1 DEF Meaning
<1>3. CASE opened /\ nvs' = [nvs EXCEPT ![k] = blob]
  <2>1. Meaning(nvs)' = [Meaning(nvs) EXCEPT ![k] = v]
    BY <1>1, <1>3 DEF Meaning, Means
  <2> QED
    BY <1>1, <1>2, <1>3, <2>1 DEF P!Next, P!Write
<1>4. CASE opened /\ nvs' = nvs
  <2>1. Meaning(nvs)' = Meaning(nvs)
    BY <1>4 DEF Meaning
  <2> QED
    BY <1>1, <1>2, <1>4, <2>1 DEF P!Next, P!Write
<1>5. CASE ~opened
  BY <1>1, <1>2, <1>5 DEF P!Next, P!CallNothing, Nothing
<1> QED
  BY <1>1, <1>3, <1>4, <1>5

LEMMA ReadDataRefines ==
  ASSUME Inv, ReadData
  PROVE  [P!Next]_(P!vars)
<1> DEFINE k == reader.key
<1>1. UNCHANGED <<opened, nvs, flash>> /\ opened /\ k \in Keys
  BY DEF ReadData, Inv, TypeOK
<1>2. Meaning(nvs)[k] = Means(nvs[k]) /\ Means(None) = None
  BY <1>1, MeaningFacts DEF Inv, Means
<1>3. PICK v \in Values \cup {None} :
        \/ call' = <<"read", k, v>> /\ v \in Answers(k, Means(nvs[k]))
        \/ call' = <<"miss", k, v>> /\ v \in Answers(k, Means(None))
  BY ReadDataAnswers
<1> QED
  BY <1>1, <1>2, <1>3, ReadRefines

LEMMA ReadLengthRefines ==
  ASSUME Inv, NEW k \in Keys, NEW n \in 1 .. MAX_LEN, ReadLength(k, n)
  PROVE  [P!Next]_(P!vars)
<1>1. UNCHANGED <<opened, nvs, flash>>
  BY DEF ReadLength
<1>2. Meaning(nvs)[k] = Means(nvs[k]) /\ Means(None) = None
  BY MeaningFacts DEF Inv, Means
<1>3. CASE call' = call
  <2>1. Meaning(nvs)' = Meaning(nvs) /\ Meaning(flash)' = Meaning(flash)
    BY <1>1 DEF Meaning
  <2> QED
    BY <1>1, <1>3, <2>1 DEF P!vars
<1>4. ASSUME NEW v \in Values \cup {None}, v \in Answers(k, None),
             \/ Stored(k) = None /\ call' = <<"read", k, v>>
             \/ Stored(k) # None /\ call' = <<"miss", k, v>>
      PROVE  [P!Next]_(P!vars)
  <2>1. opened /\ Stored(k) = None => Meaning(nvs)[k] = None
    BY <1>2 DEF Stored
  <2>2. Stored(k) # None => opened
    BY DEF Stored
  <2> QED
    BY <1>1, <1>4, <2>1, <2>2, ReadRefines
<1> QED
  BY <1>3, <1>4, ReadLengthAnswers

LEMMA ReadNumberRefines ==
  ASSUME Inv, NEW k \in Keys, read_int(k) \/ read_real(k)
  PROVE  [P!Next]_(P!vars)
<1>1. /\ Type[k] \in {"int", "real"} /\ UNCHANGED <<opened, nvs, flash>>
      /\ nvs[k] \in Written(k) /\ Written(k) = Values \cup {None}
  BY DEF read_int, read_real, Inv, Written
<1>2. Meaning(nvs)[k] = nvs[k]
  BY <1>1, MeaningFacts, WrittenFacts DEF Inv
<1>3. PICK v \in Values \cup {None} :
        \/ call' = <<"read", k, v>> /\ (v = Stored(k) \/ (v = None /\ Type[k] = "real"))
        \/ opened /\ call' = <<"miss", k, v>> /\ v = None
  BY <1>1 DEF read_int, read_real, Stored
<1>4. /\ v = Stored(k) \/ (v = None /\ Type[k] = "real")
         => IF opened THEN v \in Answers(k, Meaning(nvs)[k]) ELSE v \in Answers(k, None)
      /\ v = None => v \in Answers(k, None)
  BY <1>1, <1>2 DEF Answers, Stored
<1> QED
  BY <1>1, <1>3, <1>4, ReadRefines

LEMMA StepRefines ==
  ASSUME Inv, [Next]_vars
  PROVE  [P!Next]_(P!vars)
<1>1. CASE UNCHANGED vars
  <2>1. /\ UNCHANGED <<opened, call>>
        /\ Meaning(nvs)' = Meaning(nvs) /\ Meaning(flash)' = Meaning(flash)
    BY <1>1 DEF vars, Meaning
  <2> QED
    BY <2>1 DEF P!vars
<1>2. ASSUME NEW k \in Keys, NEW v \in Inputs(k), write(k, v) \/ write_str(k, v)
      PROVE  [P!Next]_(P!vars)
  <2>1. CASE write(k, v)
    <3>1. Means(v) = v /\ v \in Values /\ v \in Written(k)
      BY <2>1, InputFacts, WrittenFacts DEF write
    <3> QED
      BY <2>1, <3>1, SetRefines DEF write
  <2>2. CASE write_str(k, v)
    BY <2>2, InputFacts, SetRefines DEF write_str
  <2> QED
    BY <1>2, <2>1, <2>2
<1> QED
  BY <1>1, <1>2, StartRefines, CommitRefines, RestartRefines, ReadDataRefines,
     ReadLengthRefines, ReadNumberRefines DEF Next

\* ESP32: the PrefManager is a store as Prefs describes it: a read answers
\* what was written last, over restarts too, unless that was never committed.
THEOREM ImplementsPrefs == Spec => IsPrefs
<1>1. Inv /\ [Next]_vars => [P!Next]_(P!vars)
  BY StepRefines
<1> QED
  BY <1>1, InitInv, StepInv, InitRefines, PTL DEF Spec, IsPrefs, P!Spec

----------------------------------------------------------------------------
(* Raspberry Pi.                                                            *)

LEMMA PiInitTypeOK == Pi!Init => PiTypeOK
BY DEF Pi!Init, PiTypeOK, Pi!TypeOK, Pi!NullDoc

\* What the document and the file have for a key.
LEMMA PiContentFacts ==
  ASSUME PiTypeOK, doc # Pi!NullDoc, NEW k \in PiKeys
  PROVE  doc[k] \in Pi!Entries /\ Pi!Content(k) \in Pi!Values \cup {None}
<1>1. doc \in [PiKeys -> Pi!Entries] /\ buf \in [PiBuffers -> PiTexts]
  BY DEF PiTypeOK, Pi!TypeOK
<1>2. doc[k] \in Pi!Entries
  BY <1>1
<1> QED
  BY <1>1, <1>2 DEF Pi!Entries, Pi!Missing, Pi!Content, Pi!Values

LEMMA PiJson ==
  ASSUME NEW k, NEW v
  PROVE  Pi!Json(k, v) \in {"uint", "int", "double", "array", "string"}
BY DEF Pi!Json

LEMMA PiNumbers ==
  ASSUME NEW k \in PiKeys
  PROVE  Pi!Numbers(k) \subseteq Pi!Values
BY PiAssumption DEF Pi!Numbers, Pi!Values, Pi!Uints, Pi!Ints, Pi!Floats

LEMMA PiStepTypeOK ==
  ASSUME PiTypeOK, [Pi!Next]_(Pi!vars)
  PROVE  PiTypeOK'
<1> USE DEF PiTypeOK
<1>1. CASE UNCHANGED Pi!vars
  BY <1>1 DEF Pi!vars, Pi!TypeOK
<1>2. CASE Pi!InitPref
  <2>1. UNCHANGED <<file, buf, piCall>> /\ phase' = "up"
    BY <1>2 DEF Pi!InitPref
  <2>2. CASE file = Pi!Torn
    BY <1>2, <2>1, <2>2 DEF Pi!InitPref, Pi!TypeOK
  <2>3. CASE file # Pi!Torn
    <3>1. doc' = Pi!Parsed /\ file \in [PiKeys -> Pi!Values \cup {None}]
      BY <1>2, <2>3 DEF Pi!InitPref, Pi!TypeOK
    <3>2. \A k \in PiKeys : Pi!Parsed[k] \in Pi!Entries
      BY <3>1, PiJson DEF Pi!Parsed, Pi!Entries
    <3>3. doc' \in [PiKeys -> Pi!Entries]
      BY <3>1, <3>2 DEF Pi!Parsed
    <3> QED
      BY <2>1, <3>3 DEF Pi!TypeOK
  <2> QED
    BY <2>2, <2>3
<1>3. CASE Pi!Abort \/ Pi!CommitOpen \/ Pi!Crash
  BY <1>3 DEF Pi!Abort, Pi!CommitOpen, Pi!Crash, Pi!TypeOK
<1>4. CASE Pi!CommitWrite
  <2>1. UNCHANGED <<doc, buf, piCall>> /\ phase' = "up"
    BY <1>4 DEF Pi!CommitWrite
  <2>2. file' \in {Pi!Torn} \cup [PiKeys -> Pi!Values \cup {None}]
    BY <1>4, PiContentFacts DEF Pi!CommitWrite
  <2> QED
    BY <2>1, <2>2 DEF Pi!TypeOK
<1>5. ASSUME NEW k \in PiKeys, Pi!Read(k) PROVE PiTypeOK'
  <2>1. UNCHANGED <<phase, doc, file, buf>> /\ doc # Pi!NullDoc
    BY <1>5 DEF Pi!Read
  <2>2. PICK v \in Pi!Values \cup {None} : piCall' = <<"read", k, v>>
    BY <1>5, <2>1, PiContentFacts DEF Pi!Read
  <2> QED
    BY <2>1, <2>2 DEF Pi!TypeOK
<1>6. ASSUME NEW k \in PiKeys, NEW v \in Pi!Numbers(k), Pi!Write(k, v) PROVE PiTypeOK'
  <2>1. /\ UNCHANGED <<phase, file, buf>> /\ piCall' = <<"write", k, v>>
        /\ doc # Pi!NullDoc
        /\ doc' = [doc EXCEPT ![k] = [json |-> Pi!Json(k, v), val |-> v]]
    BY <1>6 DEF Pi!Write
  <2>2. v \in Pi!Values /\ [json |-> Pi!Json(k, v), val |-> v] \in Pi!Entries
    BY PiNumbers, PiJson DEF Pi!Entries
  <2>3. doc' \in [PiKeys -> Pi!Entries]
    BY <2>1, <2>2 DEF Pi!TypeOK
  <2> QED
    BY <2>1, <2>2, <2>3 DEF Pi!TypeOK
<1>7. ASSUME NEW k \in PiKeys, NEW b \in PiBuffers, Pi!write_str(k, b) PROVE PiTypeOK'
  <2>1. /\ UNCHANGED <<phase, file, buf>> /\ piCall' = <<"write", k, buf[b]>>
        /\ doc # Pi!NullDoc /\ buf[b] \in PiTexts
    BY <1>7 DEF Pi!write_str, Pi!TypeOK
  <2>2. /\ [json |-> "ref", val |-> b] \in Pi!Entries
        /\ [json |-> "string", val |-> buf[b]] \in Pi!Entries
        /\ buf[b] \in Pi!Values
    BY <2>1 DEF Pi!Entries, Pi!Values
  <2>3. doc' \in [PiKeys -> Pi!Entries]
    BY <1>7, <2>1, <2>2 DEF Pi!write_str, Pi!TypeOK
  <2> QED
    BY <2>1, <2>2, <2>3 DEF Pi!TypeOK
<1>8. ASSUME NEW b \in PiBuffers, NEW t \in PiTexts, Pi!Reuse(b, t)
      PROVE  PiTypeOK'
  BY <1>8 DEF Pi!Reuse, Pi!TypeOK
<1> QED
  BY <1>1, <1>2, <1>3, <1>4, <1>5, <1>6, <1>7, <1>8 DEF Pi!Next

\* Raspberry Pi: every variable keeps its type.
THEOREM PiTypeCorrect == Pi!Spec => []PiTypeOK
BY PiInitTypeOK, PiStepTypeOK, PTL DEF Pi!Spec

\* What can have been written for a key, and the entries of it.
PiKept(k)    == IF PiType[k] = "str" THEN PiTexts ELSE Pi!Numbers(k)
PiEntries(k) ==
  {Pi!Missing} \cup {[json |-> Pi!Json(k, v), val |-> v] : v \in PiKept(k)} \cup
  IF PiType[k] = "str" THEN [json : {"ref"}, val : PiBuffers] ELSE {}

\* Entries fit the type of their key; without a document nothing was loaded,
\* or the file is torn.
PiInv == /\ PiTypeOK
         /\ doc # Pi!NullDoc => \A k \in PiKeys : doc[k] \in PiEntries(k)
         /\ file # Pi!Torn => \A k \in PiKeys : file[k] \in PiKept(k) \cup {None}
         /\ doc = Pi!NullDoc => phase = "off" \/ file = Pi!Torn
         /\ phase = "off" => doc = Pi!NullDoc

LEMMA PiKeptContent ==
  ASSUME PiInv, doc # Pi!NullDoc, NEW k \in PiKeys
  PROVE  Pi!Content(k) \in PiKept(k) \cup {None}
<1>1. doc[k] \in PiEntries(k) /\ buf \in [PiBuffers -> PiTexts]
  BY DEF PiInv, PiTypeOK, Pi!TypeOK
<1>2. CASE doc[k] = Pi!Missing
  BY <1>2 DEF Pi!Content, Pi!Missing
<1>3. CASE doc[k] \in {[json |-> Pi!Json(k, v), val |-> v] : v \in PiKept(k)}
  <2>1. PICK v \in PiKept(k) : doc[k] = [json |-> Pi!Json(k, v), val |-> v]
    BY <1>3
  <2>2. doc[k].json # "ref" /\ doc[k].val = v
    BY <2>1, PiJson
  <2> QED
    BY <2>2 DEF Pi!Content
<1>4. CASE PiType[k] = "str" /\ doc[k] \in [json : {"ref"}, val : PiBuffers]
  BY <1>1, <1>4 DEF Pi!Content, PiKept
<1> QED
  BY <1>1, <1>2, <1>3, <1>4 DEF PiEntries

LEMMA PiInitInv == Pi!Init => PiInv
<1> SUFFICES ASSUME Pi!Init PROVE PiInv
  OBVIOUS
<1>1. PiTypeOK
  BY PiInitTypeOK
<1>2. doc = Pi!NullDoc /\ phase = "off" /\ \A k \in PiKeys : file[k] = None
  BY DEF Pi!Init
<1> QED
  BY <1>1, <1>2 DEF PiInv

LEMMA PiNotNull ==
  ASSUME PiTypeOK, doc # Pi!NullDoc, NEW k \in PiKeys, NEW e, e.json # "null",
         doc' = [doc EXCEPT ![k] = e]
  PROVE  doc' # Pi!NullDoc
<1>1. doc'[k] = e
  BY DEF PiTypeOK, Pi!TypeOK
<1>2. Pi!NullDoc[k].json = "null"
  BY DEF Pi!NullDoc
<1> QED
  BY <1>1, <1>2

LEMMA PiStepInv ==
  ASSUME PiInv, [Pi!Next]_(Pi!vars)
  PROVE  PiInv'
<1>1. PiTypeOK /\ PiTypeOK'
  BY PiStepTypeOK DEF PiInv
<1> USE DEF PiInv
<1>2. CASE UNCHANGED Pi!vars
  BY <1>1, <1>2 DEF Pi!vars
<1>3. CASE Pi!InitPref
  <2>1. CASE file = Pi!Torn
    BY <1>1, <1>3, <2>1 DEF Pi!InitPref
  <2>2. CASE file # Pi!Torn
    <3>1. doc' = Pi!Parsed /\ file' = file /\ phase' = "up"
      BY <1>3, <2>2 DEF Pi!InitPref
    <3>2. \A k \in PiKeys : Pi!Parsed[k] \in PiEntries(k)
      BY <2>2 DEF Pi!Parsed, PiEntries
    <3>3. Pi!Parsed # Pi!NullDoc
      <4>1. PICK k \in PiKeys : TRUE
        <5>1. file \in [PiKeys -> Pi!Values \cup {None}]
          BY <1>1, <2>2 DEF PiTypeOK, Pi!TypeOK
        <5> QED
          BY <2>2, <5>1 DEF Pi!Torn
      <4>2. Pi!Parsed[k].json # "null"
        BY PiJson DEF Pi!Parsed, Pi!Missing
      <4>3. Pi!NullDoc[k].json = "null"
        BY DEF Pi!NullDoc
      <4> QED
        BY <4>2, <4>3
    <3> QED
      BY <1>1, <2>2, <3>1, <3>2, <3>3
  <2> QED
    BY <2>1, <2>2
<1>4. CASE Pi!Abort \/ Pi!CommitOpen \/ Pi!Crash
  BY <1>1, <1>4 DEF Pi!Abort, Pi!CommitOpen, Pi!Crash
<1>5. CASE Pi!CommitWrite
  <2>1. UNCHANGED <<doc, buf, piCall>> /\ phase = "committing" /\ phase' = "up"
    BY <1>5 DEF Pi!CommitWrite
  <2>2. CASE file' = Pi!Torn
    BY <1>1, <2>1, <2>2
  <2>3. CASE doc # Pi!NullDoc /\ file' = [k \in PiKeys |-> Pi!Content(k)]
    BY <1>1, <2>1, <2>3, PiKeptContent
  <2> QED
    BY <1>5, <2>2, <2>3 DEF Pi!CommitWrite
<1>6. ASSUME NEW k \in PiKeys, Pi!Read(k) PROVE PiInv'
  BY <1>1, <1>6 DEF Pi!Read
<1>7. ASSUME NEW k \in PiKeys, NEW e \in PiEntries(k), doc' = [doc EXCEPT ![k] = e],
             doc # Pi!NullDoc, UNCHANGED <<phase, file>>, e.json # "null"
      PROVE  PiInv'
  <2>1. doc \in [PiKeys -> Pi!Entries]
    BY <1>1, <1>7 DEF PiTypeOK, Pi!TypeOK
  <2>2. doc'[k] = e /\ \A j \in PiKeys : doc'[j] \in PiEntries(j)
    BY <1>7, <2>1
  <2>3. doc' # Pi!NullDoc
    BY <1>1, <1>7, PiNotNull
  <2> QED
    BY <1>1, <1>7, <2>2, <2>3
<1>8. ASSUME NEW k \in PiKeys, NEW v \in Pi!Numbers(k), Pi!Write(k, v) PROVE PiInv'
  <2> DEFINE e == [json |-> Pi!Json(k, v), val |-> v]
  <2>1. /\ doc' = [doc EXCEPT ![k] = e] /\ doc # Pi!NullDoc /\ UNCHANGED <<phase, file>>
        /\ e.json # "null"
    BY <1>8, PiJson DEF Pi!Write
  <2>2. e \in PiEntries(k)
    <3>1. PiType[k] # "str"
      BY DEF Pi!Numbers, Pi!Uints, Pi!Ints, Pi!Floats
    <3> QED
      BY <3>1 DEF PiEntries, PiKept
  <2> QED
    BY <1>7, <2>1, <2>2
<1>9. ASSUME NEW k \in PiKeys, NEW b \in PiBuffers, Pi!write_str(k, b) PROVE PiInv'
  <2> DEFINE e == IF doc[k] # Pi!Missing THEN [json |-> "ref", val |-> b]
                                         ELSE [json |-> "string", val |-> buf[b]]
  <2>1. /\ doc' = [doc EXCEPT ![k] = e] /\ doc # Pi!NullDoc /\ UNCHANGED <<phase, file>>
        /\ PiType[k] = "str" /\ buf[b] \in PiTexts
    BY <1>1, <1>9 DEF Pi!write_str, PiTypeOK, Pi!TypeOK
  <2>2. Pi!Json(k, buf[b]) = "string"
    BY <2>1 DEF Pi!Json, Pi!Floats
  <2>3. e \in PiEntries(k) /\ e.json # "null"
    BY <2>1, <2>2 DEF PiEntries, PiKept
  <2> QED
    BY <1>7, <2>1, <2>3
<1>10. ASSUME NEW b \in PiBuffers, NEW t \in PiTexts, Pi!Reuse(b, t) PROVE PiInv'
  BY <1>1, <1>10 DEF Pi!Reuse
<1> QED
  BY <1>2, <1>3, <1>4, <1>5, <1>6, <1>8, <1>9, <1>10 DEF Pi!Next

----------------------------------------------------------------------------
(* Raspberry Pi: the refinement of Prefs.                                   *)

PiWork == [k \in PiKeys |-> Pi!Content(k)]

\* A read that misses a key that is there is one of those that Answers names.
LEMMA PiAccepts ==
  ASSUME PiInv, doc # Pi!NullDoc, NEW k \in PiKeys, ~Pi!Accepts(k)
  PROVE  None \in Pi!Answers(k, Pi!Content(k))
<1> DEFINE types == {"u8", "u16", "u32", "u64", "i16", "i32", "float", "double", "ary",
                     "str"}
<1>1. doc[k] \in PiEntries(k) /\ PiType[k] \in types
  BY PiAssumption DEF PiInv
<1>2. CASE doc[k] = Pi!Missing
  BY <1>2 DEF Pi!Content, Pi!Missing, Pi!Answers
<1>3. CASE PiType[k] = "str" /\ doc[k] \in [json : {"ref"}, val : PiBuffers]
  BY <1>3 DEF Pi!Accepts, Pi!Uints, Pi!Ints, Pi!Floats
<1>4. CASE doc[k] \in {[json |-> Pi!Json(k, v), val |-> v] : v \in PiKept(k)}
  <2>1. PICK v \in PiKept(k) : doc[k] = [json |-> Pi!Json(k, v), val |-> v]
    BY <1>4
  <2>2. doc[k].json = Pi!Json(k, v) /\ doc[k].val = v /\ Pi!Content(k) = v
    BY <2>1, PiJson DEF Pi!Content
  <2>3. CASE PiType[k] \in {"u8", "u16", "u32", "u64"}
    <3>1. v \in {"one", "two"}
      BY <2>3 DEF PiKept, Pi!Numbers, Pi!Uints, Pi!Ints, Pi!Floats
    <3> QED
      BY <2>2, <2>3, <3>1 DEF Pi!Accepts, Pi!Json, Pi!Uints, Pi!Ints, Pi!Floats
  <2>4. CASE PiType[k] \in {"i16", "i32"}
    <3>1. v \in {"minus", "one"}
      BY <2>4 DEF PiKept, Pi!Numbers, Pi!Uints, Pi!Ints, Pi!Floats
    <3>2. Pi!Json(k, v) = IF v = "minus" THEN "int" ELSE "uint"
      BY <2>4 DEF Pi!Json, Pi!Floats
    <3>3. PiType[k] = "i16" /\ v = "minus"
      BY <2>2, <2>4, <3>1, <3>2 DEF Pi!Accepts, Pi!Uints, Pi!Ints, Pi!Floats
    <3> QED
      BY <2>2, <3>3 DEF Pi!Answers
  <2>5. CASE PiType[k] \in {"float", "double"}
    <3>1. v \in {"half", "nan"}
      BY <2>5 DEF PiKept, Pi!Numbers, Pi!Uints, Pi!Ints, Pi!Floats
    <3>2. Pi!Json(k, v) = "double"
      BY <2>5 DEF Pi!Json, Pi!Floats
    <3>3. PiType[k] = "float" /\ v = "nan"
      BY <2>2, <2>5, <3>1, <3>2 DEF Pi!Accepts, Pi!Uints, Pi!Ints, Pi!Floats
    <3> QED
      BY <2>2, <3>3 DEF Pi!Answers
  <2>6. CASE PiType[k] \in {"ary", "str"}
    BY <2>2, <2>6 DEF Pi!Accepts, Pi!Json, Pi!Uints, Pi!Ints, Pi!Floats
  <2> QED
    BY <1>1, <2>3, <2>4, <2>5, <2>6
<1> QED
  BY <1>1, <1>2, <1>3, <1>4 DEF PiEntries

LEMMA PiNullWork == ASSUME doc = Pi!NullDoc
                    PROVE  PiWork = [k \in PiKeys |-> None]
BY DEF PiWork, Pi!Content, Pi!NullDoc

LEMMA PiInitRefines == Pi!Init => Pi!P!Init
BY PiNullWork DEF Pi!Init, Pi!P!Init, Pi!P!Empty, PiWork

LEMMA PiStartRefines ==
  ASSUME PiInv, Pi!InitPref
  PROVE  [Pi!P!Next]_(Pi!P!vars)
<1>1. /\ UNCHANGED <<file, buf, piCall>> /\ phase = "off" /\ phase' = "up"
      /\ doc = Pi!NullDoc
  BY DEF Pi!InitPref, PiInv
<1>2. CASE doc' = Pi!NullDoc
  <2>1. PiWork' = PiWork
    BY <1>1, <1>2 DEF PiWork, Pi!Content, Pi!NullDoc
  <2> QED
    BY <1>1, <1>2, <2>1 DEF Pi!P!vars, PiWork
<1>3. CASE doc' # Pi!NullDoc
  <2>1. doc' = Pi!Parsed /\ file # Pi!Torn
    BY <1>3 DEF Pi!InitPref
  <2>2. file \in [PiKeys -> Pi!Values \cup {None}]
    BY <2>1 DEF PiInv, PiTypeOK, Pi!TypeOK
  <2>3. \A k \in PiKeys : Pi!Parsed[k].json # "ref" /\ Pi!Parsed[k].val = file[k]
    BY PiJson DEF Pi!Parsed, Pi!Missing
  <2>4. PiWork' = file
    BY <2>1, <2>2, <2>3 DEF PiWork, Pi!Content
  <2> QED
    BY <1>1, <1>3, <2>1, <2>4 DEF Pi!P!Next, Pi!P!Start, PiWork
<1> QED
  BY <1>2, <1>3

\* A document in which the entry of one key is replaced.
LEMMA PiWriteRefines ==
  ASSUME PiInv, PiInv', doc # Pi!NullDoc, phase = "up", UNCHANGED <<phase, file, buf>>,
         NEW k \in PiKeys, NEW e, doc' = [doc EXCEPT ![k] = e], doc' # Pi!NullDoc,
         NEW v \in Pi!Values, piCall' = <<"write", k, v>>,
         (IF e.json = "ref" THEN buf[e.val] ELSE e.val) = v
  PROVE  [Pi!P!Next]_(Pi!P!vars)
<1>1. doc \in [PiKeys -> Pi!Entries]
  BY DEF PiInv, PiTypeOK, Pi!TypeOK
<1>2. \A j \in PiKeys : Pi!Content(j)' = IF j = k THEN v ELSE Pi!Content(j)
  BY <1>1 DEF Pi!Content
<1>3. PiWork' = [PiWork EXCEPT ![k] = v]
  BY <1>2 DEF PiWork
<1> QED
  BY <1>3 DEF Pi!P!Next, Pi!P!Write, PiWork

LEMMA PiReadRefines ==
  ASSUME PiInv, NEW k \in PiKeys, Pi!Read(k)
  PROVE  [Pi!P!Next]_(Pi!P!vars)
<1>1. /\ UNCHANGED <<phase, doc, file, buf>> /\ doc # Pi!NullDoc /\ phase = "up"
      /\ piCall' = <<"read", k, IF Pi!Accepts(k) THEN Pi!Content(k) ELSE None>>
  BY DEF Pi!Read
<1>2. PiWork' = PiWork /\ PiWork[k] = Pi!Content(k)
  BY <1>1 DEF PiWork, Pi!Content
<1>3. PICK v \in Pi!Values \cup {None} :
        piCall' = <<"read", k, v>> /\ v \in Pi!Answers(k, Pi!Content(k))
  <2>1. Pi!Content(k) \in Pi!Values \cup {None}
    BY <1>1, PiContentFacts DEF PiInv
  <2>2. Pi!Content(k) \in Pi!Answers(k, Pi!Content(k))
    BY DEF Pi!Answers
  <2> QED
    BY <1>1, <2>1, <2>2, PiAccepts
<1> QED
  BY <1>1, <1>2, <1>3 DEF Pi!P!Next, Pi!P!Read, PiWork

LEMMA PiCommitOpenRefines ==
  ASSUME PiInv, Pi!CommitOpen
  PROVE  [Pi!P!Next]_(Pi!P!vars)
<1>1. /\ UNCHANGED <<doc, buf, piCall>> /\ phase = "up" /\ phase' = "committing"
      /\ file' = Pi!Torn
  BY DEF Pi!CommitOpen
<1>2. PiWork' = PiWork
  BY <1>1 DEF PiWork, Pi!Content
<1>3. CASE doc = Pi!NullDoc
  <2>1. file = Pi!Torn
    BY <1>1, <1>3 DEF PiInv
  <2> QED
    BY <1>1, <1>2, <1>3, <2>1 DEF Pi!P!vars, PiWork
<1>4. CASE doc # Pi!NullDoc
  BY <1>1, <1>2, <1>4 DEF Pi!P!Next, Pi!P!CommitBegin, PiWork
<1> QED
  BY <1>3, <1>4

LEMMA PiCommitWriteRefines ==
  ASSUME PiInv, Pi!CommitWrite
  PROVE  [Pi!P!Next]_(Pi!P!vars)
<1>1. UNCHANGED <<doc, buf, piCall>> /\ phase = "committing" /\ phase' = "up"
  BY DEF Pi!CommitWrite
<1>2. PiWork' = PiWork
  BY <1>1 DEF PiWork, Pi!Content
<1>3. CASE doc = Pi!NullDoc
  <2>1. file = Pi!Torn /\ file' = Pi!Torn
    BY <1>1, <1>3 DEF PiInv, Pi!CommitWrite
  <2> QED
    BY <1>1, <1>2, <1>3, <2>1 DEF Pi!P!vars, PiWork
<1>4. CASE doc # Pi!NullDoc /\ \E k \in PiKeys : doc[k].val = "nan"
  <2>1. PICK k \in PiKeys : doc[k].val = "nan"
    BY <1>4
  <2>2. doc[k] \in Pi!Entries
    BY <1>4, PiContentFacts DEF PiInv
  <2>3. doc[k].json # "ref"
    BY <2>1, <2>2, PiAssumption DEF Pi!Entries, Pi!Missing
  <2>4. PiWork[k] = "nan"
    BY <2>1, <2>3 DEF PiWork, Pi!Content
  <2>5. file' = Pi!Torn
    BY <1>4 DEF Pi!CommitWrite
  <2> QED
    BY <1>1, <1>2, <1>4, <2>4, <2>5 DEF Pi!P!Next, Pi!P!CommitEnd, PiWork
<1>5. CASE doc # Pi!NullDoc /\ ~\E k \in PiKeys : doc[k].val = "nan"
  <2>1. file' = PiWork
    BY <1>5 DEF Pi!CommitWrite, PiWork
  <2> QED
    BY <1>1, <1>2, <1>5, <2>1 DEF Pi!P!Next, Pi!P!CommitEnd, PiWork
<1> QED
  BY <1>3, <1>4, <1>5

LEMMA PiCrashRefines ==
  ASSUME PiInv, Pi!Crash
  PROVE  [Pi!P!Next]_(Pi!P!vars)
<1>1. /\ UNCHANGED <<file, buf, piCall>> /\ phase # "off" /\ doc' = Pi!NullDoc
      /\ phase \in {"up", "committing"}
  BY DEF Pi!Crash, PiInv, PiTypeOK, Pi!TypeOK
<1>2. PiWork' = [k \in PiKeys |-> None]
  BY <1>1 DEF PiWork, Pi!Content, Pi!NullDoc
<1>3. CASE doc = Pi!NullDoc
  BY <1>1, <1>2, <1>3, PiNullWork DEF Pi!P!vars, PiWork
<1>4. CASE doc # Pi!NullDoc
  <2>1. file # Pi!Torn => file \in [PiKeys -> Pi!Values \cup {None}]
    BY DEF PiInv, PiTypeOK, Pi!TypeOK
  <2> QED
    BY <1>1, <1>2, <1>4, <2>1 DEF Pi!P!Next, Pi!P!Crash, Pi!P!Empty, PiWork
<1> QED
  BY <1>3, <1>4

LEMMA PiReuseRefines ==
  ASSUME KeepsBuffers = TRUE, PiInv, NEW b \in PiBuffers, NEW t \in PiTexts,
         Pi!Reuse(b, t)
  PROVE  [Pi!P!Next]_(Pi!P!vars)
<1>1. /\ UNCHANGED <<phase, doc, file, piCall>> /\ buf' = [buf EXCEPT ![b] = t]
      /\ \A k \in PiKeys : doc[k] # [json |-> "ref", val |-> b]
      /\ buf \in [PiBuffers -> PiTexts]
  BY DEF Pi!Reuse, PiInv, PiTypeOK, Pi!TypeOK
<1>2. CASE doc = Pi!NullDoc
  <2>1. PiWork' = PiWork
    BY <1>1, <1>2 DEF PiWork, Pi!Content, Pi!NullDoc
  <2> QED
    BY <1>1, <2>1 DEF Pi!P!vars, PiWork
<1>3. CASE doc # Pi!NullDoc
  <2>1. ASSUME NEW k \in PiKeys PROVE Pi!Content(k)' = Pi!Content(k)
    <3>1. doc[k] \in Pi!Entries
      BY <1>3, PiContentFacts DEF PiInv
    <3>2. CASE doc[k].json = "ref"
      <4>1. doc[k] \in [json : {"ref"}, val : PiBuffers]
        BY <3>1, <3>2 DEF Pi!Entries, Pi!Missing
      <4>2. doc[k].val \in PiBuffers \ {b}
        BY <1>1, <4>1
      <4> QED
        BY <1>1, <4>2 DEF Pi!Content
    <3>3. CASE doc[k].json # "ref"
      BY <1>1, <3>3 DEF Pi!Content
    <3> QED
      BY <3>2, <3>3
  <2>2. PiWork' = PiWork
    BY <2>1 DEF PiWork
  <2> QED
    BY <1>1, <2>2 DEF Pi!P!vars, PiWork
<1> QED
  BY <1>2, <1>3

LEMMA PiStepRefines ==
  ASSUME KeepsBuffers = TRUE, PiInv, PiInv', [Pi!Next]_(Pi!vars)
  PROVE  [Pi!P!Next]_(Pi!P!vars)
<1>1. CASE UNCHANGED Pi!vars
  BY <1>1 DEF Pi!vars, Pi!P!vars, Pi!Content
<1>2. CASE Pi!Abort
  <2>1. /\ UNCHANGED <<doc, file, buf, piCall>> /\ doc = Pi!NullDoc
    BY <1>2 DEF Pi!Abort
  <2> QED
    BY <2>1 DEF Pi!P!vars, Pi!Content
<1>3. ASSUME NEW k \in PiKeys, NEW v \in Pi!Numbers(k), Pi!Write(k, v)
      PROVE  [Pi!P!Next]_(Pi!P!vars)
  <2> DEFINE e == [json |-> Pi!Json(k, v), val |-> v]
  <2>1. /\ doc' = [doc EXCEPT ![k] = e] /\ doc # Pi!NullDoc /\ phase = "up"
        /\ UNCHANGED <<phase, file, buf>> /\ piCall' = <<"write", k, v>>
        /\ v \in Pi!Values
    BY <1>3, PiNumbers DEF Pi!Write
  <2>2. doc' # Pi!NullDoc
    BY <2>1, PiNotNull, PiJson DEF PiInv
  <2>3. (IF e.json = "ref" THEN buf[e.val] ELSE e.val) = v
    BY PiJson
  <2> QED
    BY <2>1, <2>2, <2>3, PiWriteRefines
<1>4. ASSUME NEW k \in PiKeys, NEW b \in PiBuffers, Pi!write_str(k, b)
      PROVE  [Pi!P!Next]_(Pi!P!vars)
  <2> DEFINE e == IF doc[k] # Pi!Missing THEN [json |-> "ref", val |-> b]
                                         ELSE [json |-> "string", val |-> buf[b]]
  <2>1. /\ doc' = [doc EXCEPT ![k] = e] /\ doc # Pi!NullDoc /\ phase = "up"
        /\ UNCHANGED <<phase, file, buf>> /\ piCall' = <<"write", k, buf[b]>>
        /\ buf[b] \in Pi!Values
    BY <1>4 DEF Pi!write_str, PiInv, PiTypeOK, Pi!TypeOK, Pi!Values
  <2>2. e.json # "null" /\ (IF e.json = "ref" THEN buf[e.val] ELSE e.val) = buf[b]
    OBVIOUS
  <2>3. doc' # Pi!NullDoc
    BY <2>1, <2>2, PiNotNull DEF PiInv
  <2> QED
    BY <2>1, <2>2, <2>3, PiWriteRefines
<1> QED
  BY <1>1, <1>2, <1>3, <1>4, PiStartRefines, PiReadRefines, PiCommitOpenRefines,
     PiCommitWriteRefines, PiCrashRefines, PiReuseRefines DEF Pi!Next

\* Raspberry Pi: the PrefManager is a store as Prefs describes it, as long as
\* the callers of write_str leave the buffers alone that they passed: the
\* document keeps pointers to them.
THEOREM PiImplementsPrefs ==
  ASSUME KeepsBuffers = TRUE
  PROVE  Pi!Spec => PiIsPrefs
<1>1. PiInv /\ PiInv' /\ [Pi!Next]_(Pi!vars) => [Pi!P!Next]_(Pi!P!vars)
  BY PiStepRefines
<1>2. PiInv /\ [Pi!Next]_(Pi!vars) => PiInv'
  BY PiStepInv
<1> QED
  BY <1>1, <1>2, PiInitInv, PiInitRefines, PTL DEF Pi!Spec, PiIsPrefs, Pi!IsPrefs,
     Pi!P!Spec
=================================================================================
