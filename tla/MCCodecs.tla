------------------------------ MODULE MCCodecs ------------------------------
(***************************************************************************)
(* What the libraries write and read back: numbers as text, values as      *)
(* bytes, objects as entries of a database.  They share nothing; part says *)
(* which one a behaviour is about, and c1 .. c5 are its variables, in the  *)
(* order in which its module declares them; those it does not need rest.   *)
(***************************************************************************)
EXTENDS Integers, Sequences, TLC

CONSTANTS
  limb_bits, limb_digits_10, MaxBits, BigOps,
  IntegerChars, MaxText, Bits, WordBits, ChunkDigits, WriteValues,
  significand_size, mantissa_bits, exponent_bits, exponent_bias, digits10,
  pow_10_step, pow_10_first, pow_10_last, minimal_target_exp,
  negative_cutoff, positive_cutoff, float_limb_bits, float_limb_digits_10,
  FloatChars, FloatSeeds, MaxTyped,
  MbpFields, MaxFields, MaxMarks,
  StoreType, Name, Values, Radix, small_string_size, StoreOps

VARIABLES part, c1, c2, c3, c4, c5

Bigs     == INSTANCE BigInt WITH num <- c1, den <- c2, rnum <- c3, rden <- c4, ops <- c5,
                                 MaxOps <- BigOps
Integral == INSTANCE AsciiIntegers WITH mode <- c1, text <- c2, val <- c3, Chars <- IntegerChars
Floats   == INSTANCE AsciiFloats WITH mode <- c1, text <- c2, typed <- c3, val <- c4,
                                      Chars <- FloatChars, Seeds <- FloatSeeds,
                                      limb_bits <- float_limb_bits,
                                      limb_digits_10 <- float_limb_digits_10
Bytes    == INSTANCE Mbp WITH buf <- c1, log <- c2, Fields <- MbpFields
Store    == INSTANCE TextStore WITH db <- c1, expect <- c2, object <- c3, live <- c4, ops <- c5,
                                    Type <- StoreType, MaxOps <- StoreOps

From3 == c3 = 0 /\ c4 = 0 /\ c5 = 0
From4 == c4 = 0 /\ c5 = 0

Init ==
  \/ part = "big"     /\ Bigs!Init
  \/ part = "integer" /\ Integral!Init /\ From4
  \/ part = "float"   /\ Floats!Init   /\ c5 = 0
  \/ part = "bytes"   /\ Bytes!Init    /\ From3
  \/ part = "store"   /\ Store!Init

Next ==
  /\ UNCHANGED part
  /\ \/ part = "big"     /\ Bigs!Next
     \/ part = "integer" /\ Integral!Next /\ UNCHANGED <<c4, c5>>
     \/ part = "float"   /\ Floats!Next   /\ UNCHANGED c5
     \/ part = "bytes"   /\ Bytes!Next    /\ UNCHANGED <<c3, c4, c5>>
     \/ part = "store"   /\ Store!Next

Spec == Init /\ [][Next]_<<part, c1, c2, c3, c4, c5>>

\* Around the powers of two and of ten, where chunks and words begin.
MCWriteValues ==
  (0..300) \cup {2^k - 1 : k \in 9..28} \cup {2^k : k \in 9..27}
  \cup {10^k - 1 : k \in 3..8} \cup {10^k : k \in 3..8} \cup {65535 - 7 * k : k \in 0..50}

MCFirst == -8
MCTarget == -8
MCCutoff == -1
MCFloatSeeds ==
  {<<>>, <<"0", ".", "0">>, <<"1", "0">>, <<"1", ".", "4">>, <<"0", "x">>, <<"0", "x", "f">>,
   <<"0", "x", "0", ".", "0">>, <<"0", "x", "1", ".", "f", "8", "p", "-">>}

Scalar(n, s, vs) == {[n |-> n, s |-> s, seq |-> FALSE, v |-> <<x>>] : x \in vs}
List(n, s, vs)   == {[n |-> n, s |-> s, seq |-> TRUE, v |-> x] : x \in vs}

\* On both sides of every width that is chosen.
MCFields ==
  Scalar(0, 1, {-17, -16, 15, 16}) \cup Scalar(0, 2, {-32768, -129, 127, 128})
  \cup Scalar(0, 3, {-32769, 32767, -1000000}) \cup Scalar(1, 1, {31, 32, 255})
  \cup Scalar(1, 2, {16, 256}) \cup Scalar(1, 3, {65536, 200})
  \cup Scalar(2, 2, {3333}) \cup Scalar(2, 3, {99999})
  \cup List(0, 1, {<<>>, <<-5>>, <<1, 2, 3, 4, 5, 6, 7, -8>>, <<1, 2, 3, 4, 5, 6, 7, -8, 9>>})
  \cup List(1, 2, {<<40000>>, [i \in 1..257 |-> 3]})
  \cup List(2, 2, {<<77, 78>>})

\* A record of a vector of records, a vector of vectors and an array.
Num  == [t |-> "num"]
Pair == [t |-> "rec", fields |-> <<[name |-> "x", type |-> Num], [name |-> "", type |-> [t |-> "list"]]>>]
MCType ==
  [t |-> "rec",
   fields |-> <<[name |-> "a", type |-> [t |-> "vec", of |-> Pair]],
                [name |-> "v", type |-> [t |-> "vec", of |-> [t |-> "vec", of |-> Num]]],
                [name |-> "", type |-> [t |-> "arr", n |-> 2, of |-> Num]]>>]
MCValues ==
  {<<a, v, <<7, 8>>>> :
     a \in {<<>>, <<<<1, <<2, 3>>>>>>, <<<<1, <<>>>>, <<4, <<5>>>>>>,
            <<<<1, <<2>>>>, <<1, <<2>>>>, <<1, <<>>>>>>},
     v \in {<<>>, <<<<1>>, <<2, 3>>>>, <<<<>>, <<5>>>>, <<<<1>>, <<2>>, <<3>>, <<4>>>>, <<<<9, 9, 9, 9>>>>}}

\* Limb vectors compute what numbers do, and integers read back from their
\* text as themselves or are refused (int_adapter, ascii_numeric_i).
NumbersAgree ==
  /\ part = "big"     => Bigs!BigIntAgrees
  /\ part = "integer" => Integral!IntegersAgree

\* A number with a fraction is read as the nearest value, and the digits
\* written for a value read back as it (from_ascii_numeric_f, to_ascii_decimal_f).
FloatsNearest == part = "float" => Floats!FloatsAgree

\* What was packed or saved is what is unpacked or restored (mbp unpack and
\* expand, text_store_adaptor).
PackedReadBack ==
  /\ part = "bytes" => Bytes!MessagesReadBack
  /\ part = "store" => Store!RestoresSaved

\* An unsigned number that was packed is the number that is unpacked
\* (test/mbp.cpp compares them).
UnsignedReadBack == part = "bytes" => Bytes!UnsignedReadBack
=============================================================================
