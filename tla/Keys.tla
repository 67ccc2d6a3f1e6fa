-------------------------------- MODULE Keys --------------------------------
(***************************************************************************)
(* Keys and tokens: encode_id and decode_id (id.cpp), resume tokens and    *)
(* the options of $changeStream (translator's changestream.cpp).           *)
(*                                                                         *)
(* Integers have Width bits and bytes are bits, big end first: a key's     *)
(* order as bytes is the order of its bits as a number. A double is a sign *)
(* bit, ExpBits of exponent and ManBits of mantissa; its value is counted  *)
(* in the smallest step, and the largest exponent is for infinity and NaN. *)
(* The code's own sizes are Width 64, ExpBits 11, ManBits 52, Bias 1023,   *)
(* Base 16 and Digits 16.                                                  *)
(***************************************************************************)
EXTENDS Integers, Sequences, FiniteSets

CONSTANTS
  Width, ExpBits, ManBits,  \* bits of a number, a double's exponent, its mantissa
  Bias,                     \* the exponent field of the number 1
  Base, Digits,             \* a resume token has Digits digits of Base
  MaxOptions                \* most options of a $changeStream stage

ASSUME KeysAssumption ==
  /\ Width = 1 + ExpBits + ManBits
  /\ ExpBits \in Nat \ {0} /\ ManBits \in Nat \ {0} /\ Bias \in Nat \ {0}
  /\ Base \in Nat \ {0, 1} /\ Digits \in Nat \ {0} /\ MaxOptions \in Nat

VARIABLE question
NoQuestion == [area |-> "none"]

(* b to the power n.                                                       *)
Pow(b, n) == LET power[i \in 0..n] == IF i = 0 THEN 1 ELSE b * power[i - 1] IN power[n]
Half == Pow(2, Width - 1)
Bits == 0..(2 * Half - 1)
Ints == (-Half)..(Half - 1)

----------------------------------------------------------------------------
(* _id keys                                                                *)

(* encode_int and decode_int: two's complement with the sign bit flipped.  *)
Flip(bits) == IF bits >= Half THEN bits - Half ELSE bits + Half
EncodeInt(n) == Flip(n % (2 * Half))
DecodeInt(bits) == LET b == Flip(bits) IN IF b >= Half THEN b - 2 * Half ELSE b

(* Doubles, by their bits.                                                 *)
Negative(bits) == bits >= Half
Magnitude(bits) == bits % Half
Exponent(bits) == Magnitude(bits) \div Pow(2, ManBits)
Mantissa(bits) == Magnitude(bits) % Pow(2, ManBits)
IsFinite(bits) == Exponent(bits) # Pow(2, ExpBits) - 1
AbsValue(bits) ==
  IF Exponent(bits) = 0 THEN Mantissa(bits)
  ELSE (Pow(2, ManBits) + Mantissa(bits)) * Pow(2, Exponent(bits) - 1)
RealValue(bits) == IF Negative(bits) THEN -AbsValue(bits) ELSE AbsValue(bits)

(* The number 1, in steps: doubles below it have fractions.                *)
One == Pow(2, ManBits + Bias - 1)
IsIntegral(bits) == IsFinite(bits) /\ RealValue(bits) % One = 0
AsInt(bits) == RealValue(bits) \div One

(* Mutant of EncodeDouble: negative numbers are not inverted.              *)
EncodeDoubleSignOnly(bits) == IF Negative(bits) THEN bits - Half ELSE bits + Half

(* encode_double and decode_double.                                        *)
EncodeDouble(bits) == IF Negative(bits) THEN (2 * Half - 1) - bits ELSE bits + Half
DecodeDouble(bits) == IF bits >= Half THEN bits - Half ELSE (2 * Half - 1) - bits

(* Mutant of EncodeId: a double is a double.                               *)
EncodeIdByType(id) ==
  IF id.t = "int" THEN [tag |-> "int", bits |-> EncodeInt(id.n)]
  ELSE [tag |-> "double", bits |-> EncodeDouble(id.n)]

(* encode_id: a double without a fraction that an integer can hold is that *)
(* integer. ObjectIds and strings are their own bytes under their own tag. *)
EncodeId(id) ==
  IF id.t = "int" THEN [tag |-> "int", bits |-> EncodeInt(id.n)]
  ELSE IF IsIntegral(id.n) /\ AsInt(id.n) \in Ints
       THEN [tag |-> "int", bits |-> EncodeInt(AsInt(id.n))]
  ELSE [tag |-> "double", bits |-> EncodeDouble(id.n)]
DecodeId(key) ==
  IF key.tag = "int" THEN [t |-> "int", n |-> DecodeInt(key.bits)]
  ELSE [t |-> "double", n |-> DecodeDouble(key.bits)]

IdsOf == {[t |-> "int", n |-> n] : n \in Ints} \cup {[t |-> "double", n |-> b] : b \in Bits}
Number(id) == IF id.t = "int" THEN id.n * One ELSE RealValue(id.n)
IsNumber(id) == id.t = "int" \/ IsFinite(id.n)

----------------------------------------------------------------------------
(* Resume tokens                                                           *)

(* encode_resume_token: Digits digits, zeros in front.                     *)
EncodeToken(seq) == [i \in 1..Digits |-> (seq \div Pow(Base, Digits - i)) % Base]

(* Mutant of Acceptable: any length will do.                               *)
AcceptableLength(data) == \A i \in DOMAIN data : data[i] \in 0..(Base - 1)

(* decode_resume_token: exactly Digits lowercase digits.                   *)
Acceptable(data) == Len(data) = Digits /\ \A i \in DOMAIN data : data[i] \in 0..(Base - 1)
DecodeToken(data) ==
  LET value[i \in 0..Len(data)] == IF i = 0 THEN 0 ELSE value[i - 1] * Base + data[i]
  IN value[Len(data)]

(* Strings a client may send back: also longer, shorter, and with a        *)
(* character (Base) that is no lowercase digit.                            *)
TokenData == UNION {[1..n -> 0..Base] : n \in (Digits - 1)..(Digits + 1)}

----------------------------------------------------------------------------
(* $changeStream options                                                   *)

(* An option is good, asks for what is not supported, or names an origin.  *)
Options == {"fullDocument", "required", "resumeAfter", "startAfter", "startAtOperationTime",
            "badToken"}
Origins == {"resumeAfter", "startAfter", "startAtOperationTime"}
Start == [start |-> "head", error |-> "none"]

(* Mutant of TakesOrigin: the last origin wins.                            *)
TakesAnyOrigin(opts) == TRUE

(* reject_second_origin.                                                   *)
TakesOrigin(opts) == opts.start = "head"

(* parse_change_stream: option by option, and the first error ends it.     *)
ParseOption(opts, o) ==
  IF opts.error # "none" \/ o = "fullDocument" THEN opts
  ELSE IF o = "required" THEN [opts EXCEPT !.error = "NotImplemented"]
  ELSE IF ~TakesOrigin(opts) THEN [opts EXCEPT !.error = "OptionsConflict"]
  ELSE IF o = "badToken" THEN [opts EXCEPT !.error = "BadValue"]
  ELSE [opts EXCEPT !.start = IF o = "startAtOperationTime" THEN "time" ELSE "token"]
ParseOptions(options) ==
  LET parsed[i \in 0..Len(options)] ==
        IF i = 0 THEN Start ELSE ParseOption(parsed[i - 1], options[i])
  IN parsed[Len(options)]

----------------------------------------------------------------------------

AskId == \E id \in IdsOf : question' = [area |-> "id", id |-> id]
AskToken == \E data \in TokenData : question' = [area |-> "token", data |-> data]
AskOptions == \E n \in 0..MaxOptions : \E options \in [1..n -> Options] :
                question' = [area |-> "options", options |-> options]

KeysInit == question = NoQuestion
KeysNext == question = NoQuestion /\ (AskId \/ AskToken \/ AskOptions)
KeysSpec == KeysInit /\ [][KeysNext]_question

----------------------------------------------------------------------------
(* Properties                                                              *)

(* Two _ids have one key exactly when they are the same number: 1,         *)
(* NumberLong(1) and 1.0 never make two rows, and two numbers never share  *)
(* one. Keys of one kind sort as their numbers do, which is what InnoDB's  *)
(* order gives.                                                            *)
KeysAreNumbers ==
  question.area = "id" =>
    \A other \in IdsOf :
      LET a == question.id
          key == EncodeId(a)
          otherKey == EncodeId(other)
      IN IsNumber(a) /\ IsNumber(other) =>
           /\ (key = otherKey) = (Number(a) = Number(other))
           /\ key.tag = otherKey.tag /\ Number(a) < Number(other) => key.bits < otherKey.bits

(* What is read from a key is the _id that made it: the same double, bit   *)
(* by bit, infinities and NaN included, or the same number as an integer.  *)
KeysReadBack ==
  question.area = "id" =>
    LET back == DecodeId(EncodeId(question.id))
    IN back = question.id \/ (back.t = "int" /\ Number(back) = Number(question.id))

(* A token that is accepted is the token of the position it is decoded to, *)
(* so no two tokens stand for one position, and none for another.          *)
TokensReadBack ==
  question.area = "token" /\ Acceptable(question.data) =>
    EncodeToken(DecodeToken(question.data)) = question.data

(* Whether options are accepted, and where the stream starts, does not     *)
(* depend on the order in which a driver sends them; two origins never are *)
(* accepted.                                                               *)
Swapped(s, i) == [s EXCEPT ![i] = s[i + 1], ![i + 1] = s[i]]
OptionsInAnyOrder ==
  question.area = "options" =>
    LET options == question.options
        result == ParseOptions(options)
    IN /\ \A i \in 1..(Len(options) - 1) :
            LET other == ParseOptions(Swapped(options, i))
            IN /\ (result.error = "none") = (other.error = "none")
               /\ result.error = "none" => result.start = other.start
       /\ result.error = "none" =>
            Cardinality({i \in DOMAIN options : options[i] \in Origins}) <= 1

(* Whatever is encoded for a client or for InnoDB is decoded to what it    *)
(* was, and no two things have one encoding.                               *)
EncodingsAreFaithful ==
  KeysAreNumbers /\ KeysReadBack /\ TokensReadBack /\ OptionsInAnyOrder
=============================================================================
