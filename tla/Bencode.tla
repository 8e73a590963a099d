------------------------------ MODULE Bencode ------------------------------
(***************************************************************************)
(* BencodeDecoder (bencode.rs): decode() with its recursion laid open as a  *)
(* stack of the lists and dictionaries that are being read.                 *)
(*                                                                         *)
(* A value is a record with the field int, str, list or dict; a dictionary  *)
(* is a function from keys to values.  A byte is a string, and a name that  *)
(* the code looks for ("announce") is abbreviated to one byte.              *)
(***************************************************************************)
EXTENDS Integers, Sequences

CONSTANTS
    I64,      \* 2^63: integers are in -I64 .. I64 - 1
    USize,    \* number of values of a usize
    StackDepth \* lists and dictionaries that the stack of the thread holds open

ASSUME WidthAssumption == I64 \in Nat \ {0} /\ USize \in Nat \ {0}
ASSUME DepthAssumption == StackDepth \in Nat

VARIABLES
    data,      \* the bytes
    position,  \* how many of them have been consumed
    stack,     \* the frames: values under construction, with the key at hand
    decoded,   \* "no", "running", "ok", "error", "panic" or "overflow"
    value      \* the value, when decoded = "ok"

decoderVars == <<data, position, stack, decoded, value>>

None == [str |-> <<>>]     \* stands for no value yet

Digits == <<"0", "1", "2", "3", "4", "5", "6", "7", "8", "9">>
Digit == {Digits[i] : i \in DOMAIN Digits}
Worth(c) == (CHOOSE i \in DOMAIN Digits : Digits[i] = c) - 1

IsNumeral(s) == s # <<>> /\ \A i \in DOMAIN s : s[i] \in Digit

Decimal(s) ==
    LET upTo[n \in 0 .. Len(s)] ==
            IF n = 0 THEN 0 ELSE 10 * upTo[n - 1] + Worth(s[n])
    IN  upTo[Len(s)]

Unsigned(s, signs) == IF s # <<>> /\ s[1] \in signs THEN Tail(s) ELSE s

\* str::parse: the number that a slice stands for, or none.  Leading zeros and
\* a plus sign are fine, a number beyond the width is not.
ParseUsize(s) ==
    LET t == Unsigned(s, {"+"})
    IN  IF IsNumeral(t) THEN {Decimal(t)} \cap (0 .. (USize - 1)) ELSE {}

ParseI64(s) ==
    LET t == Unsigned(s, {"+", "-"})
        n == IF s[1] = "-" THEN -Decimal(t) ELSE Decimal(t)
    IN  IF IsNumeral(t) THEN {n} \cap (-I64 .. (I64 - 1)) ELSE {}

-----------------------------------------------------------------------------
Ahead == position < Len(data)
Byte == data[position + 1]

\* read_until: where the first delimiter is, or nowhere.
Until(from, delimiter) ==
    {i \in from .. (Len(data) - 1) :
        /\ data[i + 1] = delimiter
        /\ \A j \in from .. (i - 1) : data[j + 1] # delimiter}

Slice(from, to) == SubSeq(data, from + 1, to)

Top == stack[Len(stack)]
InLoop == stack # <<>> /\ "key" \notin DOMAIN Top
KeyDue == InLoop /\ "dict" \in DOMAIN Top

Stop(how) ==
    /\ decoded' = how
    /\ UNCHANGED <<data, position, stack, value>>

\* Mutant: of two equal keys the first one counts.
AddFirst(frame, v) ==
    IF "list" \in DOMAIN frame THEN [list |-> Append(frame.list, v)]
    ELSE [dict |-> [k \in DOMAIN frame.dict \cup {frame.key} |->
                        IF k \in DOMAIN frame.dict THEN frame.dict[k] ELSE v]]

\* `list.push(value)` and `dict.insert(key, value)`: a later value for a key
\* replaces the earlier one.
Add(frame, v) ==
    IF "list" \in DOMAIN frame THEN [list |-> Append(frame.list, v)]
    ELSE [dict |-> [k \in DOMAIN frame.dict \cup {frame.key} |->
                        IF k = frame.key THEN v ELSE frame.dict[k]]]

\* decode() returns v to the loop that called it, or to its caller.
Return(frames, v) ==
    IF frames = <<>>
    THEN stack' = <<>> /\ value' = v /\ decoded' = "ok"
    ELSE /\ stack' = [frames EXCEPT ![Len(frames)] = Add(@, v)]
         /\ UNCHANGED <<value, decoded>>

DecodeInteger ==
    /\ ~KeyDue /\ Ahead /\ Byte = "i"
    /\ LET numbers == UNION {ParseI64(Slice(position + 1, i)) \X {i} :
                                i \in Until(position + 1, "e")}
       IN  \/ numbers = {} /\ Stop("error")
           \/ \E number \in numbers :
                 /\ position' = number[2] + 1
                 /\ Return(stack, [int |-> number[1]])
                 /\ UNCHANGED data

\* decode_byte_string, of a value and of a key; that a key starts with a digit
\* is not looked at.  `position + len` beyond the width panics, at the addition
\* or, in a release build, at the slice.
DecodeByteString ==
    /\ Ahead /\ IF KeyDue THEN Byte # "e" ELSE Byte \in Digit
    /\ LET lengths == UNION {ParseUsize(Slice(position, i)) \X {i + 1} :
                                i \in Until(position, ":")}
       IN  \/ lengths = {} /\ Stop("error")
           \/ \E length \in lengths :
                 LET start == length[2]
                     end   == start + length[1]
                     text  == Slice(start, end)
                 IN  \/ end >= USize /\ Stop("panic")
                     \/ end < USize /\ end > Len(data) /\ Stop("error")
                     \/ /\ end < USize /\ end <= Len(data)
                        /\ position' = end
                        /\ IF KeyDue
                           THEN /\ stack' = [stack EXCEPT ![Len(stack)] =
                                                [dict |-> @.dict, key |-> text]]
                                /\ UNCHANGED <<value, decoded>>
                           ELSE Return(stack, [str |-> text])
                        /\ UNCHANGED data

\* Mutant: the byte that opens the loop is not consumed.
OpenLoopStays ==
    /\ ~KeyDue /\ Ahead /\ Byte \in {"l", "d"} /\ Len(stack) < StackDepth
    /\ stack' = Append(stack, IF Byte = "l" THEN [list |-> <<>>] ELSE [dict |-> <<>>])
    /\ UNCHANGED <<data, position, decoded, value>>

\* decode_list and decode_dictionary, up to their loop ...
OpenLoop ==
    /\ ~KeyDue /\ Ahead /\ Byte \in {"l", "d"} /\ Len(stack) < StackDepth
    /\ position' = position + 1
    /\ stack' = Append(stack, IF Byte = "l" THEN [list |-> <<>>] ELSE [dict |-> <<>>])
    /\ UNCHANGED <<data, decoded, value>>

\* ... which is one recursion too many when the stack is full: the process is
\* aborted.
OverflowStack ==
    /\ ~KeyDue /\ Ahead /\ Byte \in {"l", "d"} /\ Len(stack) >= StackDepth
    /\ Stop("overflow")

\* ... and after it.
CloseLoop ==
    /\ InLoop /\ Ahead /\ Byte = "e"
    /\ position' = position + 1
    /\ Return(SubSeq(stack, 1, Len(stack) - 1), Top)
    /\ UNCHANGED data

\* No byte, or one that begins no value.
DecodeNothing ==
    /\ Ahead => /\ Byte \notin Digit \cup {"i", "l", "d"}
                /\ ~KeyDue /\ ~(InLoop /\ Byte = "e")
    /\ Stop("error")

DecodeStep ==
    /\ decoded = "running"
    /\ DecodeInteger \/ DecodeByteString \/ OpenLoop \/ OverflowStack
       \/ CloseLoop \/ DecodeNothing

-----------------------------------------------------------------------------
\* The decoder never reads past its bytes, and every frame of its recursion has
\* been paid for with a byte: its depth is bounded by the input, though not by the
\* stack of the thread (OverflowStack).
DecoderInBounds ==
    /\ position \in 0 .. Len(data)
    /\ Len(stack) <= position

\* Every step consumes a byte or ends the decoding: no input keeps it busy.
DecoderProgresses ==
    DecodeStep => position' > position \/ decoded' # "running"
=============================================================================
