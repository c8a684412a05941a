---------------------------- MODULE JsonNesting ----------------------------
(***************************************************************************)
(* json_depth (lifecycle/validate.rs): how deep the JSON text of a         *)
(* consumer value nests, read byte by byte.  The text is written here as   *)
(* serde_json writes it, one token at a time, beside the brackets that are *)
(* open; a quote or a backslash inside a string is escaped.  Commas,       *)
(* colons and the bytes of a number are one byte that nothing depends on.  *)
(***************************************************************************)
EXTENDS Integers, Sequences, SequencesExt

CONSTANTS
    MaxText,        \* the longest text, in bytes
    MaxString       \* the longest string, before escaping

NestingAssumption == MaxText \in Nat /\ MaxString \in Nat

Byte == {"\"", "\\", "[", "]", "{", "}", "1"}

VARIABLES
    text,       \* what serde_json has written
    open,       \* the brackets it has not closed
    deepest     \* the most it ever had open

vars == <<text, open, deepest>>

(***************************************************************************)
(* The scan, one byte at a time.                                           *)
(***************************************************************************)
\* A scan that ends the string at an escaped quote.
InStringWithoutEscapes(scan, byte) == [scan EXCEPT !.in_string = byte # "\""]

InString(scan, byte) ==
    IF scan.escaped THEN [scan EXCEPT !.escaped = FALSE]
    ELSE [scan EXCEPT !.escaped = byte = "\\", !.in_string = byte # "\""]

Outside(scan, byte) ==
    CASE byte = "\"" -> [scan EXCEPT !.in_string = TRUE]
      [] byte \in {"[", "{"} ->
            [scan EXCEPT !.depth = @ + 1,
                         !.deepest = IF @ > scan.depth THEN @ ELSE scan.depth + 1]
      [] byte \in {"]", "}"} ->
            [scan EXCEPT !.depth = IF @ = 0 THEN 0 ELSE @ - 1]
      [] OTHER -> scan

Scan(scan, byte) == IF scan.in_string THEN InString(scan, byte) ELSE Outside(scan, byte)

json_depth(bytes) ==
    FoldLeft(Scan, [depth |-> 0, deepest |-> 0, in_string |-> FALSE, escaped |-> FALSE],
             bytes).deepest

(***************************************************************************)
(* The writer.                                                             *)
(***************************************************************************)
Escape(byte) == IF byte \in {"\"", "\\"} THEN <<"\\", byte>> ELSE <<byte>>

Quoted(string) == <<"\"">> \o FlattenSeq([i \in DOMAIN string |-> Escape(string[i])]) \o <<"\"">>

Emit(bytes) == Len(text) + Len(bytes) <= MaxText /\ text' = text \o bytes

Init == text = <<>> /\ open = <<>> /\ deepest = 0

Begin(bracket) ==
    /\ Emit(<<bracket>>)
    /\ open' = Append(open, bracket)
    /\ deepest' = IF Len(open') > deepest THEN Len(open') ELSE deepest

End ==
    /\ open # <<>>
    /\ Emit(<<IF Last(open) = "[" THEN "]" ELSE "}">>)
    /\ open' = Front(open)
    /\ UNCHANGED deepest

WriteString(string) == Emit(Quoted(string)) /\ UNCHANGED <<open, deepest>>

WriteOther == Emit(<<"1">>) /\ UNCHANGED <<open, deepest>>

Next ==
    \/ \E bracket \in {"[", "{"} : Begin(bracket)
    \/ End
    \/ \E string \in UNION {[1 .. n -> Byte] : n \in 0 .. MaxString} : WriteString(string)
    \/ WriteOther

Spec == Init /\ [][Next]_vars

(***************************************************************************)
(* Properties.                                                             *)
(***************************************************************************)
\* The scan finds the nesting the text was written with, whatever brackets,
\* quotes and backslashes its strings hold: a value that nests too deep cannot
\* pass as shallow, nor a shallow one be refused (json_depth).
DepthIsNesting == json_depth(text) = deepest
=============================================================================
