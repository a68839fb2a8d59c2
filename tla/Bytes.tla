------------------------------- MODULE Bytes -------------------------------
(***************************************************************************)
(* What the codecs share: results, big-endian numbers and the cursor that  *)
(* reads a wire image field by field.  A byte string is a sequence of      *)
(* naturals; a byte that stands for a part of a hash, a key or a signature *)
(* may be any natural.                                                     *)
(***************************************************************************)
EXTENDS Integers, Sequences, SequencesExt

\* A Result: an error, or a value with error "none".
Ok(value) == [error |-> "none", value |-> value]
Err(error) == [error |-> error]
IsOk(result) == result.error = "none"
AndThen(result, Do(_)) == IF IsOk(result) THEN Do(result.value) ELSE result
\* A sequence of results: all the values, or the first error
AllOk(results) ==
    LET wrong == {i \in DOMAIN results : ~IsOk(results[i])}
    IN  IF wrong = {} THEN Ok([i \in DOMAIN results |-> results[i].value])
        ELSE results[CHOOSE i \in wrong : \A j \in wrong : i <= j]

\* None is what an absent field decodes to.
None == <<>>
Some(value) == <<value>>
IsSome(option) == option /= None

\* Numbers from Huge on are all Huge: no input is that long, so that no
\* length beyond it is told from another.
CONSTANT Huge
ASSUME BytesAssumption == Huge \in Nat

\* n without its last i bytes, and whether it has at most `width` of them
Shifted(n, i) ==
    LET from[j \in 0..i] == IF j = 0 THEN n ELSE from[j - 1] \div 256
    IN  from[i]
FitsIn(n, width) == Shifted(n, width) = 0

\* to_be_bytes and from_be_bytes
BeBytes(n, width) == [i \in 1..width |-> Shifted(n, width - i) % 256]
Number(bytes) ==
    LET capped(n) == IF n > Huge THEN Huge ELSE n
        from[i \in 0..Len(bytes)] ==
            IF i = 0 THEN 0 ELSE capped(256 * from[i - 1] + bytes[i])
    IN  from[Len(bytes)]

\* Exclusive or, bit by bit, of numbers of 22 bits
Xor(a, b) ==
    LET from[i \in 0..22] ==
            IF i = 0 THEN 0
            ELSE from[i - 1] + 2^(i - 1) * ((a \div 2^(i - 1) + b \div 2^(i - 1)) % 2)
    IN  from[22]

Take(bytes, n) == SubSeq(bytes, 1, n)
Drop(bytes, n) == SubSeq(bytes, n + 1, Len(bytes))

\* A cursor keeps its first error, what the last read got and the fields
\* that a scan has read so far.
Cursor(input) == [input |-> input, at |-> 0, got |-> <<>>, fields |-> <<>>, error |-> "none"]
Fail(c, error) == [c EXCEPT !.got = <<>>, !.error = error]
Read(c, n, missing) ==
    CASE c.error /= "none" -> Fail(c, c.error)
      [] c.at + n > Len(c.input) -> Fail(c, missing)
      [] OTHER -> [c EXCEPT !.at = @ + n, !.got = SubSeq(c.input, c.at + 1, c.at + n)]
Value(c) == Number(c.got)

\* What the last read got is the field `name`
Keep(c, name) ==
    [c EXCEPT !.fields = [x \in DOMAIN @ \cup {name} |-> IF x = name THEN c.got ELSE @[x]]]

\* The fields of a wire image, in their order.  ReadField reads the next
\* one and may look at those before it; FieldError(name, fields) is what is
\* wrong with it once it is read.
Scan(input, names, ReadField(_, _), FieldError(_, _)) ==
    LET check(c, name) == [c EXCEPT !.error = FieldError(name, c.fields)]
        step(c, name) ==
            IF c.error /= "none" THEN c
            ELSE LET read == ReadField(name, c)
                 IN  IF read.error /= "none" THEN read ELSE check(Keep(read, name), name)
        after[i \in 0..Len(names)] ==
            IF i = 0 THEN Cursor(input) ELSE step(after[i - 1], names[i])
    IN  after[Len(names)]

\* The end of a scan: nothing may be left, and `value` is what was read
Scanned(c, trailing, Make(_)) ==
    CASE c.error /= "none" -> Err(c.error)
      [] c.at /= Len(c.input) -> Err(trailing)
      [] OTHER -> Make(c.fields)
=============================================================================
