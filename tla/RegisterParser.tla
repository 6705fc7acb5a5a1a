--------------------------- MODULE RegisterParser ---------------------------
(***************************************************************************)
(* The parser of a subscription request, the loop of                       *)
(* hostap_register_sta_to_events (src/daemon/hostap_iface.c 490-523), and  *)
(* the C string operations it and the event table use.  A request is a     *)
(* sequence of bytes; a C string is the bytes before the first 0.          *)
(* sizeof(op_code) (64 in the code) is the constant OpCodeSize.            *)
(***************************************************************************)
EXTENDS Integers, Sequences, SequencesExt

CONSTANTS
    MaxByte,         \* bytes of a request range over 0..MaxByte
    OpCodeSize       \* sizeof(op_code) == sizeof(hostap_event.op_code)

Byte == 0..MaxByte

(* C(s, k): the k-th char of C string s, 0 past its end.                   *)
C(s, k) == IF k <= Len(s) THEN s[k] ELSE 0

(* !strncmp(a, b, n) for C strings: the first n chars agree, the 0 that   *)
(* ends the shorter one included.                                          *)
StrnEq(a, b, n) == \A k \in 1..n : C(a, k) = C(b, k)

(* The C string held in a byte buffer: the bytes before the first 0.       *)
CStr(buf) ==
    LET z == SelectInSeq(buf, LAMBDA b : b = 0)
    IN  IF z = 0 THEN buf ELSE SubSeq(buf, 1, z - 1)

(* reg_str[j] (j counted from 0): a byte of the request, or `pad` for the  *)
(* byte that lies past len.                                                *)
ByteAt(req, pad, j) == IF j < Len(req) THEN req[j + 1] ELSE pad

RECURSIVE ParseFrom(_, _, _)

(* Mutant: the length check is op_code_len > sizeof(op_code).            *)
ParseFrom_LenOffByOne(req, pad, i) ==
    IF i >= Len(req) \/ req[i + 1] = 0 THEN [items |-> <<>>, err |-> FALSE]
    ELSE LET l == req[i + 1] IN
         IF l > OpCodeSize THEN [items |-> <<>>, err |-> TRUE]
         ELSE LET raw  == [k \in 1..l |-> ByteAt(req, pad, i + k)]
                  item == [op |-> CStr(raw), over |-> i + l >= Len(req)]
                  rest == ParseFrom(req, pad, i + 1 + l)
              IN  [rest EXCEPT !.items = <<item>> \o @]

(* The parse loop of hostap_register_sta_to_events from offset i:          *)
(* while (i < len && reg_str[i]) { op_code_len = reg_str[i];               *)
(*   if (op_code_len >= sizeof(op_code)) return 1;                         *)
(*   memcpy(op_code, &reg_str[i+1], op_code_len); ... i += 1+op_code_len } *)
(* Each item is an op_code and whether its memcpy read past len; err is    *)
(* the length check failing.                                               *)
ParseFrom(req, pad, i) ==
    IF i >= Len(req) \/ req[i + 1] = 0 THEN [items |-> <<>>, err |-> FALSE]
    ELSE LET l == req[i + 1] IN
         IF l >= OpCodeSize THEN [items |-> <<>>, err |-> TRUE]
         ELSE LET raw  == [k \in 1..l |-> ByteAt(req, pad, i + k)]
                  item == [op |-> CStr(raw), over |-> i + l >= Len(req)]
                  rest == ParseFrom(req, pad, i + 1 + l)
              IN  [rest EXCEPT !.items = <<item>> \o @]

Parse(req, pad) == ParseFrom(req, pad, 0)
=============================================================================
