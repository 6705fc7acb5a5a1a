---------------------------- MODULE MC_CsiMatrix ----------------------------
(***************************************************************************)
(* Driver replies for CsiMatrix, built from the channel-state matrix they  *)
(* carry: the header word first, then the data words of each stream in    *)
(* (subcarrier, column) order with the timestamp and trailer words placed *)
(* anywhere among them, then zeros up to CSI_RAW_DATA_SIZE.                *)
(***************************************************************************)
EXTENDS CsiMatrix

MC_NumSc == 2

\* The cells of each ch's matrix: <<subcarrier, row, column>>.
Cells(ch) ==
    IF ch = WAVE600B0 THEN (0..MC_NumSc - 1) \X (0..3) \X (0..3)
    ELSE (0..MC_NumSc - 1) \X (0..Antennas(ch) - 1) \X {0}

Size(ch) == IF ch = WAVE600B0 THEN <<4, 4, MC_NumSc>> ELSE <<Antennas(ch), 1, MC_NumSc>>

\* Distinct signed 12-bit pairs, both extremes and negative numbers among them.
CellNo(t) == (t[1] * 5 + t[2]) * 4 + t[3]
Value(t) == << CASE CellNo(t) = 0 -> -2048 [] CellNo(t) = 1 -> 2047 [] OTHER -> CellNo(t),
             -(CellNo(t) * 32) - 1 >>

Word(stream, ant, v) == ant * 2^28 + stream * 2^24 + (v[1] % 2^12) + (v[2] % 2^12) * 2^12

\* The data words of a ch in the order the driver sends them: wave700
\* and wave600D2 antenna by antenna within a subcarrier; wave600B0 each
\* stream (bits 28-29 = row) subcarrier by subcarrier, either one stream
\* after the other or the streams taking turns.
DataWords(ch, turns) ==
    IF ch # WAVE600B0
    THEN [n \in 1..MC_NumSc * Antennas(ch) |->
            LET t == << (n - 1) \div Antennas(ch), (n - 1) % Antennas(ch), 0 >>
            IN  Word(0, 0, Value(t))]
    ELSE [n \in 1..16 * MC_NumSc |->
            LET r == IF turns THEN (n - 1) % 4 ELSE (n - 1) \div (4 * MC_NumSc)
                p == IF turns THEN (n - 1) \div 4 ELSE (n - 1) % (4 * MC_NumSc)
                t == << p \div 4, r, p % 4 >>
            IN  Word(0, r, Value(t))]

TS1 == 4660
TS2 == 11259375
Markers(ch) ==
    LET base == << Word(11, 0, <<0, 0>>), 12 * 2^24 + TS1, 13 * 2^24 + TS2, Word(14, 0, <<0, 0>>) >>
    IN  IF ch = WAVE600B0
        THEN base \o base \o base \o << Word(11, 0, <<0, 0>>), Word(14, 0, <<0, 0>>), Word(11, 0, <<0, 0>>) >>
        ELSE base

\* The data words with the markers at the positions in P.
Merge(d, m, P) ==
    [i \in 1..Len(d) + Len(m) |->
        LET before == Cardinality({p \in P : p < i})
        IN  IF i \in P THEN m[before + 1] ELSE d[i - before]]

Pad(s) == s \o [i \in 1..CSI_RAW_DATA_SIZE - Len(s) |-> 0]

Reply(hdr, ch, body, nr, nc) ==
    [raw |-> Pad(<<hdr>> \o body), Nr |-> nr, Nc |-> nc, chip |-> ch,
     size |-> Size(ch), cells |-> [t \in Cells(ch) |-> Value(t)]]

\* wave700 and wave600D2: the 4 markers anywhere among the data words.
SmallFrames ==
    UNION {{Reply(10 * 2^24 + c, c, Merge(DataWords(c, FALSE), Markers(c), P), nr, 1) :
               P \in {Q \in SUBSET (1..MC_NumSc * Antennas(c) + 4) : Cardinality(Q) = 4},
               nr \in {2, Antennas(c)}} :
           c \in {WAVE700, WAVE600D2}}

\* wave600B0: the 15 markers first, last, or every third word.
B0Frames ==
    LET n == 16 * MC_NumSc + 15
        Ps == { 1..15, n - 14..n, {3 * j : j \in 1..15} }
    IN  {Reply(10 * 2^24 + WAVE600B0, WAVE600B0,
               Merge(DataWords(WAVE600B0, turns), Markers(WAVE600B0), P), nr, nc) :
            turns \in BOOLEAN, P \in Ps, <<nr, nc>> \in {<<4, 4>>, <<2, 3>>}}

\* Headers the parser refuses: ch 0, and a first word that is not stream 10.
BadFrames ==
    {[raw |-> Pad(<<h>> \o DataWords(WAVE700, FALSE)), Nr |-> 4, Nc |-> 1, chip |-> 0,
      size |-> <<0, 0, 0>>, cells |-> <<>>] :
        h \in {10 * 2^24, 11 * 2^24 + WAVE700, 0}}

MC_Frames == SmallFrames \cup B0Frames \cup BadFrames
====
