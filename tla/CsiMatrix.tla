------------------------------ MODULE CsiMatrix ------------------------------
(***************************************************************************)
(* The CSIStats command of the statistics tool (src/stats.c): the driver's *)
(* raw channel-state words are split per antenna by parse_csi_matrix,     *)
(* arranged into a (subcarrier, row, column) matrix, and printed by        *)
(* dump_csi_parse_data_to_file, each entry through                         *)
(* _sign_extend_2x12_to_2x16.                                              *)
(*                                                                         *)
(* A raw word is a non-negative integer: bits 24-27 are its stream number  *)
(* (10-14 mark header, timestamp and trailer words), bits 28-29 its        *)
(* antenna on wave600B0, bits 0-23 two 12-bit numbers.  The number of      *)
(* subcarriers, 48 in the code, is the constant NumSc; every buffer size  *)
(* and loop bound of the code is written in terms of it.                   *)
(***************************************************************************)
EXTENDS Integers, Sequences, FiniteSets

CONSTANTS
    NumSc,      \* subcarriers per antenna (48)
    Frames      \* the driver replies: [raw, Nr, Nc, chip, size, cells]

\* The three chips of the header word (Data[0] & 3).
WAVE600B0 == 1
WAVE600D2 == 2
WAVE700 == 3

\* Antennas of wave700 and wave600D2; rows and streams of wave600B0.
Antennas(chip) == CASE chip = WAVE700 -> 4 [] chip = WAVE600D2 -> 5 [] chip = WAVE600B0 -> 4

\* The stride of one wave600B0 stream in ants_mat (192).
REGION == 4 * NumSc

\* calloc sizes (192U, 240U, 768U) and loop bounds (197, 245, 784).
BufLen(chip) == IF chip = WAVE600B0 THEN 4 * REGION ELSE Antennas(chip) * NumSc
RawWords(chip) == IF chip = WAVE600B0 THEN BufLen(chip) + 16 ELSE BufLen(chip) + 5

CSI_RAW_DATA_SIZE == 16 * NumSc + 20

\* i >> 24 & 15, i >> 28 & 3, i & 16777215 and i & 65535.
Stream(w) == (w \div 2^24) % 16
AntNum(w) == (w \div 2^28) % 4
Low24(w) == w % 2^24
Low16(w) == w % 2^16
IsMarker(w) == Stream(w) \in 10..14

\* _sign_extend_2x12_to_2x16 on one half: the 12 bits are put in an
\* int16_t, shifted left by 4 (the int result converted back to int16_t
\* wraps, as gcc does), shifted right by 4 (arithmetic) and cast to
\* uint16_t.  The 32-bit result is kept as its two halves <<lo, hi>>.
\* Mutant: num1 declared uint16_t, so the right shift brings in zeros.
SignExtendHalf_Logical(v) == (((v % 2^12) * 16) % 2^16) \div 16

Int16(n) == IF n % 2^16 >= 2^15 THEN (n % 2^16) - 2^16 ELSE n % 2^16
SignExtendHalf(v) == (Int16(Int16(v % 2^12) * 16) \div 16) % 2^16
SignExtend2x12(w) == << SignExtendHalf(w), SignExtendHalf(w \div 2^12) >>

VARIABLES
    csi,        \* the reply: csi_raw_data and frame_info's Nr and Nc
    chip,       \* chip_type from the header word, 0 if the header is bad
    err,        \* *error_flag
    k,          \* the split loop's word counter (chip_type reused in C)
    idx,        \* index_data_arr[0..3], 1-based fill count per stream
    ants,       \* ants_mat
    ts1, ts2,   \* *time_stamp_1, *time_stamp_2
    matrix,     \* csi_matrix of the dump, CSI_MATRIX_DATA_SIZE zeros at first
    msize,      \* csi_matrix_size
    printed,    \* the matrix entries written to the .csi file
    pc          \* "header" | "split" | "dump" | "done"

vars == <<csi, chip, err, k, idx, ants, ts1, ts2, matrix,
          msize, printed, pc>>

Init ==
    \E f \in Frames :
        /\ csi = f
        /\ chip = 0 /\ err = 0 /\ k = 0
        /\ idx = [a \in 0..3 |-> 1]
        /\ ants = <<>>
        /\ ts1 = 0 /\ ts2 = 0
        /\ matrix = [j \in 0..16 * NumSc - 1 |-> 0]
        /\ msize = <<0, 0, 0>>
        /\ printed = <<>>
        /\ pc = "header"

\* The header word must have stream 10 and a known chip; the two callocs
\* may fail, which sets the error flag and returns.
CheckHeader ==
    /\ pc = "header"
    /\ LET hdr == csi.raw[1]
           c   == IF Stream(hdr) = 10 THEN hdr % 4 ELSE 0
       IN  /\ chip' = c
           /\ IF c \in {WAVE600B0, WAVE600D2, WAVE700}
              THEN \/ /\ ants' = [j \in 0..BufLen(c) - 1 |-> 0]
                      /\ err' = 0
                      /\ pc' = "split"
                   \/ /\ err' = 1
                      /\ pc' = "dump"
                      /\ UNCHANGED ants
              ELSE /\ err' = 1
                   /\ pc' = "dump"
                   /\ UNCHANGED ants
    /\ UNCHANGED <<csi, k, idx, ts1, ts2, matrix, msize, printed>>

\* Mutant: the 1-based fill count used as an index as it is.
StoreAt_NoMinusOne(w) ==
    LET a == IF chip = WAVE600B0 THEN AntNum(w) ELSE 0
    IN  idx[a] + REGION * a

\* The index a data word is stored at: index_data_arr[ant] + 192 * ant - 1
\* on wave600B0, index_data_arr[0] - 1 on the other chips.
StoreAt(w) ==
    LET a == IF chip = WAVE600B0 THEN AntNum(w) ELSE 0
    IN  idx[a] - 1 + REGION * a

\* Mutant: the data word stored without the & 16777215 mask.
SplitWord_NoMask ==
    /\ pc = "split" /\ k < RawWords(chip)
    /\ LET w == csi.raw[k + 1]
           a == IF chip = WAVE600B0 THEN AntNum(w) ELSE 0
       IN  IF IsMarker(w)
           THEN /\ ts1' = IF Stream(w) = 12 THEN Low16(w) ELSE ts1
                /\ ts2' = IF Stream(w) = 13 THEN Low24(w) ELSE ts2
                /\ UNCHANGED <<ants, idx>>
           ELSE /\ ants' = [ants EXCEPT ![StoreAt(w)] = w]
                /\ idx' = [idx EXCEPT ![a] = @ + 1]
                /\ UNCHANGED <<ts1, ts2>>
    /\ k' = k + 1
    /\ UNCHANGED <<csi, chip, err, matrix, msize, printed, pc>>

\* One word of the split loop: a marker word keeps the last timestamps
\* seen, any other word is stored at its stream's next index.  The
\* saturating increment (qY = UINT32_MAX) cannot be reached: an index
\* grows at most once per word.
SplitWord ==
    /\ pc = "split" /\ k < RawWords(chip)
    /\ LET w == csi.raw[k + 1]
           a == IF chip = WAVE600B0 THEN AntNum(w) ELSE 0
       IN  IF IsMarker(w)
           THEN /\ ts1' = IF Stream(w) = 12 THEN Low16(w) ELSE ts1
                /\ ts2' = IF Stream(w) = 13 THEN Low24(w) ELSE ts2
                /\ UNCHANGED <<ants, idx>>
           ELSE /\ ants' = [ants EXCEPT ![StoreAt(w)] = Low24(w)]
                /\ idx' = [idx EXCEPT ![a] = @ + 1]
                /\ UNCHANGED <<ts1, ts2>>
    /\ k' = k + 1
    /\ UNCHANGED <<csi, chip, err, matrix, msize, printed, pc>>

\* The arrangement loops and the memcpy_s into the caller's csi_matrix:
\* on wave700 and wave600D2 CSI_matrix[i + n*c] = ants_mat[i + n*c], on
\* wave600B0 CSI_matrix[c + 4s + 16i] = ants_mat[4i + c + 192s].
Arranged ==
    IF chip = WAVE600B0
    THEN [j \in DOMAIN matrix |->
            LET c == j % 4   s == (j \div 4) % 4   i == j \div 16
            IN  ants[4 * i + c + REGION * s]]
    ELSE [j \in DOMAIN matrix |-> IF j < BufLen(chip) THEN ants[j] ELSE matrix[j]]

Arrange ==
    /\ pc = "split" /\ k = RawWords(chip)
    /\ matrix' = Arranged
    /\ msize' = IF chip = WAVE600B0 THEN <<4, 4, NumSc>> ELSE <<Antennas(chip), 1, NumSc>>
    /\ pc' = "dump"
    /\ UNCHANGED <<csi, chip, err, k, idx, ants, ts1, ts2, printed>>

\* The cells the dump prints: nm over csi_matrix_size[2], nr over [0],
\* nc over [1], skipping nr >= Nr and nc >= Nc.
Printed(s, nr, nc) ==
    {<<m, r, c>> \in (0..s[3] - 1) \X (0..s[1] - 1) \X (0..s[2] - 1) : r < nr /\ c < nc}

\* dump_csi_parse_data_to_file after parse_csi_matrix: nothing on a parse
\* error; otherwise entry z = nm*max_nr*max_nc + nr*max_nc + nc of every
\* printed cell, sign extended.
Dump ==
    /\ pc = "dump"
    /\ printed' = IF err # 0 THEN <<>>
                  ELSE [t \in Printed(msize, csi.Nr, csi.Nc) |->
                          SignExtend2x12(matrix[t[1] * msize[1] * msize[2]
                                                + t[2] * msize[2] + t[3]])]
    /\ pc' = "done"
    /\ UNCHANGED <<csi, chip, err, k, idx, ants, ts1, ts2, matrix, msize>>

Done == pc = "done" /\ UNCHANGED vars

Next == CheckHeader \/ SplitWord \/ Arrange \/ Dump \/ Done

Spec == Init /\ [][Next]_vars

-----------------------------------------------------------------------------
(* Properties                                                              *)

TypeOK ==
    /\ chip \in 0..3 /\ err \in {0, 1} /\ k \in 0..CSI_RAW_DATA_SIZE
    /\ idx \in [0..3 -> Nat]
    /\ pc \in {"header", "split", "dump", "done"}
    /\ pc = "split" => ants \in [0..BufLen(chip) - 1 -> 0..2^24 - 1]

\* Every data word of the split loop is stored inside its stream's part
\* of ants_mat (all of it, or one 192-word stride on wave600B0): the code
\* trusts the driver to send exactly 5 (or 16) marker words and, on
\* wave600B0, 192 words per stream; a word more overruns the buffer or
\* the next stream's part.
NoAntsOverrun ==
    pc = "split" /\ k < RawWords(chip) /\ ~IsMarker(csi.raw[k + 1])
        => LET w == csi.raw[k + 1]
               a == IF chip = WAVE600B0 THEN AntNum(w) ELSE 0
               part == IF chip = WAVE600B0 THEN REGION ELSE BufLen(chip)
           IN  StoreAt(w) \in REGION * a..REGION * a + part - 1

\* What the CSIStats dump writes is the channel-state matrix the driver
\* sent.  A frame's chip, size and cells are what the driver meant (the
\* code reads only raw, Nr and Nc): a header with a known chip is read as
\* that chip, any other header is an error, an error prints nothing, and
\* otherwise every active (subcarrier, row, column) cell is printed as its
\* two signed 12-bit numbers widened to 16 bits.
CsiDumpFaithful ==
    pc = "done" =>
        /\ chip # 0 => chip = csi.chip
        /\ csi.chip = 0 => err = 1
        /\ err = 1 => printed = <<>>
        /\ err = 0 =>
             printed = [t \in Printed(csi.size, csi.Nr, csi.Nc) |->
                          << csi.cells[t][1] % 2^16, csi.cells[t][2] % 2^16 >>]
====
