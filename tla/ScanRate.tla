------------------------------- MODULE ScanRate -------------------------------
(***************************************************************************)
(* The maximum PHY rate the statistics tool prints for a scanned BSS       *)
(* (src/stats.c, CTL_SCAN_STATS): calculate_phy_rate walks the BSS's       *)
(* information elements with parse_ies, keeping the supported rates and    *)
(* the HT, VHT and HE capability elements it finds, then derives the       *)
(* highest rate of each PHY mode from the bitrate tables through           *)
(* _hw_rate_params_to_rate.                                                *)
(*                                                                         *)
(* The element buffer is a sequence of elements [id, len, body]: the bytes *)
(* are abstracted to the fields the code reads, and every read is kept as  *)
(* a byte offset so that reads past the buffer (nla_len) can be told.  The *)
(* buffer may end inside its last element by "cut" bytes.                  *)
(***************************************************************************)
EXTENDS Integers, Sequences, FiniteSets, FiniteSetsExt, Bitwise

CONSTANTS
    Scans,              \* the scan results: [band, ies, cut]
    MAX_NUM_SUPPORTED_RATES,
    PHY_STAT_RATE_NSS_MAX

\* Sizes of the capability structures and the HE length check (stats.c 2206-2220)
HtCapLen == 26        \* sizeof(struct ieee80211_ht_cap)
VhtCapLen == 12       \* sizeof(struct ieee80211_vht_cap)
HeCapMinLen == 22     \* sizeof(he_cap_elem) + sizeof(he_mcs_nss_supp)/3 + 1

\* Rate constants (stats.c 49-102)
BITRATE_INVALID == 0
BITRATE_MCS32 == 32
NUM_RATE_MCS_N == 33
NUM_RATE_MCS_AC == 10
NUM_RATE_MCS_AX == 12
HT_PHY_STAT_RATE_NSS_MAX == 4
PHY_STAT_RATE_NSS_MIN == 1
PHY_STAT_RATE_CBW_NUM == 4
HE_CP_TYPES_NUM == 3
HE_CP_MODES_NUM == 6
BITRATE_FACTOR == 10
VHT_MCS_NOT_SUPPORTED == 3

\* The tables, indexed from 0 as in C: Tbl(t, idx) is t[idx].
Tbl(t, idx) == t[idx + 1]

bitrates_11n == <<
     65,   72,  135,  150,   130,  144,  270,  300,
    195,  217,  405,  450,   260,  289,  540,  600,
    390,  433,  810,  900,   520,  578, 1080, 1200,
    585,  650, 1215, 1350,   650,  722, 1350, 1500 >>

bitrates_11n_mcs32 == << 0, 0, 60, 67 >>

bitrates_11ac == <<
     65,   72,  135,  150,  293,  325,  585,  650,
    130,  144,  270,  300,  585,  650, 1170, 1300,
    195,  217,  405,  450,  878,  975, 1755, 1950,
    260,  289,  540,  600, 1170, 1300, 2340, 2600,
    390,  433,  810,  900, 1755, 1950, 3510, 3900,
    520,  578, 1080, 1200, 2340, 2600, 4680, 5200,
    585,  650, 1215, 1350, 2633, 2925, 5265, 5850,
    650,  722, 1350, 1500, 2925, 3250, 5850, 6500,
    780,  867, 1620, 1800, 3510, 3900, 7020, 7800,
      0,    0, 1800, 2000, 3900, 4333, 7800, 8667 >>

bitrates_11ax == <<
      86,   81,   73,  172,  163,  146,  360,  340,  306,   721,   681,   613,
     172,  163,  146,  344,  325,  293,  721,  681,  613,  1441,  1361,  1225,
     258,  244,  219,  516,  488,  439, 1081, 1021,  919,  2162,  2042,  1838,
     344,  325,  293,  688,  650,  585, 1441, 1361, 1225,  2882,  2722,  2450,
     516,  488,  439, 1032,  975,  878, 2162, 2042, 1838,  4324,  4083,  3675,
     688,  650,  585, 1376, 1300, 1170, 2882, 2722, 2450,  5765,  5444,  4900,
     774,  731,  658, 1549, 1463, 1316, 3243, 3063, 2756,  6485,  6125,  5513,
     860,  813,  731, 1721, 1625, 1463, 3603, 3403, 3063,  7206,  6806,  6125,
    1032,  975,  878, 2065, 1950, 1755, 4324, 4083, 3675,  8647,  8167,  7350,
    1147, 1083,  975, 2294, 2167, 1950, 4804, 4537, 4083,  9607,  9074,  8166,
    1290, 1219, 1097, 2581, 2438, 2194, 5404, 5104, 4594, 10809, 10208,  9188,
    1434, 1354, 1219, 2868, 2708, 2438, 6004, 5671, 5104, 12010, 11342, 10208 >>

\* VHT combinations the tables mark _NV_ (for NSS 1) or that do not exist.
is_valid_vht_rate_params(cbw, mcs, nss) ==
    ~ \/ nss \notin {3, 6} /\ cbw = 0 /\ mcs = 9
      \/ nss = 3 /\ cbw = 2 /\ mcs = 6
      \/ nss = 7 /\ cbw = 2 /\ mcs = 6
      \/ nss = 6 /\ cbw = 2 /\ mcs = 9
      \/ nss = 3 /\ cbw = 3 /\ mcs = 9

\* The rate of one spatial stream in units of 100 kbit/s; BITRATE_INVALID
\* for parameters outside the tables.
HtRate(cbw, scp, mcs, nss) ==
    IF cbw < 2 /\ mcs < NUM_RATE_MCS_N /\ nss <= HT_PHY_STAT_RATE_NSS_MAX
    THEN CASE mcs = BITRATE_MCS32 -> Tbl(bitrates_11n_mcs32, scp | (cbw * 2))
           [] mcs <= 7 -> Tbl(bitrates_11n, scp | (cbw * 2) | (mcs * 4))
           [] OTHER -> BITRATE_INVALID
    ELSE BITRATE_INVALID

VhtRate(cbw, scp, mcs, nss) ==
    IF /\ mcs < NUM_RATE_MCS_AC
       /\ nss <= PHY_STAT_RATE_NSS_MAX /\ nss >= PHY_STAT_RATE_NSS_MIN
       /\ is_valid_vht_rate_params(cbw, mcs, nss)
    THEN Tbl(bitrates_11ac, scp | (cbw * 2) | (mcs * 8))
    ELSE BITRATE_INVALID

HeRate(cbw, scp, mcs, nss) ==
    IF scp < HE_CP_MODES_NUM /\ mcs < NUM_RATE_MCS_AX /\ nss > 0
       /\ nss <= PHY_STAT_RATE_NSS_MAX
    THEN Tbl(bitrates_11ax,
             scp + HE_CP_TYPES_NUM * (cbw + PHY_STAT_RATE_CBW_NUM * mcs))
    ELSE BITRATE_INVALID

_hw_rate_params_to_rate(mode, cbw, scp, mcs, nss) ==
    CASE mode = "HT"  -> HtRate(cbw, scp, mcs, nss)
      [] mode = "VHT" -> VhtRate(cbw, scp, mcs, nss)
      [] mode = "HE"  -> HeRate(cbw, scp, mcs, nss)
-----------------------------------------------------------------------------
(***************************************************************************)
(* calculate_phy_rate over one scan result                                 *)
(***************************************************************************)

VARIABLES
    band,       \* scan_band
    ies,        \* the elements of the buffer
    ielen,      \* parse_ies's ielen: the bytes not yet walked
    pos,        \* offset of ie in the buffer
    k,          \* index of the element at ie
    rates,      \* the rates[] array of calculate_phy_rate
    ratesLen,   \* parse_ies's supp_rates_len
    htIe,       \* ht_cap_ie: [at, ie], at = -1 for NULL
    vhtIe,      \* vht_cap_ie
    heIe,       \* he_cap_ie
    lastRead,   \* highest buffer offset read so far
    size,       \* bytes in the buffer (nla_len)
    max_rate,   \* the rate printed
    pc          \* "parse" | "rate" | "done"

vars == <<band, ies, ielen, pos, k, rates, ratesLen, htIe, vhtIe, heIe,
          lastRead, size, max_rate, pc>>

NullIe == [at |-> -1, ie |-> [id |-> "NONE", len |-> 0]]

RateIdx == 0..MAX_NUM_SUPPORTED_RATES - 1

IesBytes(s) == LET RECURSIVE B(_) B(i) == IF i = 0 THEN 0 ELSE B(i - 1) + s[i].len + 2
               IN B(Len(s))

\* The same buffer is passed as nla_data / nla_len; rates[] is memset to 0.
Init ==
    \E s \in Scans :
        /\ band = s.band /\ ies = s.ies
        /\ size = IesBytes(s.ies) - s.cut /\ ielen = size
        /\ pos = 0 /\ k = 1
        /\ rates = [i \in RateIdx |-> 0] /\ ratesLen = 0
        /\ htIe = NullIe /\ vhtIe = NullIe /\ heIe = NullIe
        /\ lastRead = -1 /\ max_rate = 0 /\ pc = "parse"

\* The while condition of parse_ies; ie[1] is read once ie[0] may be.
MoreIes == ielen >= 2 /\ ielen >= ies[k].len

Read(n) == lastRead' = Max({lastRead, n})

(* Mutant: the HT element is taken whatever its length.                   *)
IsHtCap_NoLen(e) == e.id = "HT_CAP"

\* An HT capabilities element of sizeof(struct ieee80211_ht_cap).
IsHtCap(e) == e.id = "HT_CAP" /\ e.len = HtCapLen

\* One turn of the parse_ies loop: a rates element is appended to rates[]
\* (at most MAX_NUM_SUPPORTED_RATES), an HT or VHT element of the right
\* size is remembered, an extension element is checked for HE capabilities
\* and, if long enough, ends the walk; then ie moves past the element.
ParseIe ==
    LET e == ies[k]
        n == Min({MAX_NUM_SUPPORTED_RATES - ratesLen, e.len})
        here == [at |-> pos, ie |-> e]
        isHe == e.id = "EXTENSION" /\ e.ext = "HE_CAP" /\ e.len >= HeCapMinLen
    IN
    /\ pc = "parse" /\ MoreIes
    /\ IF e.id \in {"SUPP_RATES", "EXT_SUPP_RATES"} /\ n > 0
       THEN /\ rates' = [i \in RateIdx |->
                           IF ratesLen <= i /\ i < ratesLen + n
                           THEN e.rates[i - ratesLen + 1] ELSE rates[i]]
            /\ ratesLen' = n
            /\ Read(pos + 1 + n)
       ELSE /\ UNCHANGED <<rates, ratesLen>>
            /\ Read(pos + IF e.id = "EXTENSION" THEN 2 ELSE 1)
    /\ htIe' = IF IsHtCap(e) THEN here ELSE htIe
    /\ vhtIe' = IF e.id = "VHT_CAP" /\ e.len = VhtCapLen THEN here ELSE vhtIe
    /\ IF isHe
       THEN heIe' = here /\ pc' = "rate" /\ UNCHANGED <<ielen, pos, k>>
       ELSE /\ UNCHANGED <<heIe, pc>>
            /\ ielen' = ielen - (e.len + 2)
            /\ pos' = pos + e.len + 2 /\ k' = k + 1
    /\ UNCHANGED <<band, ies, size, max_rate>>

ParseEnd ==
    /\ pc = "parse" /\ ~MoreIes
    /\ pc' = "rate"
    /\ UNCHANGED <<band, ies, ielen, pos, k, rates, ratesLen, htIe, vhtIe,
                   heIe, lastRead, size, max_rate>>

\* ht_bw and ht_scp from the HT capability info (stats.c 2270-2279).
HtBw(cap) ==
    IF "SUP_WIDTH_20_40" \in cap /\ "40MHZ_INTOLERANT" \notin cap THEN 1 ELSE 0

HtScp(cap) ==
    IF IF HtBw(cap) = 1 THEN "SGI_40" \in cap ELSE "SGI_20" \in cap
    THEN 1 ELSE 0

\* The HT part: MCS 32 when rx_mask[4] bit 0 is set on 40 MHz, then the
\* highest stream with a non-empty rx_mask and its highest MCS bit.
HtMaxRate(b) ==
    LET bw == HtBw(b.cap)
        scp == HtScp(b.cap)
        bpsk == b.mcs32 /\ bw = 1
        streams == {i \in 0..HT_PHY_STAT_RATE_NSS_MAX - 1 : b.mask[i] # {}}
        top == Max(streams)
        ht_nss == IF streams # {} THEN top + 1 ELSE IF bpsk THEN 1 ELSE 0
        ht_mcs == IF streams # {} THEN Max(b.mask[top]) + top * 8
                  ELSE IF bpsk THEN BITRATE_MCS32 ELSE 0
        mcs32Rate == IF bpsk THEN HtRate(bw, scp, BITRATE_MCS32, 1) ELSE 0
        rate1ss == HtRate(bw, scp,
                          IF ht_mcs = BITRATE_MCS32 THEN BITRATE_MCS32
                          ELSE ht_mcs & 7, 1)
    IN Max({mcs32Rate, rate1ss * ht_nss})

(* Mutant: no fallback below vht_mcs when its table entry is _NV_.        *)
VhtRate1ss_NoFallback(bw, scp, mcs_1ss) == VhtRate(bw, scp, mcs_1ss, 1)

\* The for loop from vht_mcs down to 7 for the first valid 1-stream rate.
RECURSIVE VhtRate1ss(_, _, _)
VhtRate1ss(bw, scp, mcs_1ss) ==
    IF mcs_1ss < 7 THEN BITRATE_INVALID
    ELSE IF VhtRate(bw, scp, mcs_1ss, 1) # BITRATE_INVALID
         THEN VhtRate(bw, scp, mcs_1ss, 1)
         ELSE VhtRate1ss(bw, scp, mcs_1ss - 1)

\* Highest stream count whose mcs map entry is supported; 0 for none.
TopNss(map) ==
    LET sup == {n \in 1..PHY_STAT_RATE_NSS_MAX : map[n] # VHT_MCS_NOT_SUPPORTED}
    IN IF sup = {} THEN 0 ELSE Max(sup)

\* The VHT part; on 2.4 GHz it takes ht_bw and ht_scp (0 without HT).
VhtMaxRate(bnd, ht, b) ==
    LET nss == TopNss(b.map)
        bw == IF bnd = "2G" THEN HtBw(ht.cap)
              ELSE IF b.width = 4 THEN 3 ELSE 2
        scp == IF bnd = "2G" THEN HtScp(ht.cap)
               ELSE IF IF b.width = 4 THEN "SGI_160" \in b.sgi
                       ELSE "SGI_80" \in b.sgi
                    THEN 1 ELSE 0
    IN IF nss = 0 THEN 0 ELSE VhtRate1ss(bw, scp, 7 + b.map[nss]) * nss

HeBw(bnd, phy0) ==
    CASE bnd = "2G" -> IF "40MHZ_IN_2G" \in phy0 THEN 1 ELSE 0
      [] {"160MHZ_IN_5G", "80PLUS80_MHZ_IN_5G"} \cap phy0 # {} -> 3
      [] "40MHZ_80MHZ_IN_5G" \in phy0 -> 2
      [] OTHER -> 0

\* The HE part: rx_mcs_160 on 160 MHz, else rx_mcs_80; he_scp stays 0.
HeMaxRate(bnd, b) ==
    LET bw == HeBw(bnd, b.phy0)
        map == IF bw = 3 THEN b.mcs160 ELSE b.mcs80
        nss == TopNss(map)
    IN IF nss = 0 THEN 0 ELSE HeRate(bw, 0, 7 + map[nss] * 2, 1) * nss

\* Non-HT: SUPP_RATE_TO_BITRATE of the highest rate, basic bit masked.
LegacyRate(r) ==
    IF r[0] > 0
    THEN (Max({r[i] & 127 : i \in RateIdx}) * BITRATE_FACTOR) \div 2
    ELSE 0

\* Highest buffer offset calculate_phy_rate reads through the pointers:
\* rx_mask[4] of HT, rx_mcs_map of VHT, and rx_mcs_80 or rx_mcs_160 of HE
\* (he_cap_ie points at ie[3]).
CapReads(bnd) ==
    Max({lastRead}
        \cup (IF htIe.at >= 0 THEN {htIe.at + 2 + 7} ELSE {})
        \cup (IF vhtIe.at >= 0 THEN {vhtIe.at + 2 + 5} ELSE {})
        \cup (IF heIe.at >= 0
              THEN {heIe.at + 3 + IF HeBw(bnd, heIe.ie.phy0) = 3 THEN 22 ELSE 18}
              ELSE {}))

\* The rest of calculate_phy_rate: max_rate over the four PHY modes.
CalculatePhyRate ==
    /\ pc = "rate"
    /\ max_rate' = Max({LegacyRate(rates),
                        IF htIe.at >= 0 THEN HtMaxRate(htIe.ie) ELSE 0,
                        IF vhtIe.at >= 0
                        THEN VhtMaxRate(band,
                                        IF htIe.at >= 0 THEN htIe.ie
                                        ELSE [cap |-> {}], vhtIe.ie)
                        ELSE 0,
                        IF heIe.at >= 0 THEN HeMaxRate(band, heIe.ie) ELSE 0})
    /\ lastRead' = CapReads(band)
    /\ pc' = "done"
    /\ UNCHANGED <<band, ies, ielen, pos, k, rates, ratesLen, htIe, vhtIe,
                   heIe, size>>

\* The rate is printed; the scan result has been handled.
Done == pc = "done" /\ UNCHANGED vars

Next == ParseIe \/ ParseEnd \/ CalculatePhyRate \/ Done

Spec == Init /\ [][Next]_vars

-----------------------------------------------------------------------------
(***************************************************************************)
(* Properties                                                              *)
(***************************************************************************)

TypeOK ==
    /\ band \in {"2G", "5G"}
    /\ pos \in 0..size + 255 /\ k \in 1..Len(ies) + 1
    /\ rates \in [RateIdx -> 0..255] /\ ratesLen \in 0..MAX_NUM_SUPPORTED_RATES
    /\ {htIe.at, vhtIe.at, heIe.at} \subseteq -1..size
    \* each pointer points at an element as large as the struct read through it
    /\ htIe.at >= 0 => htIe.ie.id = "HT_CAP" /\ htIe.ie.len = HtCapLen
    /\ vhtIe.at >= 0 => vhtIe.ie.id = "VHT_CAP" /\ vhtIe.ie.len = VhtCapLen
    /\ heIe.at >= 0 => heIe.ie.id = "EXTENSION" /\ heIe.ie.len >= HeCapMinLen
    /\ lastRead \in Int /\ max_rate \in Nat
    /\ pc \in {"parse", "rate", "done"}

\* Reference: every rate the BSS advertises, one per (mode, streams, MCS)
\* its elements allow, with the bandwidth and guard interval the code
\* derives; and every supported-rates byte of every rates element.
AdvertisedLegacy ==
    UNION {{((ies[j].rates[i] & 127) * BITRATE_FACTOR) \div 2 :
               i \in DOMAIN ies[j].rates} :
           j \in {j \in 1..Len(ies) : ies[j].id \in {"SUPP_RATES", "EXT_SUPP_RATES"}}}

AdvertisedHt(b) ==
    LET bw == HtBw(b.cap) scp == HtScp(b.cap)
    IN UNION {{HtRate(bw, scp, y, 1) * (i + 1) : y \in b.mask[i]} :
                 i \in 0..HT_PHY_STAT_RATE_NSS_MAX - 1}
       \cup (IF b.mcs32 /\ bw = 1 THEN {HtRate(bw, scp, BITRATE_MCS32, 1)} ELSE {})

AdvertisedMcsMap(map, top, mcsOf(_), rateOf(_)) ==
    UNION {{rateOf(m) * n : m \in 0..mcsOf(map[n])} :
             n \in {n \in 1..PHY_STAT_RATE_NSS_MAX : map[n] # top}}

AdvertisedVht(bnd, ht, b) ==
    LET bw == IF bnd = "2G" THEN HtBw(ht.cap) ELSE IF b.width = 4 THEN 3 ELSE 2
        scp == IF bnd = "2G" THEN HtScp(ht.cap)
               ELSE IF IF b.width = 4 THEN "SGI_160" \in b.sgi
                       ELSE "SGI_80" \in b.sgi
                    THEN 1 ELSE 0
        mcsOf(v) == 7 + v
        rateOf(m) == VhtRate(bw, scp, m, 1)
    IN AdvertisedMcsMap(b.map, VHT_MCS_NOT_SUPPORTED, mcsOf, rateOf)

AdvertisedHe(bnd, b) ==
    LET bw == HeBw(bnd, b.phy0)
        mcsOf(v) == 7 + 2 * v
        rateOf(m) == HeRate(bw, 0, m, 1)
    IN AdvertisedMcsMap(IF bw = 3 THEN b.mcs160 ELSE b.mcs80,
                        VHT_MCS_NOT_SUPPORTED, mcsOf, rateOf)

BestAdvertised ==
    Max({0} \cup AdvertisedLegacy
            \cup (IF htIe.at >= 0 THEN AdvertisedHt(htIe.ie) ELSE {})
            \cup (IF vhtIe.at >= 0
                  THEN AdvertisedVht(band, IF htIe.at >= 0 THEN htIe.ie
                                           ELSE [cap |-> {}], vhtIe.ie)
                  ELSE {})
            \cup (IF heIe.at >= 0 THEN AdvertisedHe(band, heIe.ie) ELSE {}))

\* The "phy_rate (max)" calculate_phy_rate prints is the highest rate the
\* BSS advertises: the stream and MCS scans over rx_mask and the VHT/HE
\* MCS maps, the MCS 32 case, the mcs_1ss fallback past _NV_ entries and
\* the table index formulas together pick the best entry.
MaxRateIsBest ==
    pc = "done" => max_rate = BestAdvertised

\* parse_ies and calculate_phy_rate never read past the end of the
\* element buffer they are given (nla_len bytes).
NoOverRead ==
    lastRead < size
=============================================================================
