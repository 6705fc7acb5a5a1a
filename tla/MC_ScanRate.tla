----------------------------- MODULE MC_ScanRate -----------------------------
(***************************************************************************)
(* Scan results for ScanRate: element buffers built from a few elements   *)
(* of each kind, in the order access points send them.                    *)
(***************************************************************************)
EXTENDS ScanRate

NssMax == 8

\* A supported-rates element; 0x80 marks a basic rate.
RatesIe(id, rs) == [id |-> id, len |-> Len(rs), rates |-> rs]
Supp == RatesIe("SUPP_RATES", <<130, 132, 139, 150, 12, 18, 24, 36>>)
ExtSupp == RatesIe("EXT_SUPP_RATES", <<48, 72, 96, 108>>)

\* rx_mask[i] is 0xff for the first n streams.
HtIe(cap, n, mcs32) ==
    [id |-> "HT_CAP", len |-> HtCapLen, cap |-> cap, mcs32 |-> mcs32,
     mask |-> [i \in 0..3 |-> IF i < n THEN 0..7 ELSE {}]]

\* An MCS map with the same entry v for the first n streams.
UMap(n, v) == [i \in 1..NssMax |-> IF i <= n THEN v ELSE 3]

VhtIe(width, sgi, map) ==
    [id |-> "VHT_CAP", len |-> VhtCapLen, width |-> width, sgi |-> sgi, map |-> map]

HeIe(len, phy0, m80, m160) ==
    [id |-> "EXTENSION", ext |-> "HE_CAP", len |-> len, phy0 |-> phy0,
     mcs80 |-> m80, mcs160 |-> m160]

OtherIe == [id |-> "OTHER", len |-> 3]
OtherExtIe == [id |-> "EXTENSION", ext |-> "OTHER", len |-> 4]

HtChoices ==
    { <<>>,
      <<HtIe({"SGI_20"}, 1, FALSE)>>,
      <<HtIe({"SUP_WIDTH_20_40", "SGI_40"}, 2, TRUE)>>,
      <<HtIe({"SUP_WIDTH_20_40", "40MHZ_INTOLERANT", "SGI_40"}, 3, TRUE)>>,
      <<HtIe({"SUP_WIDTH_20_40"}, 0, TRUE)>>,
      <<[HtIe({"SUP_WIDTH_20_40", "SGI_40"}, 4, FALSE) EXCEPT !.len = 24]>> }

VhtChoices ==
    { <<>>,
      <<VhtIe(0, {"SGI_80"}, UMap(1, 2))>>,
      <<VhtIe(4, {"SGI_80"}, UMap(2, 1))>>,
      <<VhtIe(8, {"SGI_160"}, UMap(4, 0))>>,
      <<VhtIe(4, {"SGI_160"}, UMap(0, 3))>> }

HeChoices ==
    { <<>>,
      <<HeIe(26, {"40MHZ_IN_2G", "40MHZ_80MHZ_IN_5G"}, UMap(2, 2), UMap(1, 1))>>,
      <<HeIe(26, {"160MHZ_IN_5G"}, UMap(8, 0), UMap(4, 2))>>,
      <<HeIe(22, {}, UMap(1, 1), UMap(0, 3))>> }

Legacy == { <<Supp>>, <<Supp, OtherIe, ExtSupp>> }

\* Complete buffers of well-formed elements.
MC_Scans ==
    {[band |-> b, cut |-> 0, ies |-> l \o h \o v \o <<OtherExtIe>> \o x] :
        b \in {"2G", "5G"}, l \in Legacy, h \in HtChoices, v \in VhtChoices,
        x \in HeChoices}

\* A VHT or HE map whose top stream supports fewer MCS than the one below.
MC_SteppedScans ==
    {[band |-> "5G", cut |-> 0, ies |-> <<Supp>> \o v] :
        v \in { <<VhtIe(0, {}, [i \in 1..NssMax |->
                                  IF i <= 4 THEN 2 ELSE IF i = 5 THEN 0 ELSE 3])>>,
                <<HeIe(26, {"40MHZ_80MHZ_IN_5G"},
                       [i \in 1..NssMax |-> IF i <= 2 THEN 2 ELSE IF i = 3 THEN 0 ELSE 3],
                       UMap(0, 3))>> }}

\* Buffers that end one or two bytes into their last element, and an HE
\* element too short for rx_mcs_160 at the end.
MC_ShortScans ==
    {[band |-> "5G", cut |-> c, ies |-> <<Supp>> \o t] :
        c \in 0..2,
        t \in { <<ExtSupp>>, <<HtIe({}, 1, FALSE)>>,
                <<HeIe(22, {"160MHZ_IN_5G"}, UMap(1, 1), UMap(1, 1))>> }}
=============================================================================
