\* calculate_phy_rate over complete, well-formed element buffers.
CONSTANTS
    Scans <- MC_Scans
    MAX_NUM_SUPPORTED_RATES = 32
    PHY_STAT_RATE_NSS_MAX <- NssMax
SPECIFICATION Spec
INVARIANTS
    TypeOK
    MaxRateIsBest
