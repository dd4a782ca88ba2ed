CONSTANTS
    UrlLen <- MC_UrlLen
    RecordLen <- MC_RecordLen
    MaxRecords <- MC_MaxRecords
    AddressLen <- MC_AddressLen
    AcceptedLen <- MC_AcceptedLen
SPECIFICATION SpecAlias
INVARIANTS
    ResolvesToAddress
