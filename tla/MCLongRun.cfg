\* Two hosts, three modes, campaigns of up to three cases, one kill.
CONSTANTS
    Numeral <- MCNumeral
    TlsCatalog <- MCTlsCatalog
    KvCatalog <- MCKvCatalog
    NetCatalog <- MCNetCatalog
    KvNsid = 1
    KeyLengths <- MCKeyLengths
    ValueLengths <- MCValueLengths
    Modes = {"tls", "kv", "net"}
    Jobs <- MCJobs
    Hosts = {1, 2}
    Launches <- MCLaunches
    MaxKills = 1
SPECIFICATION Spec
INVARIANTS SettingsPrecede CampaignExact CasesFit EachCaseOnce ReportsAgree
