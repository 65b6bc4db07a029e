SPECIFICATION FairSpec
CONSTANTS
  DHCPS_HISTORY_CLIENT_NUM = 2
  DHCP_DEFFAULT_TIMEOUT = 1
  DHCP_DEFAULT_LEASE_TIME = 2
  HostMask = 7
  ServerHost = 1
  Macs = {c1, c2, c3}
  NoMac = NoMac
INVARIANTS
  TypeOK
  OneEntryPerClient
  GrantRemembered
  NoSharedAddress
  RefusedOnlyWhenFull
PROPERTIES
  OfferReclaimed
  HistoryRespected
