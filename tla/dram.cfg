\* Two banks with two rows each, as line numbers under a channel span of 2 (one
\* channel, LOG2_DRAM_CHANNELS = 1), one column and rank.
SPECIFICATION Spec
CONSTANTS
  Addresses = {2, 4, 6}
  CHANNEL_SPAN = 2
  DRAM_BANKS = 2
  DRAM_COLUMNS = 1
  DRAM_RANKS = 1
  DRAM_ROWS = 2
  DRAM_RQ_SIZE = 2
  DRAM_WQ_SIZE = 3
  DRAM_WRITE_HIGH_WM = 3
  DRAM_WRITE_LOW_WM = 2
  tRP = 1
  tRCD = 1
  tCAS = 1
  DRAM_DBUS_RETURN_TIME = 2
  DRAM_DBUS_TURN_AROUND_TIME = 1
  LLC_MSHR_SIZE = 2
  MaxAge = 1
  Window = 2
INVARIANTS
  TypeOK
  BankReservation
  NextIndicesFresh
  EveryMissQueued
PROPERTIES
  EveryReadAnswered
  WritesDrain
